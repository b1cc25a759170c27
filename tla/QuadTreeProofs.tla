---------------------------- MODULE QuadTreeProofs ----------------------------
(***************************************************************************)
(* For every layer, accuracy and size of the buckets: the shape of the     *)
(* tree, and what its nodes and counters say about the records.            *)
(***************************************************************************)
EXTENDS Searches, LibraryFacts

(* A rectangle that owns at least one position of the grid. *)
IsNode(r) == /\ r \in [edge0 : Point, edge1 : Point]
             /\ r.edge0.latitude < r.edge1.latitude
             /\ r.edge0.longitude < r.edge1.longitude

(* The accuracy allows to split it. *)
Large(r) == Height(r) >= Accuracy /\ Width(r) >= Accuracy

In(a, b) == /\ b.edge0.latitude <= a.edge0.latitude
            /\ b.edge0.longitude <= a.edge0.longitude
            /\ a.edge1.latitude <= b.edge1.latitude
            /\ a.edge1.longitude <= b.edge1.longitude

Apart(a, b) == \/ a.edge1.latitude <= b.edge0.latitude
               \/ b.edge1.latitude <= a.edge0.latitude
               \/ a.edge1.longitude <= b.edge0.longitude
               \/ b.edge1.longitude <= a.edge0.longitude

Under(n, q) == \E c \in Children(q) : In(n, c)
-----------------------------------------------------------------------------
(* Rectangles *)

(* Rect puts each of its arguments where it belongs. *)
LEMMA RectFacts ==
  ASSUME NEW a \in Int, NEW b \in Int, NEW c \in Int, NEW d \in Int
  PROVE  /\ Rect(a, b, c, d) \in [edge0 : Point, edge1 : Point]
         /\ Rect(a, b, c, d).edge0.latitude = a /\ Rect(a, b, c, d).edge0.longitude = b
         /\ Rect(a, b, c, d).edge1.latitude = c /\ Rect(a, b, c, d).edge1.longitude = d
  BY DEF Rect, Point

(* The corners of a rectangle. *)
Corners(r, a, b, c, d) ==
    /\ r.edge0.latitude = a /\ r.edge0.longitude = b
    /\ r.edge1.latitude = c /\ r.edge1.longitude = d

(* A node has integer corners and positive sides. *)
LEMMA NodeFacts ==
  ASSUME NEW r, IsNode(r)
  PROVE  /\ r.edge0.latitude \in Int /\ r.edge0.longitude \in Int
         /\ r.edge1.latitude \in Int /\ r.edge1.longitude \in Int
         /\ r.edge0.latitude < r.edge1.latitude /\ r.edge0.longitude < r.edge1.longitude
         /\ Height(r) = r.edge1.latitude - r.edge0.latitude
         /\ Width(r) = r.edge1.longitude - r.edge0.longitude
         /\ Height(r) \in Nat /\ Width(r) \in Nat
<1>1. /\ r.edge0.latitude \in Int /\ r.edge0.longitude \in Int
      /\ r.edge1.latitude \in Int /\ r.edge1.longitude \in Int
      /\ r.edge0.latitude < r.edge1.latitude /\ r.edge0.longitude < r.edge1.longitude
  BY DEF IsNode, Point
<1> QED BY <1>1 DEF Height, Width

(* The medians of a rectangle that can be split lie inside it. *)
LEMMA Halves ==
  ASSUME NEW a \in Int, NEW b \in Int, b - a >= 2
  PROVE  (a + b) \div 2 \in Int /\ a < (a + b) \div 2 /\ (a + b) \div 2 < b
<1>1. \A x \in Int : x \div 2 \in Int /\ 2 * (x \div 2) <= x /\ x < 2 * (x \div 2) + 2
  OBVIOUS
<1> DEFINE m == (a + b) \div 2
<1>2. m \in Int /\ 2 * m <= a + b /\ a + b < 2 * m + 2
  BY <1>1
<1> HIDE DEF m
<1>3. a < m /\ m < b
  BY <1>2
<1> QED BY <1>2, <1>3 DEF m

(* The four children of a quad, by the corners that the two medians give. *)
LEMMA FourChildren ==
  ASSUME NEW q, IsNode(q), Large(q)
  PROVE  \E m, n, c1, c2, c3, c4 :
            /\ m \in Int /\ n \in Int
            /\ q.edge0.latitude < m /\ m < q.edge1.latitude
            /\ q.edge0.longitude < n /\ n < q.edge1.longitude
            /\ get_qrects_from_qbounds(q) = <<c1, c2, c3, c4>>
            /\ Children(q) = {c1, c2, c3, c4}
            /\ Corners(c1, q.edge0.latitude, n, m, q.edge1.longitude)
            /\ Corners(c2, m, n, q.edge1.latitude, q.edge1.longitude)
            /\ Corners(c3, q.edge0.latitude, q.edge0.longitude, m, n)
            /\ Corners(c4, m, q.edge0.longitude, q.edge1.latitude, n)
            /\ IsNode(c1) /\ IsNode(c2) /\ IsNode(c3) /\ IsNode(c4)
<1> DEFINE a == q.edge0.latitude
           b == q.edge0.longitude
           c == q.edge1.latitude
           d == q.edge1.longitude
           m == (a + c) \div 2
           n == (b + d) \div 2
           c1 == Rect(a, n, m, d)
           c2 == Rect(m, n, c, d)
           c3 == Rect(a, b, m, n)
           c4 == Rect(m, b, c, n)
<1>1. a \in Int /\ b \in Int /\ c \in Int /\ d \in Int /\ c - a >= 2 /\ d - b >= 2
  <2>1. Height(q) >= 2 /\ Width(q) >= 2
    BY NodeFacts, TreeAssumption DEF Large
  <2> QED BY <2>1, NodeFacts
<1>2. get_qrects_from_qbounds(q) = <<c1, c2, c3, c4>>
  BY DEF get_qrects_from_qbounds
<1>3. Children(q) = {c1, c2, c3, c4}
  <2> HIDE DEF c1, c2, c3, c4
  <2> QED BY <1>2 DEF Children
<1> HIDE DEF a, b, c, d
<1>4. m \in Int /\ n \in Int /\ a < m /\ m < c /\ b < n /\ n < d
  BY <1>1, Halves
<1> HIDE DEF m, n
<1>5. /\ Corners(c1, a, n, m, d) /\ Corners(c2, m, n, c, d)
      /\ Corners(c3, a, b, m, n) /\ Corners(c4, m, b, c, n)
  BY <1>1, <1>4, RectFacts DEF Corners
<1>6. IsNode(c1) /\ IsNode(c2) /\ IsNode(c3) /\ IsNode(c4)
  <2>1. {c1, c2, c3, c4} \subseteq [edge0 : Point, edge1 : Point]
    BY <1>1, <1>4, RectFacts
  <2> HIDE DEF c1, c2, c3, c4
  <2> QED BY <1>4, <1>5, <2>1 DEF IsNode, Corners
<1> HIDE DEF c1, c2, c3, c4
<1> QED BY <1>2, <1>3, <1>4, <1>5, <1>6 DEF a, b, c, d

(* A child is a smaller rectangle inside its parent. *)
LEMMA ChildFacts ==
  ASSUME NEW q, IsNode(q), Large(q), NEW c \in Children(q)
  PROVE  IsNode(c) /\ In(c, q) /\ ~In(q, c) /\ Height(c) < Height(q) /\ c # q
<1>1. PICK m, n, c1, c2, c3, c4 :
            /\ m \in Int /\ n \in Int
            /\ q.edge0.latitude < m /\ m < q.edge1.latitude
            /\ q.edge0.longitude < n /\ n < q.edge1.longitude
            /\ Children(q) = {c1, c2, c3, c4}
            /\ Corners(c1, q.edge0.latitude, n, m, q.edge1.longitude)
            /\ Corners(c2, m, n, q.edge1.latitude, q.edge1.longitude)
            /\ Corners(c3, q.edge0.latitude, q.edge0.longitude, m, n)
            /\ Corners(c4, m, q.edge0.longitude, q.edge1.latitude, n)
            /\ IsNode(c1) /\ IsNode(c2) /\ IsNode(c3) /\ IsNode(c4)
  BY FourChildren
<1>2. IsNode(c)
  BY <1>1
<1>3. In(c, q) /\ ~In(q, c) /\ Height(c) < Height(q)
  BY <1>1, <1>2, NodeFacts DEF Corners, In
<1> QED BY <1>2, <1>3 

(* Two children share no position. *)
LEMMA ChildrenApart ==
  ASSUME NEW q, IsNode(q), Large(q), NEW c \in Children(q), NEW d \in Children(q), c # d
  PROVE  Apart(c, d)
<1>1. PICK m, n, c1, c2, c3, c4 :
            /\ m \in Int /\ n \in Int
            /\ Children(q) = {c1, c2, c3, c4}
            /\ Corners(c1, q.edge0.latitude, n, m, q.edge1.longitude)
            /\ Corners(c2, m, n, q.edge1.latitude, q.edge1.longitude)
            /\ Corners(c3, q.edge0.latitude, q.edge0.longitude, m, n)
            /\ Corners(c4, m, q.edge0.longitude, q.edge1.latitude, n)
  BY FourChildren
<1>2. Apart(c1, c2) /\ Apart(c1, c3) /\ Apart(c1, c4) /\ Apart(c2, c3) /\ Apart(c2, c4) /\ Apart(c3, c4)
  BY <1>1 DEF Corners, Apart
<1>3. \A x, y : Apart(x, y) => Apart(y, x)
  BY DEF Apart
<1> QED BY <1>1, <1>2, <1>3

(* The position of a quad is in one of its children. *)
LEMMA ChildOfPosition ==
  ASSUME NEW q, IsNode(q), Large(q), NEW p \in Point, position_is_in_rect(p, q)
  PROVE  /\ find_node_for_position(q, p) \in Children(q)
         /\ position_is_in_rect(p, find_node_for_position(q, p))
<1>1. PICK m, n, c1, c2, c3, c4 :
            /\ m \in Int /\ n \in Int
            /\ Children(q) = {c1, c2, c3, c4}
            /\ Corners(c1, q.edge0.latitude, n, m, q.edge1.longitude)
            /\ Corners(c2, m, n, q.edge1.latitude, q.edge1.longitude)
            /\ Corners(c3, q.edge0.latitude, q.edge0.longitude, m, n)
            /\ Corners(c4, m, q.edge0.longitude, q.edge1.latitude, n)
  BY FourChildren
<1>2. p.latitude \in Int /\ p.longitude \in Int
  BY DEF Point
<1>3. position_is_in_rect(p, c1) \/ position_is_in_rect(p, c2)
      \/ position_is_in_rect(p, c3) \/ position_is_in_rect(p, c4)
  BY <1>1, <1>2, NodeFacts DEF Corners, position_is_in_rect
<1>4. \E c \in Children(q) : position_is_in_rect(p, c)
  BY <1>1, <1>3
<1> QED BY <1>4 DEF find_node_for_position

(* Being inside is a partial order, and goes with being apart. *)
LEMMA Nesting ==
  ASSUME NEW a, NEW b, NEW c, IsNode(a), IsNode(b), IsNode(c)
  PROVE  /\ In(a, a)
         /\ In(a, b) /\ In(b, c) => In(a, c)
         /\ In(a, b) => ~Apart(a, b)
         /\ In(a, b) /\ Apart(b, c) => Apart(a, c)
         /\ Apart(a, b) => Apart(b, a)
  BY NodeFacts DEF In, Apart

(* A position is owned by what its owner is inside of, and by nothing      *)
(* apart from it.                                                          *)
LEMMA Positions ==
  ASSUME NEW a, NEW b, IsNode(a), IsNode(b), NEW p \in Point, position_is_in_rect(p, a)
  PROVE  /\ In(a, b) => position_is_in_rect(p, b)
         /\ position_is_in_rect(p, b) => ~Apart(a, b)
<1>1. p.latitude \in Int /\ p.longitude \in Int
  BY DEF Point
<1> QED BY <1>1, NodeFacts DEF In, Apart, position_is_in_rect

(* What is below a quad is inside it, and lower. *)
LEMMA UnderFacts ==
  ASSUME NEW q, IsNode(q), Large(q), NEW n, IsNode(n), Under(n, q)
  PROVE  In(n, q) /\ ~In(q, n) /\ ~Apart(n, q) /\ Height(n) < Height(q) /\ n # q
<1>1. PICK c \in Children(q) : In(n, c)
  BY DEF Under
<1>2. IsNode(c) /\ In(c, q) /\ ~In(q, c) /\ Height(c) < Height(q)
  BY ChildFacts
<1>3. In(n, q) /\ ~Apart(n, q)
  BY <1>1, <1>2, Nesting
<1>4. ~In(q, n)
  BY <1>1, <1>2, Nesting
<1>5. Height(n) <= Height(c) /\ Height(n) \in Int /\ Height(c) \in Int /\ Height(q) \in Int
  BY <1>1, <1>2, NodeFacts DEF In
<1>6. Height(n) < Height(q)
  BY <1>2, <1>5
<1>7. n # q
  BY <1>3, <1>4
<1> QED BY <1>3, <1>4, <1>6, <1>7
-----------------------------------------------------------------------------
(* The nodes of the tree: Q are its quads, B its buckets. *)

(* Two nodes are apart, or one is below the other. *)
Nested(Q, m, n) == \/ m = n \/ Apart(m, n)
                   \/ m \in Q /\ Under(n, m)
                   \/ n \in Q /\ Under(m, n)

Shape(Q, B) ==
    /\ qbounds \in Q /\ IsFiniteSet(Q)
    /\ \A q \in Q : IsNode(q) /\ Large(q)
    /\ \A b \in B : IsNode(b)
    /\ Q \cap B = {}
    /\ \A q \in Q : Children(q) \subseteq Q \cup B
    /\ \A n \in (Q \cup B) \ {qbounds} : \E q \in Q : n \in Children(q)
    /\ \A n \in Q \cup B : In(n, qbounds)
    /\ \A m, n \in Q \cup B : Nested(Q, m, n)

(* A quad that holds a bucket partly holds it all. *)
LEMMA BucketUnder ==
  ASSUME NEW Q, NEW B, Shape(Q, B), NEW b \in B, NEW q \in Q, ~Apart(b, q)
  PROVE  Under(b, q)
<1>1. Nested(Q, b, q) /\ b \notin Q /\ b # q
  BY DEF Shape
<1> QED BY <1>1 DEF Nested

(* The quads above a bucket are those that it is inside of. *)
LEMMA AncestorsAre ==
  ASSUME NEW Q, NEW B, Shape(Q, B), NEW b \in B, NEW t, t.quads = Q
  PROVE  Ancestors(t, b) = {q \in Q : In(b, q)}
<1>1. IsNode(b) /\ \A q \in Q : IsNode(q) /\ Large(q) /\ b # q
  BY DEF Shape
<1>2. b.edge0 \in Point /\ position_is_in_rect(b.edge0, b)
  BY <1>1, NodeFacts DEF IsNode, position_is_in_rect
<1>3. ASSUME NEW q \in Q, In(b, q)
      PROVE  position_is_in_rect(b.edge0, q) /\ Height(q) > Height(b)
  <2>1. ~Apart(b, q)
    BY <1>1, <1>3, Nesting
  <2>2. Under(b, q)
    BY <2>1, BucketUnder
  <2>3. Height(b) < Height(q)
    BY <1>1, <2>2, UnderFacts
  <2>4. position_is_in_rect(b.edge0, q)
    BY <1>1, <1>2, <1>3, Positions
  <2>5. Height(b) \in Int /\ Height(q) \in Int
    BY <1>1, NodeFacts
  <2> QED BY <2>3, <2>4, <2>5
<1>4. ASSUME NEW q \in Q, position_is_in_rect(b.edge0, q)
      PROVE  In(b, q)
  <2>1. ~Apart(b, q)
    BY <1>1, <1>2, <1>4, Positions
  <2>2. Under(b, q)
    BY <2>1, BucketUnder
  <2> QED BY <1>1, <2>2, UnderFacts
<1> QED BY <1>1, <1>3, <1>4 DEF Ancestors

(* A quad whose children are buckets is the last above them. *)
LEMMA LastQuad ==
  ASSUME NEW Q, NEW B, Shape(Q, B), NEW quad \in Q, Children(quad) \subseteq B,
         NEW c \in Children(quad), NEW q \in Q, q # quad
  PROVE  /\ In(c, q) => Under(quad, q)
         /\ Under(quad, q) => In(c, q) /\ In(quad, q)
         /\ ~Under(q, quad)
<1>1. IsNode(q) /\ Large(q) /\ IsNode(quad) /\ Large(quad) /\ IsNode(c) /\ In(c, quad)
  BY ChildFacts DEF Shape
<1>2. ~Under(q, quad)
  <2>1. ASSUME NEW d \in Children(quad), In(q, d) PROVE FALSE
    <3>1. d \in B /\ IsNode(d)
      BY DEF Shape
    <3>2. ~Apart(d, q)
      BY <1>1, <2>1, <3>1, Nesting
    <3>3. Under(d, q)
      BY <3>1, <3>2, BucketUnder
    <3> QED BY <1>1, <2>1, <3>1, <3>3, UnderFacts
  <2> QED BY <2>1 DEF Under
<1>3. ASSUME In(c, q) PROVE Under(quad, q)
  <2>1. ~Apart(q, quad)
    BY <1>1, <1>3, Nesting
  <2>2. Nested(Q, q, quad)
    BY DEF Shape
  <2> QED BY <1>2, <2>1, <2>2 DEF Nested
<1>4. ASSUME Under(quad, q) PROVE In(c, q) /\ In(quad, q)
  <2>1. In(quad, q)
    BY <1>1, <1>4, UnderFacts
  <2> QED BY <1>1, <2>1, Nesting
<1> QED BY <1>2, <1>3, <1>4
-----------------------------------------------------------------------------
(* The shape of the tree through splits and merges *)

(* The root is a node that can be split. *)
LEMMA RootFacts == IsNode(qbounds) /\ Large(qbounds)
<1>1. LatBound \in Nat \ {0} /\ LonBound \in Nat \ {0} /\ Accuracy \in Nat
      /\ Accuracy <= 2 * LatBound /\ Accuracy <= 2 * LonBound
  BY TreeAssumption
<1>2. /\ -LatBound \in Int /\ -LonBound \in Int /\ LatBound \in Int /\ LonBound \in Int
      /\ -LatBound < LatBound /\ -LonBound < LonBound
  BY <1>1
<1>3. /\ qbounds \in [edge0 : Point, edge1 : Point]
      /\ qbounds.edge0.latitude = -LatBound /\ qbounds.edge0.longitude = -LonBound
      /\ qbounds.edge1.latitude = LatBound /\ qbounds.edge1.longitude = LonBound
  <2> DEFINE a == -LatBound
             b == -LonBound
  <2>1. a \in Int /\ b \in Int /\ LatBound \in Int /\ LonBound \in Int
    BY <1>2
  <2>2. qbounds = Rect(a, b, LatBound, LonBound)
    BY DEF qbounds
  <2> HIDE DEF a, b
  <2>3. /\ qbounds \in [edge0 : Point, edge1 : Point]
        /\ qbounds.edge0.latitude = a /\ qbounds.edge0.longitude = b
        /\ qbounds.edge1.latitude = LatBound /\ qbounds.edge1.longitude = LonBound
    BY <2>1, <2>2 DEF Rect, Point
  <2> QED BY <2>3 DEF a, b
<1>4. IsNode(qbounds)
  BY <1>2, <1>3 DEF IsNode
<1>5. Large(qbounds)
  BY <1>1, <1>3 DEF Large, Height, Width
<1> QED BY <1>4, <1>5

(* A layer starts with the root and its four buckets. *)
LEMMA ShapeInit == Shape({qbounds}, Children(qbounds))
<1>1. IsNode(qbounds) /\ Large(qbounds)
  BY RootFacts
<1>2. \A c \in Children(qbounds) : IsNode(c) /\ In(c, qbounds) /\ c # qbounds
  BY <1>1, ChildFacts
<1>3. IsFiniteSet({qbounds})
  BY FS_Singleton
<1>4. In(qbounds, qbounds)
  BY <1>1, Nesting
<1>5. ASSUME NEW m \in {qbounds} \cup Children(qbounds),
             NEW n \in {qbounds} \cup Children(qbounds)
      PROVE  Nested({qbounds}, m, n)
  <2>1. \A c \in Children(qbounds) : Under(c, qbounds)
    BY <1>2, Nesting DEF Under
  <2>2. CASE m \in Children(qbounds) /\ n \in Children(qbounds)
    BY <1>1, <2>2, ChildrenApart DEF Nested
  <2>3. CASE m = qbounds \/ n = qbounds
    BY <2>1, <2>3 DEF Nested
  <2> QED BY <2>2, <2>3
<1> QED BY <1>1, <1>2, <1>3, <1>4, <1>5 DEF Shape

(* It does not matter which of two nodes is named first. *)
LEMMA NestedSymmetric ==
  ASSUME NEW Q, NEW m, NEW n, IsNode(m), IsNode(n), Nested(Q, m, n)
  PROVE  Nested(Q, n, m)
<1>1. Apart(m, n) => Apart(n, m)
  BY Nesting
<1> QED BY <1>1 DEF Nested

(* The children of a bucket are not in the tree yet. *)
LEMMA NewChildren ==
  ASSUME NEW Q, NEW B, Shape(Q, B), NEW b \in B, Large(b), NEW c \in Children(b)
  PROVE  c \notin Q \cup B
<1>1. IsNode(b) /\ b \notin Q
  BY DEF Shape
<1>2. IsNode(c) /\ In(c, b) /\ ~In(b, c) /\ c # b /\ ~Apart(b, c)
  BY <1>1, ChildFacts, Nesting
<1>3. ASSUME c \in Q \cup B PROVE FALSE
  <2>1. Nested(Q, b, c)
    BY <1>3 DEF Shape
  <2>2. c \in Q /\ Under(b, c)
    BY <1>1, <1>2, <2>1 DEF Nested
  <2>3. IsNode(c) /\ Large(c)
    BY <2>2 DEF Shape
  <2> QED BY <1>1, <1>2, <2>2, <2>3, UnderFacts
<1> QED BY <1>3

(* A split keeps the shape: the children come below the new quad, and      *)
(* below all that it was below.                                            *)
LEMMA SplitShape ==
  ASSUME NEW Q, NEW B, Shape(Q, B), NEW b \in B, Large(b)
  PROVE  Shape(Q \cup {b}, (B \ {b}) \cup Children(b))
<1> DEFINE Q2 == Q \cup {b}
           B2 == (B \ {b}) \cup Children(b)
<1>1. IsNode(b) /\ b \notin Q /\ In(b, qbounds)
  BY DEF Shape
<1>2. \A c \in Children(b) : IsNode(c) /\ In(c, b) /\ c # b /\ c \notin Q \cup B
  BY <1>1, ChildFacts, NewChildren
<1>3. Q2 \cup B2 = Q \cup B \cup Children(b)
  OBVIOUS
<1>4. qbounds \in Q2 /\ IsFiniteSet(Q2)
  BY FS_AddElement DEF Shape
<1>5. \A q \in Q2 : IsNode(q) /\ Large(q)
  BY <1>1 DEF Shape
<1>6. \A n \in B2 : IsNode(n)
  BY <1>2 DEF Shape
<1>7. Q2 \cap B2 = {}
  BY <1>1, <1>2 DEF Shape
<1>8. \A q \in Q2 : Children(q) \subseteq Q2 \cup B2
  BY <1>3 DEF Shape
<1>9. \A n \in (Q2 \cup B2) \ {qbounds} : \E q \in Q2 : n \in Children(q)
  BY <1>3 DEF Shape
<1>10. \A n \in Q2 \cup B2 : In(n, qbounds)
  <2>1. \A c \in Children(b) : In(c, qbounds)
    BY <1>1, <1>2, RootFacts, Nesting
  <2> QED BY <1>3, <2>1 DEF Shape
<1>11. ASSUME NEW c \in Children(b), NEW n \in Q \cup B
       PROVE  Nested(Q2, c, n)
  <2>1. Nested(Q, b, n) /\ IsNode(n)
    BY DEF Shape
  <2>2. CASE b = n
    <3>1. Under(c, b)
      BY <1>2, Nesting DEF Under
    <3> QED BY <2>2, <3>1 DEF Nested
  <2>3. CASE Apart(b, n)
    <3>1. Apart(c, n)
      BY <1>1, <1>2, <2>1, <2>3, Nesting
    <3> QED BY <3>1 DEF Nested
  <2>4. CASE n \in Q /\ Under(b, n)
    <3>1. PICK d \in Children(n) : In(b, d)
      BY <2>4 DEF Under
    <3>2. IsNode(d)
      BY <2>4, <3>1, ChildFacts DEF Shape
    <3>3. In(c, d)
      BY <1>1, <1>2, <3>1, <3>2, Nesting
    <3> QED BY <2>4, <3>3 DEF Under, Nested
  <2> QED BY <1>1, <2>1, <2>2, <2>3, <2>4 DEF Nested
<1>12. ASSUME NEW m \in Q2 \cup B2, NEW n \in Q2 \cup B2
       PROVE  Nested(Q2, m, n)
  <2>1. IsNode(m) /\ IsNode(n)
    BY <1>5, <1>6
  <2>2. CASE m \in Q \cup B /\ n \in Q \cup B
    <3>1. Nested(Q, m, n)
      BY <2>2 DEF Shape
    <3> QED BY <3>1 DEF Nested
  <2>3. CASE m \in Children(b) /\ n \in Children(b)
    BY <1>1, <2>3, ChildrenApart DEF Nested
  <2>4. CASE m \in Children(b) /\ n \in Q \cup B
    BY <1>11, <2>4
  <2>5. CASE m \in Q \cup B /\ n \in Children(b)
    BY <1>11, <2>1, <2>5, NestedSymmetric
  <2> QED BY <1>3, <2>2, <2>3, <2>4, <2>5
<1> HIDE DEF Q2, B2
<1>13. Shape(Q2, B2)
  BY <1>4, <1>5, <1>6, <1>7, <1>8, <1>9, <1>10, <1>12 DEF Shape
<1> QED BY <1>13 DEF Q2, B2

(* A merge keeps the shape: nothing is left below the quad, and no other   *)
(* quad loses a child.                                                     *)
LEMMA MergeShape ==
  ASSUME NEW Q, NEW B, Shape(Q, B), NEW quad \in Q \ {qbounds}, Children(quad) \subseteq B
  PROVE  Shape(Q \ {quad}, (B \ Children(quad)) \cup {quad})
<1> DEFINE Q2 == Q \ {quad}
           B2 == (B \ Children(quad)) \cup {quad}
<1>1. IsNode(quad) /\ Large(quad) /\ In(quad, qbounds) /\ quad \notin B /\ Q \cap B = {}
  BY DEF Shape
<1>2. \A c \in Children(quad) : IsNode(c) /\ In(c, quad) /\ ~In(quad, c)
  BY <1>1, ChildFacts
<1>3. Q2 \cup B2 = (Q \cup B) \ Children(quad) /\ Q2 \cap B2 = {}
  BY <1>1
<1>4. qbounds \in Q2 /\ IsFiniteSet(Q2)
  BY FS_RemoveElement DEF Shape
<1>5. \A q \in Q2 : IsNode(q) /\ Large(q)
  BY DEF Shape
<1>6. \A n \in B2 : IsNode(n)
  BY <1>1 DEF Shape
<1>7. ASSUME NEW q \in Q2, NEW c \in Children(q)
      PROVE  c \in Q2 \cup B2
  <2>1. c \in Q \cup B
    BY DEF Shape
  <2>2. ASSUME c \in Children(quad) PROVE FALSE
    <3>1. IsNode(q) /\ Large(q)
      BY <1>5
    <3>2. IsNode(c) /\ In(c, q)
      BY <3>1, ChildFacts
    <3>3. Under(quad, q)
      BY <2>2, <3>2, LastQuad
    <3>4. PICK d \in Children(q) : In(quad, d)
      BY <3>3 DEF Under
    <3>5. IsNode(d)
      BY <3>1, ChildFacts
    <3>6. c # d
      BY <1>2, <2>2, <3>4
    <3>7. Apart(c, d)
      BY <3>1, <3>6, ChildrenApart
    <3>8. In(c, d)
      BY <1>1, <1>2, <2>2, <3>2, <3>4, <3>5, Nesting
    <3> QED BY <3>2, <3>5, <3>7, <3>8, Nesting
  <2> QED BY <1>3, <2>1, <2>2
<1>8. ASSUME NEW n \in (Q2 \cup B2) \ {qbounds}
      PROVE  \E q \in Q2 : n \in Children(q)
  <2>1. n \in (Q \cup B) \ {qbounds} /\ n \notin Children(quad)
    BY <1>3
  <2>2. PICK q \in Q : n \in Children(q)
    BY <2>1 DEF Shape
  <2> QED BY <2>1, <2>2
<1>9. \A n \in Q2 \cup B2 : In(n, qbounds)
  BY <1>3 DEF Shape
<1>10. ASSUME NEW n \in Q2 \cup B2, Under(n, quad)
       PROVE  FALSE
  <2>1. PICK c \in Children(quad) : In(n, c)
    BY <1>10 DEF Under
  <2>2. n \in Q \cup B /\ n # c /\ c \notin Q /\ IsNode(n) /\ IsNode(c)
    BY <1>1, <1>2, <1>3, <1>5, <1>6, <2>1
  <2>3. Nested(Q, n, c) /\ ~Apart(n, c)
    BY <2>1, <2>2, Nesting DEF Shape
  <2>4. n \in Q /\ Under(c, n)
    BY <2>2, <2>3 DEF Nested
  <2>5. Large(n)
    BY <2>4 DEF Shape
  <2> QED BY <2>1, <2>2, <2>4, <2>5, UnderFacts
<1>11. ASSUME NEW m \in Q2 \cup B2, NEW n \in Q2 \cup B2
       PROVE  Nested(Q2, m, n)
  <2>1. Nested(Q, m, n)
    BY <1>3 DEF Shape
  <2> QED BY <1>10, <2>1 DEF Nested
<1> HIDE DEF Q2, B2
<1>12. Shape(Q2, B2)
  BY <1>3, <1>4, <1>5, <1>6, <1>7, <1>8, <1>9, <1>11 DEF Shape
<1> QED BY <1>12 DEF Q2, B2

(* The descent from the root ends at a bucket that owns the position: the  *)
(* lowest quad that owns it has no quad below that does.                   *)
LEMMA Descent ==
  ASSUME NEW Q, NEW B, Shape(Q, B), NEW t, t.quads = Q,
         NEW p \in Point, position_is_in_rect(p, qbounds)
  PROVE  BucketFor(t, p) \in B /\ position_is_in_rect(p, BucketFor(t, p))
<1> DEFINE On == {q \in Q : position_is_in_rect(p, q)}
           Heights == {Height(q) : q \in On}
<1>1. \A q \in Q : IsNode(q) /\ Large(q) /\ Height(q) \in Nat
  BY NodeFacts DEF Shape
<1>2. qbounds \in On
  BY DEF Shape
<1>3. PICK h \in Heights : \A i \in Heights : h <= i
  <2>1. Heights \in SUBSET Nat /\ Heights # {}
    BY <1>1, <1>2
  <2> HIDE DEF Heights
  <2> QED BY <2>1, LeastNat
<1>4. PICK q \in On : h = Height(q)
  OBVIOUS
<1>5. find_node_for_position(q, p) \notin Q
  <2>1. find_node_for_position(q, p) \in Children(q)
        /\ position_is_in_rect(p, find_node_for_position(q, p))
    BY <1>1, ChildOfPosition
  <2> DEFINE c == find_node_for_position(q, p)
  <2>2. Height(c) < Height(q)
    BY <1>1, <2>1, ChildFacts
  <2> HIDE DEF c
  <2>3. ASSUME c \in Q PROVE FALSE
    <3>1. c \in On
      BY <2>1, <2>3 DEF c
    <3>2. Height(q) <= Height(c)
      BY <1>3, <1>4, <3>1
    <3>3. Height(c) \in Nat /\ Height(q) \in Nat
      BY <1>1, <2>3
    <3> QED BY <2>2, <3>2, <3>3
  <2> QED BY <2>3 DEF c
<1> DEFINE Ends(x) == position_is_in_rect(p, x) /\ find_node_for_position(x, p) \notin Q
           last == CHOOSE x \in Q : Ends(x)
<1>6. last \in Q /\ Ends(last)
  BY <1>4, <1>5
<1>7. BucketFor(t, p) = find_node_for_position(last, p)
  BY DEF BucketFor
<1> HIDE DEF last
<1>8. /\ find_node_for_position(last, p) \in Children(last)
      /\ position_is_in_rect(p, find_node_for_position(last, p))
  BY <1>1, <1>6, ChildOfPosition
<1>9. Children(last) \subseteq Q \cup B
  BY <1>6 DEF Shape
<1> QED BY <1>6, <1>7, <1>8, <1>9
-----------------------------------------------------------------------------
(* What the tree holds.  Its nodes, the bucket of each key and the         *)
(* position of each key determine it: slots are those of the keys of a     *)
(* bucket, counters are numbers of keys.  Between the removal of a slot    *)
(* and the update of the quads above it, these still count one key of the  *)
(* bucket x.                                                               *)

KeysAt(slot, b)    == {k \in Key : slot[k] = b}
KeysBelow(slot, q) == {k \in Key : slot[k] # NoBucket /\ In(slot[k], q)}
Surplus(x, q)      == IF x # NoBucket /\ In(x, q) THEN 1 ELSE 0

Filled(slot, pos, b) == [slots      |-> {Slot(k, pos[k]) : k \in KeysAt(slot, b)},
                         busy_slots |-> Cardinality(KeysAt(slot, b))]

TreeOf(Q, B, slot, pos, x) ==
    [quads     |-> Q,
     sub_slots |-> [q \in Q |-> Cardinality(KeysBelow(slot, q)) + Surplus(x, q)],
     buckets   |-> [b \in B |-> Filled(slot, pos, b)],
     slot      |-> slot]

Settled(B, slot, pos) ==
    /\ slot \in [Key -> B \cup {NoBucket}] /\ pos \in [Key -> Point]
    /\ \A k \in Key : slot[k] # NoBucket =>
          pos[k] \in Position /\ position_is_in_rect(pos[k], slot[k])

(* NULL is no node. *)
LEMMA NotANode == ASSUME IsNode(NoBucket) PROVE FALSE
  BY TreeAssumption DEF IsNode, Point

(* Numbers of keys are natural numbers. *)
LEMMA KeysFinite ==
  ASSUME NEW slot, NEW b
  PROVE  /\ IsFiniteSet(KeysAt(slot, b)) /\ Cardinality(KeysAt(slot, b)) \in Nat
         /\ IsFiniteSet(KeysBelow(slot, b)) /\ Cardinality(KeysBelow(slot, b)) \in Nat
<1>1. KeysAt(slot, b) \subseteq Key /\ KeysBelow(slot, b) \subseteq Key /\ IsFiniteSet(Key)
  BY TreeAssumption DEF KeysAt, KeysBelow
<1> QED BY <1>1, FS_Subset, FS_CardinalityType

(* A slot tells its key and its position. *)
LEMMA SlotFacts ==
  ASSUME NEW k, NEW p
  PROVE  /\ Slot(k, p).key = k /\ Slot(k, p).position = p
         /\ \A j, r : Slot(k, p) = Slot(j, r) => k = j /\ p = r
<1>1. \A j, r : Slot(j, r).key = j /\ Slot(j, r).position = r
  BY DEF Slot
<1> QED BY <1>1

(* The slot of a key is the one with its position. *)
LEMMA SlotOfIs ==
  ASSUME NEW Q, NEW B, NEW slot, NEW pos, NEW x, NEW k \in Key, slot[k] \in B
  PROVE  SlotOf(TreeOf(Q, B, slot, pos, x), k) = Slot(k, pos[k])
<1> DEFINE t == TreeOf(Q, B, slot, pos, x)
<1>1. t.slot = slot /\ t.buckets[slot[k]].slots = {Slot(j, pos[j]) : j \in KeysAt(slot, slot[k])}
  BY DEF TreeOf, Filled
<1> HIDE DEF t
<1> DEFINE S == {Slot(j, pos[j]) : j \in KeysAt(slot, slot[k])}
<1>2. Slot(k, pos[k]) \in S /\ Slot(k, pos[k]).key = k
  BY SlotFacts DEF KeysAt
<1>3. \A s \in S : s.key = k => s = Slot(k, pos[k])
  BY SlotFacts
<1>4. SlotOf(t, k) = CHOOSE s \in S : s.key = k
  BY <1>1 DEF SlotOf
<1> HIDE DEF S
<1>5. SlotOf(t, k) = Slot(k, pos[k])
  BY <1>2, <1>3, <1>4
<1> QED BY <1>5 DEF t

(* The counters when a key leaves its bucket, and when it gets one. *)
LEMMA LeaveCounts ==
  ASSUME NEW slot, NEW k \in Key, slot[k] # NoBucket, NEW left,
         \A j \in Key : left[j] = IF j = k THEN NoBucket ELSE slot[j],
         NEW b, b # NoBucket
  PROVE  /\ KeysAt(left, b) = KeysAt(slot, b) \ {k}
         /\ KeysBelow(left, b) = KeysBelow(slot, b) \ {k}
         /\ Cardinality(KeysAt(slot, b)) =
              Cardinality(KeysAt(left, b)) + (IF slot[k] = b THEN 1 ELSE 0)
         /\ Cardinality(KeysBelow(slot, b)) = Cardinality(KeysBelow(left, b)) + Surplus(slot[k], b)
<1>1. KeysAt(left, b) = KeysAt(slot, b) \ {k}
  BY DEF KeysAt
<1>2. KeysBelow(left, b) = KeysBelow(slot, b) \ {k}
  BY DEF KeysBelow
<1>3. k \in KeysAt(slot, b) <=> slot[k] = b
  BY DEF KeysAt
<1>4. k \in KeysBelow(slot, b) <=> In(slot[k], b)
  BY DEF KeysBelow
<1> DEFINE S == KeysAt(slot, b)
           T == KeysBelow(slot, b)
<1>5. /\ IsFiniteSet(S) /\ Cardinality(S) \in Nat
      /\ IsFiniteSet(T) /\ Cardinality(T) \in Nat
  BY KeysFinite
<1> HIDE DEF S, T
<1>6. Cardinality(S) = Cardinality(S \ {k}) + (IF k \in S THEN 1 ELSE 0)
  <2>1. Cardinality(S \ {k}) = IF k \in S THEN Cardinality(S) - 1 ELSE Cardinality(S)
    BY <1>5, FS_RemoveElement
  <2> QED BY <1>5, <2>1
<1>7. Cardinality(T) = Cardinality(T \ {k}) + (IF k \in T THEN 1 ELSE 0)
  <2>1. Cardinality(T \ {k}) = IF k \in T THEN Cardinality(T) - 1 ELSE Cardinality(T)
    BY <1>5, FS_RemoveElement
  <2> QED BY <1>5, <2>1
<1> QED BY <1>1, <1>2, <1>3, <1>4, <1>6, <1>7 DEF S, T, Surplus

(* Taking a slot out leaves the quads above its bucket one too high. *)
LEMMA TakeIs ==
  ASSUME NEW Q, NEW B, Shape(Q, B), NEW slot, NEW pos, Settled(B, slot, pos),
         NEW k \in Key, slot[k] # NoBucket
  PROVE  Take(TreeOf(Q, B, slot, pos, NoBucket), k)
           = TreeOf(Q, B, [slot EXCEPT ![k] = NoBucket], pos, slot[k])
<1> DEFINE t == TreeOf(Q, B, slot, pos, NoBucket)
           left == [slot EXCEPT ![k] = NoBucket]
           x == slot[k]
           u == TreeOf(Q, B, left, pos, x)
<1>1. slot \in [Key -> B \cup {NoBucket}] /\ x \in B /\ x # NoBucket
  BY DEF Settled
<1>2. \A j \in Key : left[j] = IF j = k THEN NoBucket ELSE slot[j]
  BY <1>1
<1>3. \A b \in B : b # NoBucket
  BY NotANode DEF Shape
<1>4. \A q \in Q : q # NoBucket
  BY NotANode DEF Shape
<1>5. t.quads = Q /\ t.slot = slot
      /\ t.buckets = [b \in B |-> Filled(slot, pos, b)]
      /\ t.sub_slots = [q \in Q |-> Cardinality(KeysBelow(slot, q)) + Surplus(NoBucket, q)]
  BY DEF TreeOf
<1>6. SlotOf(t, k) = Slot(k, pos[k])
  BY <1>1, SlotOfIs
<1>7. Take(t, k) = [t EXCEPT !.buckets[x] = [slots |-> @.slots \ {Slot(k, pos[k])},
                                            busy_slots |-> @.busy_slots - 1],
                             !.slot[k] = NoBucket]
  <2> HIDE DEF t
  <2> QED BY <1>5, <1>6 DEF Take
<1> DEFINE F == [slots |-> Filled(slot, pos, x).slots \ {Slot(k, pos[k])},
                 busy_slots |-> Filled(slot, pos, x).busy_slots - 1]
<1>8. F = Filled(left, pos, x)
  <2>1. /\ KeysAt(left, x) = KeysAt(slot, x) \ {k}
        /\ Cardinality(KeysAt(slot, x)) = Cardinality(KeysAt(left, x)) + 1
    <3> HIDE DEF left
    <3> QED BY <1>1, <1>2, LeaveCounts
  <2>2. Cardinality(KeysAt(left, x)) \in Nat
    BY KeysFinite
  <2> DEFINE K1 == KeysAt(slot, x)
             K2 == KeysAt(left, x)
  <2>3. {Slot(j, pos[j]) : j \in K1} \ {Slot(k, pos[k])} = {Slot(j, pos[j]) : j \in K2}
    <3>1. K2 = K1 \ {k}
      BY <2>1
    <3> HIDE DEF K1, K2
    <3>2. \A j : Slot(j, pos[j]) = Slot(k, pos[k]) => j = k
      BY SlotFacts
    <3> QED BY <3>1, <3>2
  <2>4. Cardinality(K1) - 1 = Cardinality(K2)
    BY <2>1, <2>2
  <2> HIDE DEF K1, K2, left
  <2>5. Filled(slot, pos, x).slots = {Slot(j, pos[j]) : j \in K1}
        /\ Filled(slot, pos, x).busy_slots = Cardinality(K1)
    BY DEF Filled, K1
  <2>6. Filled(left, pos, x) = [slots |-> {Slot(j, pos[j]) : j \in K2}, busy_slots |-> Cardinality(K2)]
    BY DEF Filled, K2
  <2> QED BY <2>3, <2>4, <2>5, <2>6
<1>9. [t.buckets EXCEPT ![x] = F] = [b \in B |-> Filled(left, pos, b)]
  <2>1. ASSUME NEW b \in B, b # x
        PROVE  Filled(left, pos, b) = Filled(slot, pos, b)
    <3>1. KeysAt(left, b) = KeysAt(slot, b)
      <4> HIDE DEF left
      <4> QED BY <1>2, <1>3, <2>1 DEF KeysAt
    <3> QED BY <3>1 DEF Filled
  <2> HIDE DEF left, F, t
  <2> QED BY <1>1, <1>5, <1>8, <2>1
<1>10. t.sub_slots = u.sub_slots
  <2>1. ASSUME NEW q \in Q
        PROVE  Cardinality(KeysBelow(slot, q)) + Surplus(NoBucket, q)
                 = Cardinality(KeysBelow(left, q)) + Surplus(x, q)
    <3>1. Cardinality(KeysBelow(slot, q)) = Cardinality(KeysBelow(left, q)) + Surplus(x, q)
      <4> HIDE DEF left
      <4> QED BY <1>1, <1>2, <1>4, LeaveCounts
    <3>2. Surplus(NoBucket, q) = 0 /\ Cardinality(KeysBelow(slot, q)) \in Nat
      BY KeysFinite DEF Surplus
    <3> QED BY <3>1, <3>2
  <2>2. u.sub_slots = [q \in Q |-> Cardinality(KeysBelow(left, q)) + Surplus(x, q)]
    BY DEF TreeOf
  <2> HIDE DEF left, x, u, t
  <2> QED BY <1>5, <2>1, <2>2
<1>11. Take(t, k) = [quads |-> Q, sub_slots |-> t.sub_slots, buckets |-> [t.buckets EXCEPT ![x] = F],
                     slot |-> left]
  <2>1. t = [quads |-> Q, sub_slots |-> t.sub_slots, buckets |-> t.buckets, slot |-> slot]
    BY DEF TreeOf
  <2>2. t.buckets[x] = Filled(slot, pos, x)
    BY <1>1, <1>5
  <2> DEFINE subs == t.sub_slots
             bucks == t.buckets
  <2> HIDE DEF t, subs, bucks
  <2>3. t = [quads |-> Q, sub_slots |-> subs, buckets |-> bucks, slot |-> slot]
    BY <2>1 DEF subs, bucks
  <2>4. bucks[x] = Filled(slot, pos, x)
    BY <2>2 DEF bucks
  <2>5. Take(t, k) = [quads |-> Q, sub_slots |-> subs, buckets |-> [bucks EXCEPT ![x] = F], slot |-> left]
    BY <1>7, <2>3, <2>4
  <2> QED BY <2>5 DEF subs, bucks
<1>12. u = [quads |-> Q, sub_slots |-> u.sub_slots, buckets |-> [b \in B |-> Filled(left, pos, b)],
            slot |-> left]
  BY DEF TreeOf
<1> HIDE DEF t, u, left, F
<1>13. Take(t, k) = u
  BY <1>9, <1>10, <1>11, <1>12
<1> QED BY <1>13 DEF t, u, left

(* Uncounting corrects them. *)
LEMMA UncountIs ==
  ASSUME NEW Q, NEW B, Shape(Q, B), NEW slot, NEW pos, NEW x \in B
  PROVE  Uncount(TreeOf(Q, B, slot, pos, x), x) = TreeOf(Q, B, slot, pos, NoBucket)
<1> DEFINE t == TreeOf(Q, B, slot, pos, x)
           u == TreeOf(Q, B, slot, pos, NoBucket)
<1>1. t.quads = Q
      /\ t.sub_slots = [q \in Q |-> Cardinality(KeysBelow(slot, q)) + Surplus(x, q)]
      /\ u.sub_slots = [q \in Q |-> Cardinality(KeysBelow(slot, q)) + Surplus(NoBucket, q)]
  BY DEF TreeOf
<1> DEFINE bucks == [b \in B |-> Filled(slot, pos, b)]
<1>2. u = [t EXCEPT !.sub_slots = u.sub_slots]
  <2>1. /\ t = [quads |-> Q, sub_slots |-> t.sub_slots, buckets |-> bucks, slot |-> slot]
        /\ u = [quads |-> Q, sub_slots |-> u.sub_slots, buckets |-> bucks, slot |-> slot]
    BY DEF TreeOf
  <2> HIDE DEF t, u, bucks
  <2> QED BY <2>1
<1> HIDE DEF t, u
<1>3. x # NoBucket
  BY NotANode DEF Shape
<1>4. Ancestors(t, x) = {q \in Q : In(x, q)}
  BY <1>1, AncestorsAre
<1> DEFINE left(q) == IF q \in Ancestors(t, x) THEN t.sub_slots[q] - 1 ELSE t.sub_slots[q]
<1>5. ASSUME NEW q \in Q
      PROVE  left(q) = Cardinality(KeysBelow(slot, q)) + Surplus(NoBucket, q)
  <2>1. Cardinality(KeysBelow(slot, q)) \in Nat
    BY KeysFinite
  <2>2. Surplus(NoBucket, q) = 0 /\ Surplus(x, q) = IF In(x, q) THEN 1 ELSE 0
    BY <1>3 DEF Surplus
  <2>3. t.sub_slots[q] = Cardinality(KeysBelow(slot, q)) + Surplus(x, q)
    BY <1>1
  <2> QED BY <1>4, <2>1, <2>2, <2>3
<1> HIDE DEF left
<1>6. [q \in t.quads |-> left(q)] = u.sub_slots
  BY <1>1, <1>5
<1>7. Uncount(t, x) = [t EXCEPT !.sub_slots = [q \in t.quads |-> left(q)]]
  BY DEF Uncount, left
<1>8. Uncount(t, x) = u
  BY <1>2, <1>6, <1>7
<1> QED BY <1>8 DEF t, u

(* As many slots as keys. *)
LEMMA SlotsOfKeys ==
  ASSUME NEW K \in SUBSET Key, NEW pos
  PROVE  Cardinality({Slot(k, pos[k]) : k \in K}) = Cardinality(K)
<1> DEFINE S == {Slot(k, pos[k]) : k \in K}
           f == [k \in K |-> Slot(k, pos[k])]
<1>1. IsFiniteSet(K)
  BY TreeAssumption, FS_Subset
<1>2. f \in Bijection(K, S)
  <2>1. \A k \in K : f[k] = Slot(k, pos[k])
    OBVIOUS
  <2>2. f \in [K -> S]
    OBVIOUS
  <2>3. \A j, k \in K : f[j] = f[k] => j = k
    BY <2>1, SlotFacts
  <2>4. \A s \in S : \E k \in K : f[k] = s
    OBVIOUS
  <2> HIDE DEF f, S
  <2> QED BY <2>2, <2>3, <2>4 DEF Bijection, Injection, Surjection, IsInjective
<1> QED BY <1>1, <1>2, FS_Bijection DEF ExistsBijection

MergedSlots(quad, slot) ==
    [k \in Key |-> IF slot[k] \in Children(quad) THEN quad ELSE slot[k]]

(* A merge hands the keys of the children to one bucket. The quads above   *)
(* are still one too high, now by that bucket.                             *)
LEMMA MergeIs ==
  ASSUME NEW Q, NEW B, Shape(Q, B), NEW slot, NEW pos, Settled(B, slot, pos),
         NEW quad \in Q, Children(quad) \subseteq B, NEW x \in Children(quad)
  PROVE  Merge(TreeOf(Q, B, slot, pos, x), quad)
           = TreeOf(Q \ {quad}, (B \ Children(quad)) \cup {quad},
                    MergedSlots(quad, slot), pos, quad)
<1> DEFINE t == TreeOf(Q, B, slot, pos, x)
           Q2 == Q \ {quad}
           B2 == (B \ Children(quad)) \cup {quad}
           merged == MergedSlots(quad, slot)
           u == TreeOf(Q2, B2, merged, pos, quad)
<1>1. /\ t.quads = Q /\ t.slot = slot /\ DOMAIN t.buckets = B
      /\ \A b \in B : t.buckets[b] = Filled(slot, pos, b)
      /\ \A q \in Q : t.sub_slots[q] = Cardinality(KeysBelow(slot, q)) + Surplus(x, q)
  BY DEF TreeOf
<1>2. \A k \in Key : merged[k] = IF slot[k] \in Children(quad) THEN quad ELSE slot[k]
  BY DEF MergedSlots
<1>3. /\ slot \in [Key -> B \cup {NoBucket}]
      /\ quad \notin B /\ quad # NoBucket /\ \A b \in B : b # NoBucket
  BY NotANode DEF Settled, Shape
<1> HIDE DEF t, merged
<1>4. ASSUME NEW q \in Q2
      PROVE  /\ KeysBelow(merged, q) = KeysBelow(slot, q)
             /\ Surplus(quad, q) = Surplus(x, q)
  <2>1. \A c \in Children(quad) : In(c, q) <=> In(quad, q)
    <3>1. ASSUME NEW c \in Children(quad) PROVE In(c, q) <=> In(quad, q)
      <4>1. In(c, q) => In(quad, q)
        BY LastQuad
      <4>2. In(c, quad) /\ IsNode(c) /\ IsNode(quad) /\ IsNode(q)
        BY ChildFacts DEF Shape
      <4> QED BY <4>1, <4>2, Nesting
    <3> QED BY <3>1
  <2>2. KeysBelow(merged, q) = KeysBelow(slot, q)
    BY <1>2, <1>3, <2>1 DEF KeysBelow
  <2> QED BY <1>3, <2>1, <2>2 DEF Surplus
<1>5. ASSUME NEW b \in B \ Children(quad)
      PROVE  Filled(merged, pos, b) = Filled(slot, pos, b)
  <2>1. KeysAt(merged, b) = KeysAt(slot, b)
    BY <1>2, <1>3 DEF KeysAt
  <2> QED BY <2>1 DEF Filled
<1> DEFINE Kids == {k \in Key : slot[k] \in Children(quad)}
           Union == UNION {t.buckets[c].slots : c \in Children(quad)}
<1>6. KeysAt(merged, quad) = Kids
  BY <1>2, <1>3 DEF KeysAt
<1>7. Union = {Slot(k, pos[k]) : k \in Kids}
  <2>1. \A c \in Children(quad) : t.buckets[c].slots = {Slot(k, pos[k]) : k \in KeysAt(slot, c)}
    <3>1. \A b : Filled(slot, pos, b).slots = {Slot(k, pos[k]) : k \in KeysAt(slot, b)}
      BY DEF Filled
    <3> QED BY <1>1, <3>1
  <2>2. ASSUME NEW s \in Union PROVE s \in {Slot(k, pos[k]) : k \in Kids}
    <3>1. PICK c \in Children(quad) : s \in t.buckets[c].slots
      OBVIOUS
    <3>2. PICK k \in KeysAt(slot, c) : s = Slot(k, pos[k])
      BY <2>1, <3>1
    <3>3. k \in Kids
      BY <3>2 DEF KeysAt
    <3> QED BY <3>2, <3>3
  <2>3. ASSUME NEW k \in Kids PROVE Slot(k, pos[k]) \in Union
    <3>1. k \in KeysAt(slot, slot[k]) /\ slot[k] \in Children(quad)
      BY DEF KeysAt
    <3>2. Slot(k, pos[k]) \in t.buckets[slot[k]].slots
      BY <2>1, <3>1
    <3> QED BY <3>1, <3>2
  <2> QED BY <2>2, <2>3
<1>8. Bucket(Union) = Filled(merged, pos, quad)
  <2>1. Cardinality(Union) = Cardinality(Kids)
    <3>1. Kids \in SUBSET Key
      OBVIOUS
    <3> HIDE DEF Kids, Union
    <3> QED BY <1>7, <3>1, SlotsOfKeys
  <2> HIDE DEF Kids, Union
  <2> QED BY <1>6, <1>7, <2>1 DEF Bucket, Filled
<1> DEFINE subs == [q \in Q2 |-> t.sub_slots[q]]
           bucks == [b \in B2 |-> IF b = quad THEN Bucket(Union) ELSE t.buckets[b]]
           slots == [k \in Key |-> IF slot[k] \in Children(quad) THEN quad ELSE slot[k]]
<1>9. Merge(t, quad) = [quads |-> Q2, sub_slots |-> subs, buckets |-> bucks, slot |-> slots]
  BY <1>1 DEF Merge
<1>10. subs = [q \in Q2 |-> Cardinality(KeysBelow(merged, q)) + Surplus(quad, q)]
  BY <1>1, <1>4
<1>11. bucks = [b \in B2 |-> Filled(merged, pos, b)]
  <2> HIDE DEF Union
  <2> QED BY <1>1, <1>5, <1>8
<1>12. slots = merged
  BY DEF merged, MergedSlots
<1>13. u = [quads |-> Q2, sub_slots |-> [q \in Q2 |-> Cardinality(KeysBelow(merged, q)) + Surplus(quad, q)],
            buckets |-> [b \in B2 |-> Filled(merged, pos, b)], slot |-> merged]
  BY DEF TreeOf
<1> HIDE DEF u, subs, bucks, slots, Q2, B2
<1>14. Merge(t, quad) = u
  BY <1>9, <1>10, <1>11, <1>12, <1>13
<1> QED BY <1>14 DEF t, u, merged, Q2, B2

SpreadSlots(b, slot, pos) ==
    [k \in Key |-> IF slot[k] = b THEN find_node_for_position(b, pos[k]) ELSE slot[k]]

(* A key of the bucket gets a child that owns its position. *)
LEMMA SpreadFacts ==
  ASSUME NEW Q, NEW B, Shape(Q, B), NEW slot, NEW pos, Settled(B, slot, pos),
         NEW b \in B, Large(b)
  PROVE  /\ \A k \in Key : SpreadSlots(b, slot, pos)[k]
                             = IF slot[k] = b THEN find_node_for_position(b, pos[k]) ELSE slot[k]
         /\ \A k \in Key : slot[k] = b =>
               /\ find_node_for_position(b, pos[k]) \in Children(b)
               /\ position_is_in_rect(pos[k], find_node_for_position(b, pos[k]))
         /\ Settled((B \ {b}) \cup Children(b), SpreadSlots(b, slot, pos), pos)
<1> DEFINE spread == SpreadSlots(b, slot, pos)
           B2 == (B \ {b}) \cup Children(b)
<1>1. \A k \in Key : spread[k] = IF slot[k] = b THEN find_node_for_position(b, pos[k]) ELSE slot[k]
  BY DEF SpreadSlots
<1>2. IsNode(b) /\ b # NoBucket
  BY NotANode DEF Shape
<1>3. ASSUME NEW k \in Key, slot[k] = b
      PROVE  /\ find_node_for_position(b, pos[k]) \in Children(b)
             /\ position_is_in_rect(pos[k], find_node_for_position(b, pos[k]))
  <2>1. pos[k] \in Point /\ position_is_in_rect(pos[k], b)
    BY <1>2, <1>3 DEF Settled
  <2> QED BY <1>2, <2>1, ChildOfPosition
<1>4. spread \in [Key -> B2 \cup {NoBucket}]
  <2>1. spread = [k \in Key |-> spread[k]]
    BY DEF SpreadSlots
  <2>2. slot \in [Key -> B \cup {NoBucket}]
    BY DEF Settled
  <2> HIDE DEF spread
  <2>3. \A k \in Key : spread[k] \in B2 \cup {NoBucket}
    BY <1>1, <1>3, <2>2
  <2> QED BY <2>1, <2>3
<1>5. \A k \in Key : spread[k] # NoBucket =>
         pos[k] \in Position /\ position_is_in_rect(pos[k], spread[k])
  <2> HIDE DEF spread
  <2> QED BY <1>1, <1>2, <1>3 DEF Settled
<1>6. Settled(B2, spread, pos)
  <2> HIDE DEF spread, B2
  <2> QED BY <1>4, <1>5 DEF Settled
<1> QED BY <1>1, <1>3, <1>6

(* No bucket is in another one. *)
LEMMA BucketsApart ==
  ASSUME NEW Q, NEW B, Shape(Q, B), NEW b \in B, NEW n \in B, In(n, b)
  PROVE  n = b
<1>1. IsNode(n) /\ IsNode(b) /\ n \notin Q /\ b \notin Q /\ Nested(Q, n, b)
  BY DEF Shape
<1>2. ~Apart(n, b)
  BY <1>1, Nesting
<1> QED BY <1>1, <1>2 DEF Nested

(* The quads above a bucket are above the children it gets. *)
LEMMA AboveChild ==
  ASSUME NEW Q, NEW B, Shape(Q, B), NEW b \in B, Large(b), NEW c \in Children(b), NEW q \in Q
  PROVE  In(c, q) <=> In(b, q)
<1>1. IsNode(q) /\ Large(q) /\ q # b /\ IsNode(b) /\ IsNode(c) /\ In(c, b)
  BY ChildFacts DEF Shape
<1>2. In(b, q) => In(c, q)
  BY <1>1, Nesting
<1>3. Shape(Q \cup {b}, (B \ {b}) \cup Children(b))
  BY SplitShape
<1>4. In(c, q) => Under(b, q)
  <2> DEFINE Q2 == Q \cup {b}
             B2 == (B \ {b}) \cup Children(b)
  <2>1. b \in Q2 /\ q \in Q2 /\ Children(b) \subseteq B2 /\ Shape(Q2, B2)
    BY <1>3
  <2> HIDE DEF Q2, B2
  <2> QED BY <1>1, <2>1, LastQuad
<1> QED BY <1>1, <1>2, <1>4, UnderFacts

(* A split hands each key to the child that owns its position, and counts  *)
(* all of them in the new quad.                                            *)
LEMMA SplitIs ==
  ASSUME NEW Q, NEW B, Shape(Q, B), NEW slot, NEW pos, Settled(B, slot, pos),
         NEW b \in B, Large(b)
  PROVE  Split(TreeOf(Q, B, slot, pos, NoBucket), b)
           = TreeOf(Q \cup {b}, (B \ {b}) \cup Children(b), SpreadSlots(b, slot, pos), pos, NoBucket)
<1> DEFINE t == TreeOf(Q, B, slot, pos, NoBucket)
           Q2 == Q \cup {b}
           B2 == (B \ {b}) \cup Children(b)
           spread == SpreadSlots(b, slot, pos)
           u == TreeOf(Q2, B2, spread, pos, NoBucket)
<1>1. /\ t.quads = Q /\ t.slot = slot /\ DOMAIN t.buckets = B
      /\ \A n \in B : t.buckets[n] = Filled(slot, pos, n)
      /\ \A q \in Q : t.sub_slots[q] = Cardinality(KeysBelow(slot, q)) + Surplus(NoBucket, q)
  BY DEF TreeOf
<1>2. \A k \in Key : /\ spread[k] = IF slot[k] = b THEN find_node_for_position(b, pos[k]) ELSE slot[k]
                     /\ slot[k] = b => spread[k] \in Children(b)
  <2>1. \A k \in Key : spread[k] = IF slot[k] = b THEN find_node_for_position(b, pos[k]) ELSE slot[k]
    BY DEF SpreadSlots
  <2>2. \A k \in Key : slot[k] = b => find_node_for_position(b, pos[k]) \in Children(b)
    BY SpreadFacts, ZenonT(60)
  <2> HIDE DEF spread
  <2> QED BY <2>1, <2>2
<1>3. ASSUME NEW k \in Key, slot[k] = b
      PROVE  SlotOf(t, k) = Slot(k, pos[k])
  BY <1>3, SlotOfIs
<1>4. /\ slot \in [Key -> B \cup {NoBucket}] /\ IsNode(b) /\ b \notin Q
      /\ \A n \in B : n # NoBucket /\ IsNode(n)
  BY NotANode DEF Settled, Shape
<1>5. \A c \in Children(b) : IsNode(c) /\ In(c, b) /\ c # NoBucket /\ c \notin Q \cup B
  BY <1>4, ChildFacts, NewChildren, NotANode
<1> HIDE DEF t, spread
<1>6. \A q : Surplus(NoBucket, q) = 0
  BY DEF Surplus
<1>7. ASSUME NEW q \in Q
      PROVE  KeysBelow(spread, q) = KeysBelow(slot, q)
  <2>1. \A c \in Children(b) : In(c, q) <=> In(b, q)
    BY AboveChild
  <2> QED BY <1>2, <1>4, <1>5, <2>1 DEF KeysBelow
<1>8. KeysBelow(spread, b) = KeysAt(slot, b)
  <2>1. \A n \in B : In(n, b) => n = b
    BY BucketsApart
  <2> QED BY <1>2, <1>4, <1>5, <2>1 DEF KeysBelow, KeysAt
<1>9. ASSUME NEW n \in B \ {b}
       PROVE  Filled(spread, pos, n) = Filled(slot, pos, n)
  <2>1. n \notin Children(b)
    BY <1>5
  <2>2. \A k \in Key : spread[k] = n <=> slot[k] = n
    BY <1>2, <2>1
  <2>3. KeysAt(spread, n) = KeysAt(slot, n)
    BY <2>2 DEF KeysAt
  <2> QED BY <2>3 DEF Filled
<1> DEFINE Owned(c) == {s \in t.buckets[b].slots : find_node_for_position(b, s.position) = c}
<1>10. ASSUME NEW c \in Children(b)
       PROVE  Bucket(Owned(c)) = Filled(spread, pos, c)
  <2> DEFINE K == KeysAt(spread, c)
  <2>1. \A k : k \in K <=> k \in KeysAt(slot, b) /\ find_node_for_position(b, pos[k]) = c
    <3>1. \A k \in Key : slot[k] # c
      BY <1>4, <1>5
    <3>2. \A k \in Key : spread[k] = c <=> slot[k] = b /\ find_node_for_position(b, pos[k]) = c
      BY <1>2, <3>1
    <3> QED BY <3>2 DEF KeysAt
  <2>2. t.buckets[b].slots = {Slot(k, pos[k]) : k \in KeysAt(slot, b)}
    <3>1. Filled(slot, pos, b).slots = {Slot(k, pos[k]) : k \in KeysAt(slot, b)}
      BY DEF Filled
    <3> QED BY <1>1, <3>1
  <2>3. Owned(c) = {Slot(k, pos[k]) : k \in K}
    <3>1. \A k : Slot(k, pos[k]).position = pos[k]
      BY SlotFacts
    <3> HIDE DEF K
    <3> QED BY <2>1, <2>2, <3>1
  <2>4. K \in SUBSET Key
    BY DEF KeysAt
  <2> DEFINE O == Owned(c)
  <2>5. Cardinality(O) = Cardinality(K)
    <3> HIDE DEF K, O
    <3>1. O = {Slot(k, pos[k]) : k \in K}
      BY <2>3 DEF O
    <3> QED BY <2>4, <3>1, SlotsOfKeys
  <2>6. Filled(spread, pos, c) = [slots |-> {Slot(k, pos[k]) : k \in K}, busy_slots |-> Cardinality(K)]
    BY DEF Filled
  <2>7. Bucket(O) = [slots |-> O, busy_slots |-> Cardinality(O)]
    BY DEF Bucket
  <2> HIDE DEF O, K
  <2> QED BY <2>3, <2>5, <2>6, <2>7 DEF O
<1> DEFINE subs == [q \in Q2 |-> IF q = b THEN t.buckets[b].busy_slots ELSE t.sub_slots[q]]
           bucks == [n \in B2 |-> IF n \in Children(b) THEN Bucket(Owned(n)) ELSE t.buckets[n]]
           slots == [k \in Key |-> IF slot[k] = b
                                   THEN find_node_for_position(b, SlotOf(t, k).position)
                                   ELSE slot[k]]
<1>11. Split(t, b) = [quads |-> Q2, sub_slots |-> subs, buckets |-> bucks, slot |-> slots]
  BY <1>1 DEF Split
<1> HIDE DEF Owned
<1>12. subs = [q \in Q2 |-> Cardinality(KeysBelow(spread, q)) + Surplus(NoBucket, q)]
  <2>1. t.buckets[b].busy_slots = Cardinality(KeysAt(slot, b))
    <3>1. Filled(slot, pos, b).busy_slots = Cardinality(KeysAt(slot, b))
      BY DEF Filled
    <3> QED BY <1>1, <3>1
  <2>2. \A q \in Q2 : Cardinality(KeysBelow(spread, q)) \in Nat
    BY KeysFinite
  <2>3. ASSUME NEW q \in Q2
        PROVE  (IF q = b THEN t.buckets[b].busy_slots ELSE t.sub_slots[q])
                 = Cardinality(KeysBelow(spread, q)) + Surplus(NoBucket, q)
    <3>1. CASE q = b
      BY <1>6, <1>8, <2>1, <2>2, <3>1
    <3>2. CASE q # b
      BY <1>1, <1>7, <3>2
    <3> QED BY <3>1, <3>2
  <2> QED BY <2>3
<1>13. bucks = [n \in B2 |-> Filled(spread, pos, n)]
  BY <1>1, <1>9, <1>10
<1>14. slots = spread
  <2>1. \A k \in Key : Slot(k, pos[k]).position = pos[k]
    BY SlotFacts
  <2>2. \A k \in Key : slots[k] = spread[k]
    BY <1>2, <1>3, <2>1
  <2>3. spread = [k \in Key |-> spread[k]]
    BY DEF spread, SpreadSlots
  <2>4. slots = [k \in Key |-> slots[k]]
    OBVIOUS
  <2> HIDE DEF slots
  <2> QED BY <2>2, <2>3, <2>4
<1>15. u = [quads |-> Q2, sub_slots |-> [q \in Q2 |-> Cardinality(KeysBelow(spread, q)) + Surplus(NoBucket, q)],
            buckets |-> [n \in B2 |-> Filled(spread, pos, n)], slot |-> spread]
  BY DEF TreeOf
<1> HIDE DEF u, subs, bucks, slots, Q2, B2
<1>16. Split(t, b) = u
  BY <1>11, <1>12, <1>13, <1>14, <1>15
<1> QED BY <1>16 DEF t, u, spread, Q2, B2

(* An addition counts the key in its bucket and in every quad above. *)
LEMMA AddIs ==
  ASSUME NEW Q, NEW B, Shape(Q, B), NEW slot, NEW pos, Settled(B, slot, pos),
         NEW b \in B, NEW k \in Key, slot[k] = NoBucket, NEW p
  PROVE  add_slot_to_bucket(TreeOf(Q, B, slot, pos, NoBucket), b, Slot(k, p))
           = TreeOf(Q, B, [slot EXCEPT ![k] = b], [pos EXCEPT ![k] = p], NoBucket)
<1> DEFINE t == TreeOf(Q, B, slot, pos, NoBucket)
           added == [slot EXCEPT ![k] = b]
           pos2 == [pos EXCEPT ![k] = p]
           u == TreeOf(Q, B, added, pos2, NoBucket)
           s == Slot(k, p)
<1>1. slot \in [Key -> B \cup {NoBucket}] /\ pos \in [Key -> Point]
      /\ \A n \in B : n # NoBucket
  BY NotANode DEF Settled, Shape
<1>2. /\ \A j \in Key : added[j] = IF j = k THEN b ELSE slot[j]
      /\ \A j \in Key : slot[j] = IF j = k THEN NoBucket ELSE added[j]
      /\ \A j \in Key : pos2[j] = IF j = k THEN p ELSE pos[j]
  BY <1>1
<1>3. /\ t.quads = Q /\ t.slot = slot
      /\ t.buckets = [n \in B |-> Filled(slot, pos, n)]
      /\ t.sub_slots = [q \in Q |-> Cardinality(KeysBelow(slot, q)) + Surplus(NoBucket, q)]
      /\ t = [quads |-> Q, sub_slots |-> t.sub_slots, buckets |-> t.buckets, slot |-> slot]
  BY DEF TreeOf
<1>4. s.key = k
  BY SlotFacts
<1>5. \A q \in Q : q # NoBucket
  BY NotANode DEF Shape
<1> DEFINE F == [slots |-> Filled(slot, pos, b).slots \cup {s},
                 busy_slots |-> Filled(slot, pos, b).busy_slots + 1]
           counts(q) == IF q \in Ancestors(t, b) THEN t.sub_slots[q] + 1 ELSE t.sub_slots[q]
           subs == [q \in Q |-> counts(q)]
<1>6. F = Filled(added, pos2, b)
  <2>1. /\ KeysAt(slot, b) = KeysAt(added, b) \ {k}
        /\ Cardinality(KeysAt(added, b)) = Cardinality(KeysAt(slot, b)) + 1
    <3>1. added[k] = b /\ b # NoBucket
      BY <1>1, <1>2
    <3> HIDE DEF added
    <3> QED BY <1>2, <3>1, LeaveCounts
  <2>2. k \in KeysAt(added, b)
    <3> HIDE DEF added
    <3> QED BY <1>2 DEF KeysAt
  <2> DEFINE K1 == KeysAt(slot, b)
             K2 == KeysAt(added, b)
  <2>3. K2 = K1 \cup {k} /\ k \notin K1 /\ K1 \subseteq Key
    BY <2>1, <2>2 DEF KeysAt
  <2>4. /\ Filled(slot, pos, b).slots = {Slot(j, pos[j]) : j \in K1}
        /\ Filled(slot, pos, b).busy_slots = Cardinality(K1)
        /\ Filled(added, pos2, b) = [slots |-> {Slot(j, pos2[j]) : j \in K2}, busy_slots |-> Cardinality(K2)]
    BY DEF Filled
  <2>5. {Slot(j, pos[j]) : j \in K1} \cup {s} = {Slot(j, pos2[j]) : j \in K2}
    <3> HIDE DEF K1, K2, pos2
    <3>1. pos2[k] = p /\ \A j \in K1 : pos2[j] = pos[j]
      BY <1>2, <2>3
    <3> QED BY <2>3, <3>1
  <2> HIDE DEF K1, K2, added, pos2, s
  <2> QED BY <2>1, <2>4, <2>5 DEF K1, K2
<1>7. [t.buckets EXCEPT ![b] = F] = [n \in B |-> Filled(added, pos2, n)]
  <2>1. ASSUME NEW n \in B, n # b
        PROVE  Filled(added, pos2, n) = Filled(slot, pos, n)
    <3> HIDE DEF added, pos2
    <3>1. KeysAt(added, n) = KeysAt(slot, n) /\ k \notin KeysAt(slot, n)
      BY <1>1, <1>2, <2>1 DEF KeysAt
    <3>2. {Slot(j, pos2[j]) : j \in KeysAt(slot, n)} = {Slot(j, pos[j]) : j \in KeysAt(slot, n)}
      BY <1>2, <3>1 DEF KeysAt
    <3> QED BY <3>1, <3>2 DEF Filled
  <2> HIDE DEF added, pos2, F, t
  <2> QED BY <1>3, <1>6, <2>1
<1>8. Ancestors(t, b) = {q \in Q : In(b, q)}
  <2> HIDE DEF t
  <2> QED BY <1>3, AncestorsAre
<1>9. subs = [q \in Q |-> Cardinality(KeysBelow(added, q)) + Surplus(NoBucket, q)]
  <2> HIDE DEF t, added
  <2>1. ASSUME NEW q \in Q
        PROVE  counts(q) = Cardinality(KeysBelow(added, q)) + Surplus(NoBucket, q)
    <3>1. Cardinality(KeysBelow(added, q)) = Cardinality(KeysBelow(slot, q)) + Surplus(b, q)
      <4>1. added[k] = b /\ b # NoBucket /\ q # NoBucket
        BY <1>1, <1>2, <1>5
      <4> QED BY <1>2, <4>1, LeaveCounts
    <3>2. Surplus(NoBucket, q) = 0 /\ Surplus(b, q) = IF In(b, q) THEN 1 ELSE 0
      BY <1>1 DEF Surplus
    <3>3. Cardinality(KeysBelow(slot, q)) \in Nat
      BY KeysFinite
    <3>4. t.sub_slots[q] = Cardinality(KeysBelow(slot, q)) + Surplus(NoBucket, q)
      BY <1>3
    <3> QED BY <1>8, <3>1, <3>2, <3>3, <3>4
  <2> HIDE DEF counts
  <2> QED BY <2>1
<1>10. add_slot_to_bucket(t, b, s) = [quads |-> Q, sub_slots |-> subs,
                                     buckets |-> [t.buckets EXCEPT ![b] = F], slot |-> added]
  <2>1. t.buckets[b] = Filled(slot, pos, b)
    BY <1>3
  <2>2. subs = [q \in t.quads |-> IF q \in Ancestors(t, b) THEN t.sub_slots[q] + 1 ELSE t.sub_slots[q]]
    BY <1>3
  <2> DEFINE tsubs == t.sub_slots
             bucks == t.buckets
             anc == Ancestors(t, b)
  <2> HIDE DEF subs, s, t, bucks, tsubs, anc
  <2>3. t = [quads |-> Q, sub_slots |-> tsubs, buckets |-> bucks, slot |-> slot]
    BY <1>3 DEF bucks, tsubs
  <2>4. bucks[b] = Filled(slot, pos, b)
    BY <2>1 DEF bucks
  <2>5. subs = [q \in Q |-> IF q \in anc THEN tsubs[q] + 1 ELSE tsubs[q]]
    BY <1>3, <2>2 DEF tsubs, anc
  <2>6. add_slot_to_bucket(t, b, s)
          = [t EXCEPT !.buckets[b] = [slots |-> @.slots \cup {s}, busy_slots |-> @.busy_slots + 1],
                      !.sub_slots = [q \in Q |-> IF q \in anc THEN @[q] + 1 ELSE @[q]],
                      !.slot[k] = b]
    BY <1>3, <1>4 DEF add_slot_to_bucket, anc
  <2>7. add_slot_to_bucket(t, b, s) = [t EXCEPT !.buckets[b] = F, !.sub_slots = subs, !.slot[k] = b]
    <3>1. [slots |-> t.buckets[b].slots \cup {s}, busy_slots |-> t.buckets[b].busy_slots + 1] = F
      BY <2>1
    <3>2. [q \in Q |-> IF q \in anc THEN t.sub_slots[q] + 1 ELSE t.sub_slots[q]] = subs
      BY <2>5 DEF tsubs
    <3> HIDE DEF F
    <3> QED BY <2>6, <3>1, <3>2, Zenon
  <2>8. add_slot_to_bucket(t, b, s) = [quads |-> Q, sub_slots |-> subs,
                                       buckets |-> [bucks EXCEPT ![b] = F], slot |-> added]
    <3> HIDE DEF F
    <3> QED BY <2>3, <2>7
  <2> QED BY <2>8 DEF bucks
<1>11. u = [quads |-> Q, sub_slots |-> [q \in Q |-> Cardinality(KeysBelow(added, q)) + Surplus(NoBucket, q)],
            buckets |-> [n \in B |-> Filled(added, pos2, n)], slot |-> added]
  BY DEF TreeOf
<1> HIDE DEF u, t, added, pos2, subs, F, s
<1>12. add_slot_to_bucket(t, b, s) = u
  BY <1>7, <1>9, <1>10, <1>11
<1> QED BY <1>12 DEF t, u, s, added, pos2
-----------------------------------------------------------------------------
(* How full a bucket may be *)

AncestorsOf(Q, b) == {q \in Q : In(b, q)}

Room(Q, b) == BucketSize + Cardinality(AncestorsOf(Q, b)) - 1

Bounded(Q, B, slot) ==
    \A b \in B : Large(b) => Cardinality(KeysAt(slot, b)) <= Room(Q, b)

Legal(Q, B, slot, pos) ==
    Shape(Q, B) /\ Settled(B, slot, pos) /\ Bounded(Q, B, slot)

(* The root is above every bucket. *)
LEMMA RoomFacts ==
  ASSUME NEW Q, NEW B, Shape(Q, B), NEW b \in B
  PROVE  Room(Q, b) \in Nat /\ Room(Q, b) >= BucketSize /\ BucketSize \in Nat
<1> DEFINE A == AncestorsOf(Q, b)
<1>1. qbounds \in A /\ A \subseteq Q /\ IsFiniteSet(Q)
  BY DEF AncestorsOf, Shape
<1> HIDE DEF A
<1>2. IsFiniteSet(A) /\ Cardinality(A) \in Nat
  BY <1>1, FS_Subset, FS_CardinalityType
<1>3. Cardinality(A) # 0
  BY <1>1, <1>2, FS_EmptySet
<1>4. BucketSize \in Nat
  BY TreeAssumption
<1>5. BucketSize + Cardinality(A) - 1 \in Nat /\ BucketSize + Cardinality(A) - 1 >= BucketSize
  BY <1>2, <1>3, <1>4
<1> QED BY <1>4, <1>5 DEF A, Room

(* A bucket with fewer keys has a lower counter. *)
LEMMA FewerKeys ==
  ASSUME NEW slot, NEW b, NEW left, NEW c, KeysAt(left, c) \subseteq KeysAt(slot, b)
  PROVE  Cardinality(KeysAt(left, c)) <= Cardinality(KeysAt(slot, b))
<1>1. IsFiniteSet(KeysAt(slot, b))
  BY KeysFinite
<1> QED BY <1>1, FS_Subset

(* A removal leaves buckets as full as they were, or less. *)
LEMMA TakeLegal ==
  ASSUME NEW Q, NEW B, NEW slot, NEW pos, Legal(Q, B, slot, pos), NEW k \in Key
  PROVE  Legal(Q, B, [slot EXCEPT ![k] = NoBucket], pos)
<1> DEFINE left == [slot EXCEPT ![k] = NoBucket]
<1>1. Shape(Q, B) /\ slot \in [Key -> B \cup {NoBucket}] /\ \A b \in B : b # NoBucket
  BY NotANode DEF Legal, Settled, Shape
<1>2. left \in [Key -> B \cup {NoBucket}]
      /\ \A j \in Key : left[j] = IF j = k THEN NoBucket ELSE slot[j]
  BY <1>1
<1> HIDE DEF left
<1>3. Settled(B, left, pos)
  BY <1>2 DEF Legal, Settled
<1>4. ASSUME NEW b \in B, Large(b) PROVE Cardinality(KeysAt(left, b)) <= Room(Q, b)
  <2>1. KeysAt(left, b) \subseteq KeysAt(slot, b)
    BY <1>1, <1>2 DEF KeysAt
  <2>2. Cardinality(KeysAt(left, b)) <= Cardinality(KeysAt(slot, b))
    BY <2>1, FewerKeys
  <2>3. Cardinality(KeysAt(slot, b)) <= Room(Q, b)
    BY <1>4 DEF Legal, Bounded
  <2>4. /\ Cardinality(KeysAt(left, b)) \in Nat /\ Cardinality(KeysAt(slot, b)) \in Nat
        /\ Room(Q, b) \in Nat
    BY <1>1, KeysFinite, RoomFacts
  <2> QED BY <2>2, <2>3, <2>4
<1>5. Legal(Q, B, left, pos)
  BY <1>1, <1>3, <1>4 DEF Legal, Bounded
<1> QED BY <1>5 DEF left

(* A bucket with room stays within its bound when it gets a key. *)
LEMMA AddLegal ==
  ASSUME NEW Q, NEW B, NEW slot, NEW pos, Legal(Q, B, slot, pos),
         NEW k \in Key, slot[k] = NoBucket, NEW p \in Position,
         NEW b \in B, position_is_in_rect(p, b),
         Large(b) => Cardinality(KeysAt(slot, b)) < Room(Q, b)
  PROVE  Legal(Q, B, [slot EXCEPT ![k] = b], [pos EXCEPT ![k] = p])
<1> DEFINE added == [slot EXCEPT ![k] = b]
           pos2 == [pos EXCEPT ![k] = p]
<1>1. /\ Shape(Q, B) /\ slot \in [Key -> B \cup {NoBucket}] /\ pos \in [Key -> Point]
      /\ \A n \in B : n # NoBucket
  BY NotANode DEF Legal, Settled, Shape
<1>2. p \in Point
  BY TreeAssumption DEF Point
<1>3. /\ added \in [Key -> B \cup {NoBucket}] /\ pos2 \in [Key -> Point]
      /\ \A j \in Key : added[j] = IF j = k THEN b ELSE slot[j]
      /\ \A j \in Key : slot[j] = IF j = k THEN NoBucket ELSE added[j]
      /\ \A j \in Key : pos2[j] = IF j = k THEN p ELSE pos[j]
  BY <1>1, <1>2
<1> HIDE DEF added, pos2
<1>4. Settled(B, added, pos2)
  BY <1>1, <1>3 DEF Legal, Settled
<1>5. ASSUME NEW n \in B, Large(n) PROVE Cardinality(KeysAt(added, n)) <= Room(Q, n)
  <2>1. added[k] = b /\ b # NoBucket /\ n # NoBucket
    BY <1>1, <1>3
  <2>2. Cardinality(KeysAt(added, n)) = Cardinality(KeysAt(slot, n)) + (IF b = n THEN 1 ELSE 0)
    BY <1>3, <2>1, LeaveCounts
  <2>3. Cardinality(KeysAt(slot, n)) \in Nat /\ Room(Q, n) \in Nat
    BY <1>1, KeysFinite, RoomFacts
  <2>4. CASE b = n
    BY <1>5, <2>2, <2>3, <2>4
  <2>5. CASE b # n
    <3>1. Cardinality(KeysAt(slot, n)) <= Room(Q, n)
      BY <1>5 DEF Legal, Bounded
    <3> QED BY <2>2, <2>3, <2>5, <3>1
  <2> QED BY <2>4, <2>5
<1>6. Legal(Q, B, added, pos2)
  BY <1>1, <1>4, <1>5 DEF Legal, Bounded
<1> QED BY <1>6 DEF added, pos2

(* Merged buckets fit into one, and other buckets keep the quads above     *)
(* them.                                                                   *)
LEMMA MergeLegal ==
  ASSUME NEW Q, NEW B, NEW slot, NEW pos, Legal(Q, B, slot, pos),
         NEW quad \in Q \ {qbounds}, Children(quad) \subseteq B,
         Cardinality(KeysAt(MergedSlots(quad, slot), quad)) <= BucketSize
  PROVE  Legal(Q \ {quad}, (B \ Children(quad)) \cup {quad}, MergedSlots(quad, slot), pos)
<1> DEFINE Q2 == Q \ {quad}
           B2 == (B \ Children(quad)) \cup {quad}
           merged == MergedSlots(quad, slot)
<1>1. /\ Shape(Q, B) /\ slot \in [Key -> B \cup {NoBucket}]
      /\ IsNode(quad) /\ Large(quad) /\ quad \notin B
      /\ \A n \in B : n # NoBucket /\ IsNode(n)
  BY NotANode DEF Legal, Settled, Shape
<1>2. /\ \A k \in Key : merged[k] = IF slot[k] \in Children(quad) THEN quad ELSE slot[k]
      /\ merged = [k \in Key |-> merged[k]]
  BY DEF MergedSlots
<1>3. Shape(Q2, B2)
  BY <1>1, MergeShape
<1> HIDE DEF merged
<1>4. merged \in [Key -> B2 \cup {NoBucket}]
  BY <1>1, <1>2
<1>5. ASSUME NEW k \in Key, merged[k] # NoBucket
      PROVE  pos[k] \in Position /\ position_is_in_rect(pos[k], merged[k])
  <2>1. slot[k] # NoBucket
    BY <1>1, <1>2, <1>5
  <2>2. pos[k] \in Point /\ pos[k] \in Position /\ position_is_in_rect(pos[k], slot[k])
    BY <2>1 DEF Legal, Settled
  <2>3. CASE slot[k] \in Children(quad)
    <3>1. IsNode(slot[k]) /\ In(slot[k], quad)
      BY <1>1, <2>3, ChildFacts
    <3>2. position_is_in_rect(pos[k], quad)
      BY <1>1, <2>2, <3>1, Positions
    <3> QED BY <1>2, <2>2, <2>3, <3>2
  <2> QED BY <1>2, <2>2, <2>3
<1>6. Settled(B2, merged, pos)
  BY <1>4, <1>5 DEF Legal, Settled
<1>7. ASSUME NEW b \in B2, Large(b) PROVE Cardinality(KeysAt(merged, b)) <= Room(Q2, b)
  <2>1. Room(Q2, b) \in Nat /\ Room(Q2, b) >= BucketSize /\ BucketSize \in Nat
    BY <1>3, RoomFacts
  <2>2. Cardinality(KeysAt(merged, b)) \in Nat
    BY KeysFinite
  <2>3. CASE b = quad
    <3>1. Cardinality(KeysAt(merged, b)) <= BucketSize
      BY <2>3 DEF merged
    <3> QED BY <2>1, <2>2, <3>1
  <2>4. CASE b \in B \ Children(quad)
    <3>1. KeysAt(merged, b) = KeysAt(slot, b)
      BY <1>1, <1>2, <2>4 DEF KeysAt
    <3>2. ~In(b, quad)
      <4>1. ASSUME In(b, quad) PROVE FALSE
        <5>1. ~Apart(b, quad)
          BY <1>1, <2>4, <4>1, Nesting
        <5>2. Under(b, quad)
          BY <1>1, <2>4, <5>1, BucketUnder
        <5>3. PICK c \in Children(quad) : In(b, c)
          BY <5>2 DEF Under
        <5>4. ~Apart(b, c) /\ b # c
          BY <1>1, <2>4, <5>3, Nesting
        <5>5. Nested(Q, b, c) /\ b \notin Q /\ c \notin Q
          BY <2>4 DEF Legal, Shape
        <5> QED BY <5>4, <5>5 DEF Nested
      <4> QED BY <4>1
    <3>3. AncestorsOf(Q2, b) = AncestorsOf(Q, b)
      BY <3>2 DEF AncestorsOf
    <3>4. Cardinality(KeysAt(slot, b)) <= Room(Q, b)
      BY <1>7, <2>4 DEF Legal, Bounded
    <3> QED BY <3>1, <3>3, <3>4 DEF Room
  <2> QED BY <2>3, <2>4
<1> HIDE DEF Q2, B2
<1>8. Legal(Q2, B2, merged, pos)
  BY <1>3, <1>6, <1>7 DEF Legal, Bounded
<1> QED BY <1>8 DEF Q2, B2, merged

(* A child of a bucket that was split has room for one more key, since it  *)
(* has one more quad above it.                                             *)
LEMMA SplitLegal ==
  ASSUME NEW Q, NEW B, NEW slot, NEW pos, Legal(Q, B, slot, pos), NEW b \in B, Large(b)
  PROVE  /\ Legal(Q \cup {b}, (B \ {b}) \cup Children(b), SpreadSlots(b, slot, pos), pos)
         /\ \A c \in Children(b) :
               Cardinality(KeysAt(SpreadSlots(b, slot, pos), c)) < Room(Q \cup {b}, c)
<1> DEFINE Q2 == Q \cup {b}
           B2 == (B \ {b}) \cup Children(b)
           spread == SpreadSlots(b, slot, pos)
<1>1. Shape(Q, B) /\ Settled(B, slot, pos) /\ Bounded(Q, B, slot) /\ b \notin Q /\ IsNode(b)
  BY DEF Legal, Shape
<1>2. Shape(Q2, B2)
  BY <1>1, SplitShape
<1>3. Settled(B2, spread, pos)
  BY <1>1, SpreadFacts
<1>4. \A k \in Key : spread[k] = IF slot[k] = b THEN find_node_for_position(b, pos[k]) ELSE slot[k]
  BY DEF SpreadSlots
<1>5. \A k \in Key : slot[k] = b => find_node_for_position(b, pos[k]) \in Children(b)
  BY <1>1, SpreadFacts, ZenonT(60)
<1>6. \A c \in Children(b) : c \notin Q \cup B /\ c # NoBucket /\ In(c, b)
  BY <1>1, NewChildren, ChildFacts, NotANode
<1> HIDE DEF spread
<1>7. ASSUME NEW c \in Children(b)
      PROVE  Cardinality(KeysAt(spread, c)) < Room(Q2, c)
  <2>1. KeysAt(spread, c) \subseteq KeysAt(slot, b)
    <3>1. \A k \in Key : slot[k] # c
      BY <1>1, <1>6 DEF Settled
    <3> QED BY <1>4, <3>1 DEF KeysAt
  <2>2. Cardinality(KeysAt(spread, c)) <= Cardinality(KeysAt(slot, b))
    BY <2>1, FewerKeys
  <2>3. Cardinality(KeysAt(slot, b)) <= Room(Q, b)
    BY <1>1 DEF Bounded
  <2>4. AncestorsOf(Q2, c) = AncestorsOf(Q, b) \cup {b} /\ b \notin AncestorsOf(Q, b)
    <3>1. \A q \in Q : In(c, q) <=> In(b, q)
      BY <1>1, AboveChild
    <3> QED BY <1>1, <1>6, <3>1 DEF AncestorsOf
  <2>5. Room(Q2, c) = Room(Q, b) + 1
    <3> DEFINE A == AncestorsOf(Q, b)
    <3>1. IsFiniteSet(A) /\ Cardinality(A) \in Nat /\ BucketSize \in Nat
      <4>1. A \subseteq Q /\ IsFiniteSet(Q)
        BY <1>1 DEF AncestorsOf, Shape
      <4> HIDE DEF A
      <4> QED BY <4>1, FS_Subset, FS_CardinalityType, TreeAssumption
    <3>2. Cardinality(A \cup {b}) = Cardinality(A) + 1
      <4> HIDE DEF A
      <4>1. b \notin A
        BY <2>4 DEF A
      <4> QED BY <3>1, <4>1, FS_AddElement
    <3>3. Room(Q2, c) = BucketSize + (Cardinality(A) + 1) - 1
      BY <2>4, <3>2 DEF Room
    <3>4. Room(Q, b) = BucketSize + Cardinality(A) - 1
      BY DEF Room
    <3> HIDE DEF A
    <3> QED BY <3>1, <3>3, <3>4
  <2>6. /\ Cardinality(KeysAt(spread, c)) \in Nat /\ Cardinality(KeysAt(slot, b)) \in Nat
        /\ Room(Q, b) \in Nat
    BY <1>1, KeysFinite, RoomFacts
  <2> QED BY <2>2, <2>3, <2>5, <2>6
<1>8. ASSUME NEW n \in B2, Large(n) PROVE Cardinality(KeysAt(spread, n)) <= Room(Q2, n)
  <2>1. CASE n \in Children(b)
    <3>1. Cardinality(KeysAt(spread, n)) < Room(Q2, n)
      BY <1>7, <2>1
    <3>2. Cardinality(KeysAt(spread, n)) \in Nat /\ Room(Q2, n) \in Nat
      BY <1>2, KeysFinite, RoomFacts
    <3> QED BY <3>1, <3>2
  <2>2. CASE n \in B \ {b}
    <3>1. n \notin Children(b)
      BY <1>6, <2>2
    <3>2. \A k \in Key : spread[k] = n <=> slot[k] = n
      BY <1>4, <1>5, <2>2, <3>1
    <3>3. KeysAt(spread, n) = KeysAt(slot, n)
      BY <3>2 DEF KeysAt
    <3>4. ~In(n, b)
      BY <1>1, <2>2, BucketsApart
    <3>5. AncestorsOf(Q2, n) = AncestorsOf(Q, n)
      BY <3>4 DEF AncestorsOf
    <3>6. Cardinality(KeysAt(slot, n)) <= Room(Q, n)
      BY <1>1, <1>8, <2>2 DEF Bounded
    <3> QED BY <3>3, <3>5, <3>6 DEF Room
  <2> QED BY <2>1, <2>2
<1>9. \A c \in Children(b) : Cardinality(KeysAt(spread, c)) < Room(Q2, c)
  BY <1>7
<1> HIDE DEF Q2, B2
<1>10. Legal(Q2, B2, spread, pos)
  BY <1>2, <1>3, <1>8 DEF Legal, Bounded
<1> QED BY <1>9, <1>10 DEF Q2, B2, spread

(* The children of a quad hold at most as many keys as their counters say. *)
LEMMA BusyBelowBounds ==
  ASSUME NEW Q, NEW B, Shape(Q, B), NEW slot, NEW pos, Settled(B, slot, pos), NEW x,
         NEW quad \in Q, Children(quad) \subseteq B
  PROVE  /\ BusyBelow(TreeOf(Q, B, slot, pos, x), quad) \in Nat
         /\ Cardinality(KeysAt(MergedSlots(quad, slot), quad))
              <= BusyBelow(TreeOf(Q, B, slot, pos, x), quad)
<1> DEFINE t == TreeOf(Q, B, slot, pos, x)
<1>1. IsNode(quad) /\ Large(quad) /\ quad \notin B /\ quad # NoBucket
  BY NotANode DEF Shape
<1>2. PICK c1, c2, c3, c4 : /\ get_qrects_from_qbounds(quad) = <<c1, c2, c3, c4>>
                            /\ Children(quad) = {c1, c2, c3, c4}
  BY <1>1, FourChildren
<1> DEFINE K(c) == KeysAt(slot, c)
           N(c) == Cardinality(K(c))
<1>3. t.buckets[c1].busy_slots = N(c1) /\ t.buckets[c2].busy_slots = N(c2)
      /\ t.buckets[c3].busy_slots = N(c3) /\ t.buckets[c4].busy_slots = N(c4)
  <2>1. \A c : Filled(slot, pos, c).busy_slots = N(c)
    BY DEF Filled
  <2>2. \A c \in B : t.buckets[c] = Filled(slot, pos, c)
    BY DEF TreeOf
  <2>3. c1 \in B /\ c2 \in B /\ c3 \in B /\ c4 \in B
    BY <1>2
  <2> HIDE DEF t, N
  <2> QED BY <2>1, <2>2, <2>3
<1>4. BusyBelow(t, quad) = N(c1) + N(c2) + N(c3) + N(c4)
  <2> HIDE DEF t, N
  <2> QED BY <1>2, <1>3 DEF BusyBelow
<1>5. KeysAt(MergedSlots(quad, slot), quad) = ((K(c1) \cup K(c2)) \cup K(c3)) \cup K(c4)
  <2>1. \A k \in Key : slot[k] # quad
    BY <1>1 DEF Settled
  <2> QED BY <1>2, <2>1 DEF KeysAt, MergedSlots
<1>6. \A c : IsFiniteSet(K(c)) /\ N(c) \in Nat
  BY KeysFinite
<1>7. \A S, T : IsFiniteSet(S) /\ IsFiniteSet(T) =>
         /\ IsFiniteSet(S \cup T) /\ Cardinality(S \cup T) \in Nat
         /\ Cardinality(S \cup T) <= Cardinality(S) + Cardinality(T)
  <2>1. ASSUME NEW S, NEW T, IsFiniteSet(S), IsFiniteSet(T)
        PROVE  /\ IsFiniteSet(S \cup T) /\ Cardinality(S \cup T) \in Nat
               /\ Cardinality(S \cup T) <= Cardinality(S) + Cardinality(T)
    <3>1. IsFiniteSet(S \cup T) /\ IsFiniteSet(S \cap T)
      BY <2>1, FS_Union, FS_Intersection
    <3>2. Cardinality(S \cup T) = Cardinality(S) + Cardinality(T) - Cardinality(S \cap T)
      BY <2>1, FS_Union
    <3>3. /\ Cardinality(S) \in Nat /\ Cardinality(T) \in Nat
          /\ Cardinality(S \cap T) \in Nat /\ Cardinality(S \cup T) \in Nat
      BY <2>1, <3>1, FS_CardinalityType
    <3> QED BY <3>1, <3>2, <3>3
  <2> QED BY <2>1
<1> HIDE DEF K
<1> DEFINE U2 == K(c1) \cup K(c2)
           U3 == U2 \cup K(c3)
           U4 == U3 \cup K(c4)
<1>8. IsFiniteSet(U2) /\ Cardinality(U2) \in Nat /\ Cardinality(U2) <= N(c1) + N(c2)
  BY <1>6, <1>7
<1> HIDE DEF U2
<1>9. IsFiniteSet(U3) /\ Cardinality(U3) \in Nat /\ Cardinality(U3) <= Cardinality(U2) + N(c3)
  BY <1>6, <1>7, <1>8
<1> HIDE DEF U3
<1>10. Cardinality(U4) \in Nat /\ Cardinality(U4) <= Cardinality(U3) + N(c4)
  BY <1>6, <1>7, <1>9
<1> HIDE DEF U4, N
<1>11. /\ Cardinality(U4) <= N(c1) + N(c2) + N(c3) + N(c4)
       /\ N(c1) + N(c2) + N(c3) + N(c4) \in Nat
  BY <1>6, <1>8, <1>9, <1>10
<1> QED BY <1>4, <1>5, <1>11 DEF U2, U3, U4
-----------------------------------------------------------------------------
(* The operations *)

Holds(t, Q, B, slot, pos) ==
    Legal(Q, B, slot, pos) /\ t = TreeOf(Q, B, slot, pos, NoBucket)

(* A key that is removed has no bucket, and no key gets one. *)
LEMMA Removed ==
  ASSUME NEW Q, NEW B, NEW slot, NEW pos, NEW t, Holds(t, Q, B, slot, pos),
         NEW k \in Key, slot[k] # NoBucket
  PROVE  \E Q2, B2, slot2 :
            /\ Holds(remove_entry_from_key_node(t, k), Q2, B2, slot2, pos)
            /\ \A j \in Key : slot2[j] # NoBucket => j # k /\ slot[j] # NoBucket
<1> DEFINE x == slot[k]
           left == [slot EXCEPT ![k] = NoBucket]
           taken == TreeOf(Q, B, left, pos, x)
<1>1. /\ Legal(Q, B, slot, pos) /\ Shape(Q, B) /\ Settled(B, slot, pos)
      /\ t = TreeOf(Q, B, slot, pos, NoBucket)
  BY DEF Holds, Legal
<1>2. slot \in [Key -> B \cup {NoBucket}] /\ x \in B
  BY <1>1 DEF Settled
<1>3. \A j \in Key : left[j] = IF j = k THEN NoBucket ELSE slot[j]
  BY <1>2
<1>4. Take(t, k) = taken
  BY <1>1, TakeIs
<1>5. Legal(Q, B, left, pos)
  BY <1>1, TakeLegal
<1>6. t.slot = slot
  BY <1>1 DEF TreeOf
<1>7. taken.quads = Q /\ DOMAIN taken.buckets = B
  BY DEF TreeOf
<1> HIDE DEF x, left
<1>8. CASE MayMerge(taken, x)
  <2> DEFINE quad == parent(taken, x)
             Q2 == Q \ {quad}
             B2 == (B \ Children(quad)) \cup {quad}
             merged == MergedSlots(quad, left)
  <2>1. quad \in Q /\ x \in Children(quad)
    <3>1. \E q \in Q : x \in Children(q)
      BY <1>1, <1>2 DEF Shape
    <3> HIDE DEF taken
    <3>2. \E q \in taken.quads : x \in Children(q)
      BY <1>7, <3>1
    <3> QED BY <1>7, <3>2 DEF parent
  <2>2. quad # qbounds /\ Children(quad) \subseteq B /\ BusyBelow(taken, quad) < MergeBelow
    <3> HIDE DEF taken
    <3> QED BY <1>7, <1>8 DEF MayMerge
  <2>3. remove_entry_from_key_node(t, k) = Uncount(Merge(taken, quad), quad)
    <3> HIDE DEF taken
    <3> QED BY <1>4, <1>6, <1>8 DEF remove_entry_from_key_node, x
  <2> HIDE DEF quad
  <2>4. Settled(B, left, pos)
    BY <1>5 DEF Legal
  <2>5. Merge(taken, quad) = TreeOf(Q2, B2, merged, pos, quad)
    BY <1>1, <2>1, <2>2, <2>4, MergeIs
  <2>6. Cardinality(KeysAt(merged, quad)) <= BucketSize
    <3>1. /\ BusyBelow(taken, quad) \in Nat
          /\ Cardinality(KeysAt(merged, quad)) <= BusyBelow(taken, quad)
      BY <1>1, <2>1, <2>2, <2>4, BusyBelowBounds
    <3>2. BucketSize \in Nat /\ MergeBelow \in 0 .. BucketSize
      BY TreeAssumption
    <3>3. Cardinality(KeysAt(merged, quad)) \in Nat
      BY KeysFinite
    <3> QED BY <2>2, <3>1, <3>2, <3>3
  <2>7. Legal(Q2, B2, merged, pos)
    BY <1>5, <2>1, <2>2, <2>6, MergeLegal
  <2>8. Uncount(TreeOf(Q2, B2, merged, pos, quad), quad) = TreeOf(Q2, B2, merged, pos, NoBucket)
    <3>1. Shape(Q2, B2) /\ quad \in B2
      BY <2>7 DEF Legal
    <3> HIDE DEF Q2, B2, merged
    <3> QED BY <3>1, UncountIs
  <2>9. Holds(remove_entry_from_key_node(t, k), Q2, B2, merged, pos)
    <3> HIDE DEF taken, Q2, B2, merged
    <3> QED BY <2>3, <2>5, <2>7, <2>8 DEF Holds
  <2>10. \A j \in Key : merged[j] # NoBucket => j # k /\ slot[j] # NoBucket
    <3>1. \A b \in B : b # NoBucket
      BY <1>1, NotANode DEF Shape
    <3>2. \A j \in Key : merged[j] = IF left[j] \in Children(quad) THEN quad ELSE left[j]
      BY DEF MergedSlots
    <3> HIDE DEF merged
    <3> QED BY <1>3, <2>2, <3>1, <3>2
  <2> HIDE DEF Q2, B2, merged
  <2> QED BY <2>9, <2>10
<1>9. CASE ~MayMerge(taken, x)
  <2>1. remove_entry_from_key_node(t, k) = Uncount(taken, x)
    <3> HIDE DEF taken
    <3> QED BY <1>4, <1>6, <1>9 DEF remove_entry_from_key_node, x
  <2>2. Uncount(taken, x) = TreeOf(Q, B, left, pos, NoBucket)
    BY <1>1, <1>2, UncountIs
  <2>3. Holds(remove_entry_from_key_node(t, k), Q, B, left, pos)
    BY <1>5, <2>1, <2>2 DEF Holds
  <2>4. \A j \in Key : left[j] # NoBucket => j # k /\ slot[j] # NoBucket
    BY <1>3
  <2> QED BY <2>3, <2>4
<1> QED BY <1>8, <1>9

(* A slot is added to the bucket that owns its position, or to a child of  *)
(* it after the split.                                                     *)
LEMMA Added ==
  ASSUME NEW Q, NEW B, NEW slot, NEW pos, NEW t, Holds(t, Q, B, slot, pos),
         NEW k \in Key, slot[k] = NoBucket,
         NEW p \in Position, position_is_in_rect(p, qbounds)
  PROVE  \E Q2, B2, slot2, pos2 :
            /\ Holds(add_slot(t, Slot(k, p)), Q2, B2, slot2, pos2)
            /\ \A j \in Key : slot2[j] # NoBucket => j = k \/ slot[j] # NoBucket
<1> DEFINE s == Slot(k, p)
           b == BucketFor(t, p)
           pos2 == [pos EXCEPT ![k] = p]
<1>1. /\ Legal(Q, B, slot, pos) /\ Shape(Q, B) /\ Settled(B, slot, pos) /\ Bounded(Q, B, slot)
      /\ t = TreeOf(Q, B, slot, pos, NoBucket)
  BY DEF Holds, Legal
<1>2. s.key = k /\ s.position = p /\ p \in Point
  BY SlotFacts, TreeAssumption DEF Point
<1>3. b \in B /\ position_is_in_rect(p, b)
  <2>1. t.quads = Q
    BY <1>1 DEF TreeOf
  <2> QED BY <1>1, <1>2, <2>1, Descent
<1>4. t.buckets[b].busy_slots = Cardinality(KeysAt(slot, b))
  <2> HIDE DEF b
  <2>1. Filled(slot, pos, b).busy_slots = Cardinality(KeysAt(slot, b))
    BY DEF Filled
  <2>2. t.buckets[b] = Filled(slot, pos, b)
    BY <1>1, <1>3 DEF TreeOf
  <2> QED BY <2>1, <2>2
<1>5. slot \in [Key -> B \cup {NoBucket}] /\ IsNode(b)
  BY <1>1, <1>3 DEF Settled, Shape
<1> HIDE DEF s, b, pos2
<1>6. CASE MayHold(t, b)
  <2> DEFINE added == [slot EXCEPT ![k] = b]
  <2>1. add_slot(t, s) = add_slot_to_bucket(t, b, s)
    BY <1>2, <1>6 DEF add_slot, b
  <2>2. add_slot_to_bucket(t, b, s) = TreeOf(Q, B, added, pos2, NoBucket)
    BY <1>1, <1>3, AddIs DEF s, pos2
  <2>3. Large(b) => Cardinality(KeysAt(slot, b)) < Room(Q, b)
    <3>1. ASSUME Large(b) PROVE Cardinality(KeysAt(slot, b)) < BucketSize
      <4>1. Height(b) \in Nat /\ Width(b) \in Nat /\ Accuracy \in Nat
        BY <1>5, NodeFacts, TreeAssumption
      <4>2. ~(Height(b) < Accuracy) /\ ~(Width(b) < Accuracy)
        BY <3>1, <4>1 DEF Large
      <4> QED BY <1>4, <1>6, <4>2 DEF MayHold
    <3>2. Cardinality(KeysAt(slot, b)) \in Nat
      BY KeysFinite
    <3>3. Room(Q, b) \in Nat /\ Room(Q, b) >= BucketSize /\ BucketSize \in Nat
      BY <1>1, <1>3, RoomFacts
    <3> QED BY <3>1, <3>2, <3>3
  <2>4. Legal(Q, B, added, pos2)
    BY <1>1, <1>3, <2>3, AddLegal DEF pos2
  <2>5. \A j \in Key : added[j] # NoBucket => j = k \/ slot[j] # NoBucket
    BY <1>5
  <2> HIDE DEF added
  <2>6. Holds(add_slot(t, s), Q, B, added, pos2)
    BY <2>1, <2>2, <2>4 DEF Holds
  <2> QED BY <2>5, <2>6 DEF s
<1>7. CASE ~MayHold(t, b)
  <2> DEFINE c == find_node_for_position(b, p)
             Q2 == Q \cup {b}
             B2 == (B \ {b}) \cup Children(b)
             spread == SpreadSlots(b, slot, pos)
             added == [spread EXCEPT ![k] = c]
  <2>1. Large(b)
    <3>1. Height(b) \in Nat /\ Width(b) \in Nat /\ Accuracy \in Nat
      BY <1>5, NodeFacts, TreeAssumption
    <3> QED BY <1>7, <3>1 DEF MayHold, Large
  <2>2. c \in Children(b) /\ position_is_in_rect(p, c)
    BY <1>2, <1>3, <1>5, <2>1, ChildOfPosition
  <2>3. add_slot(t, s) = add_slot_to_bucket(Split(t, b), c, s)
    BY <1>2, <1>7 DEF add_slot, b
  <2>4. Split(t, b) = TreeOf(Q2, B2, spread, pos, NoBucket)
    BY <1>1, <1>3, <2>1, SplitIs
  <2>5. /\ Legal(Q2, B2, spread, pos)
        /\ \A n \in Children(b) : Cardinality(KeysAt(spread, n)) < Room(Q2, n)
    BY <1>1, <1>3, <2>1, SplitLegal
  <2>6. b # NoBucket
    BY <1>5, NotANode
  <2>7. \A j \in Key : spread[j] # NoBucket => slot[j] # NoBucket
    BY <2>6 DEF SpreadSlots
  <2>8. spread[k] = NoBucket
    BY <2>7
  <2> HIDE DEF c, spread, Q2
  <2>9. Legal(Q2, B2, added, pos2)
    <3>1. c \in B2
      BY <2>2
    <3> HIDE DEF B2
    <3> QED BY <2>2, <2>5, <2>8, <3>1, AddLegal DEF pos2
  <2>10. add_slot_to_bucket(Split(t, b), c, s) = TreeOf(Q2, B2, added, pos2, NoBucket)
    <3>1. Shape(Q2, B2) /\ Settled(B2, spread, pos) /\ c \in B2
      BY <2>2, <2>5 DEF Legal
    <3> HIDE DEF B2
    <3> QED BY <2>4, <2>8, <3>1, AddIs DEF s, pos2
  <2>11. \A j \in Key : added[j] # NoBucket => j = k \/ slot[j] # NoBucket
    <3>1. spread \in [Key -> B2 \cup {NoBucket}]
      BY <2>5 DEF Legal, Settled
    <3> QED BY <2>7, <3>1
  <2> HIDE DEF added, B2
  <2>12. Holds(add_slot(t, s), Q2, B2, added, pos2)
    BY <2>3, <2>9, <2>10 DEF Holds
  <2> QED BY <2>11, <2>12 DEF s
<1> QED BY <1>6, <1>7
-----------------------------------------------------------------------------
(* The inductive invariant: the tree is that of its nodes and of the       *)
(* bucket and the position of each key, and only records have a bucket.    *)

TreeInv ==
    /\ key_nodes \subseteq Key
    /\ \E Q, B, slot, pos :
          /\ Holds(tree, Q, B, slot, pos)
          /\ \A k \in Key : slot[k] # NoBucket => k \in key_nodes

(* A new layer is an empty tree. *)
LEMMA Started ==
  \E Q, B, slot, pos : /\ Holds(init_pan_db, Q, B, slot, pos)
                       /\ \A k \in Key : slot[k] = NoBucket
<1> DEFINE Q == {qbounds}
           B == Children(qbounds)
           slot == [k \in Key |-> NoBucket]
           pos == [k \in Key |-> qbounds.edge0]
<1>1. Shape(Q, B)
  BY ShapeInit
<1>2. Settled(B, slot, pos)
  <2>1. qbounds.edge0 \in Point
    BY RootFacts DEF IsNode
  <2> QED BY <2>1 DEF Settled
<1>3. \A n : n # NoBucket => KeysAt(slot, n) = {} /\ KeysBelow(slot, n) = {}
  BY DEF KeysAt, KeysBelow
<1>4. \A n \in Q \cup B : n # NoBucket
  <2>1. \A n \in Q \cup B : IsNode(n)
    BY <1>1 DEF Shape
  <2> QED BY <2>1, NotANode
<1>5. Cardinality({}) = 0 /\ IsFiniteSet({})
  BY FS_EmptySet
<1>6. Bounded(Q, B, slot)
  <2>1. ASSUME NEW n \in B PROVE Cardinality(KeysAt(slot, n)) <= Room(Q, n)
    <3>1. Cardinality(KeysAt(slot, n)) = 0
      BY <1>3, <1>4, <1>5
    <3>2. Room(Q, n) \in Nat
      BY <1>1, RoomFacts
    <3> QED BY <3>1, <3>2
  <2> QED BY <2>1 DEF Bounded
<1>7. \A k \in Key : slot[k] = NoBucket
  OBVIOUS
<1>8. init_pan_db = TreeOf(Q, B, slot, pos, NoBucket)
  <2> DEFINE subs == [q \in Q |-> 0]
             bucks == [n \in B |-> Bucket({})]
             subs2 == [q \in Q |-> Cardinality(KeysBelow(slot, q)) + Surplus(NoBucket, q)]
             bucks2 == [n \in B |-> Filled(slot, pos, n)]
  <2>1. init_pan_db = [quads |-> Q, sub_slots |-> subs, buckets |-> bucks, slot |-> slot]
    BY DEF init_pan_db
  <2>2. TreeOf(Q, B, slot, pos, NoBucket)
          = [quads |-> Q, sub_slots |-> subs2, buckets |-> bucks2, slot |-> slot]
    BY DEF TreeOf
  <2>3. subs = subs2
    <3>1. \A q \in Q : Cardinality(KeysBelow(slot, q)) + Surplus(NoBucket, q) = 0
      BY <1>3, <1>4, <1>5 DEF Surplus
    <3> QED BY <3>1
  <2>4. bucks = bucks2
    <3>1. ASSUME NEW n \in B PROVE Bucket({}) = Filled(slot, pos, n)
      <4>1. KeysAt(slot, n) = {}
        BY <1>3, <1>4
      <4> QED BY <4>1 DEF Bucket, Filled
    <3> HIDE DEF slot, pos
    <3> QED BY <3>1
  <2> HIDE DEF subs, bucks, subs2, bucks2, slot, pos, Q, B
  <2> QED BY <2>1, <2>2, <2>3, <2>4
<1> HIDE DEF slot, pos, Q, B
<1>9. Holds(init_pan_db, Q, B, slot, pos)
  BY <1>1, <1>2, <1>6, <1>8 DEF Holds, Legal
<1> QED BY <1>7, <1>9

(* Each handler leaves a tree. *)
LEMMA Steps == TreeInv /\ [Next]_vars => TreeInv'
<1> SUFFICES ASSUME TreeInv, [Next]_vars PROVE TreeInv'
  OBVIOUS
<1>1. PICK Q, B, slot, pos : /\ Holds(tree, Q, B, slot, pos)
                             /\ \A k \in Key : slot[k] # NoBucket => k \in key_nodes
  BY DEF TreeInv
<1>2. key_nodes \subseteq Key
  BY DEF TreeInv
<1>3. tree.slot = slot
  BY <1>1 DEF Holds, TreeOf
<1>4. ASSUME NEW k \in Key, NEW p \in Position \cup {NoPosition}, Put(k, p)
      PROVE  TreeInv'
  <2>1. key_nodes' = key_nodes \cup {k}
    BY <1>4 DEF Put
  <2>2. CASE p = NoPosition \/ ~position_is_in_rect(p, qbounds)
             \/ (HasSlot(k) /\ SlotOf(tree, k).position = p)
    <3>1. tree' = tree
      BY <1>4, <2>2 DEF Put
    <3> QED BY <1>1, <1>2, <2>1, <3>1 DEF TreeInv
  <2>3. CASE ~(p = NoPosition \/ ~position_is_in_rect(p, qbounds)
               \/ (HasSlot(k) /\ SlotOf(tree, k).position = p))
    <3>1. p \in Position /\ position_is_in_rect(p, qbounds)
      BY <2>3
    <3>2. tree' = Moved(k, p)
      BY <1>4, <2>3 DEF Put
    <3> DEFINE t == IF HasSlot(k) THEN remove_entry_from_key_node(tree, k) ELSE tree
    <3>3. PICK Q1, B1, slot1 :
             /\ Holds(t, Q1, B1, slot1, pos)
             /\ \A j \in Key : slot1[j] # NoBucket => j # k /\ slot[j] # NoBucket
      <4>1. CASE HasSlot(k)
        <5>1. slot[k] # NoBucket
          BY <1>3, <4>1 DEF HasSlot
        <5> QED BY <1>1, <4>1, <5>1, Removed
      <4>2. CASE ~HasSlot(k)
        <5>1. slot[k] = NoBucket
          BY <1>3, <4>2 DEF HasSlot
        <5>2. t = tree
          BY <4>2
        <5>3. \A j \in Key : slot[j] # NoBucket => j # k /\ slot[j] # NoBucket
          BY <5>1
        <5> HIDE DEF t
        <5> QED BY <1>1, <5>2, <5>3
      <4> QED BY <4>1, <4>2
    <3>4. tree' = add_slot(t, Slot(k, p))
      BY <3>2 DEF Moved
    <3> HIDE DEF t
    <3>5. PICK Q2, B2, slot2, pos2 :
             /\ Holds(add_slot(t, Slot(k, p)), Q2, B2, slot2, pos2)
             /\ \A j \in Key : slot2[j] # NoBucket => j = k \/ slot1[j] # NoBucket
      <4>1. slot1[k] = NoBucket
        BY <3>3
      <4> QED BY <3>1, <3>3, <4>1, Added
    <3>6. \A j \in Key : slot2[j] # NoBucket => j \in key_nodes'
      BY <1>1, <2>1, <3>3, <3>5
    <3> QED BY <1>2, <2>1, <3>4, <3>5, <3>6 DEF TreeInv
  <2> QED BY <2>2, <2>3
<1>5. ASSUME NEW k \in Key, Delete(k)
      PROVE  TreeInv'
  <2>1. key_nodes' = key_nodes \ {k}
    BY <1>5 DEF Delete
  <2>2. CASE HasSlot(k)
    <3>1. slot[k] # NoBucket
      BY <1>3, <2>2 DEF HasSlot
    <3>2. tree' = remove_entry_from_key_node(tree, k)
      BY <1>5, <2>2 DEF Delete
    <3>3. PICK Q2, B2, slot2 :
             /\ Holds(remove_entry_from_key_node(tree, k), Q2, B2, slot2, pos)
             /\ \A j \in Key : slot2[j] # NoBucket => j # k /\ slot[j] # NoBucket
      BY <1>1, <3>1, Removed
    <3>4. \A j \in Key : slot2[j] # NoBucket => j \in key_nodes'
      BY <1>1, <2>1, <3>3
    <3> QED BY <1>2, <2>1, <3>2, <3>3, <3>4 DEF TreeInv
  <2>3. CASE ~HasSlot(k)
    <3>1. slot[k] = NoBucket
      BY <1>3, <2>3 DEF HasSlot
    <3>2. tree' = tree
      BY <1>5, <2>3 DEF Delete
    <3>3. \A j \in Key : slot[j] # NoBucket => j \in key_nodes'
      BY <1>1, <2>1, <3>1
    <3> QED BY <1>1, <1>2, <2>1, <3>2, <3>3 DEF TreeInv
  <2> QED BY <2>2, <2>3
<1>6. ASSUME free_pan_db PROVE TreeInv'
  <2>1. key_nodes' = {} /\ tree' = init_pan_db
    BY <1>6 DEF free_pan_db
  <2> QED BY <2>1, Started DEF TreeInv
<1>7. ASSUME UNCHANGED vars PROVE TreeInv'
  BY <1>7 DEF vars, TreeInv
<1> QED BY <1>4, <1>5, <1>6, <1>7 DEF Next

(* The nodes, the bucket of each key and its position determine the tree,  *)
(* counters and slots included, through every move, split and merge.       *)
THEOREM TreeInvariant == Spec => []TreeInv
<1>1. Init => TreeInv
  BY Started DEF Init, TreeInv
<1> QED BY <1>1, Steps, PTL DEF Spec
-----------------------------------------------------------------------------
(* What the invariant says of the properties *)

(* The parts of the tree, named. *)
LEMMA Parts ==
  ASSUME NEW Q, NEW B, NEW slot, NEW pos, Holds(tree, Q, B, slot, pos)
  PROVE  /\ Shape(Q, B) /\ Settled(B, slot, pos) /\ Bounded(Q, B, slot)
         /\ tree.quads = Q /\ tree.slot = slot /\ DOMAIN tree.buckets = B
         /\ DOMAIN tree.sub_slots = Q
         /\ \A q \in Q : tree.sub_slots[q] = Cardinality(KeysBelow(slot, q))
         /\ \A b \in B : /\ tree.buckets[b].slots = {Slot(k, pos[k]) : k \in KeysAt(slot, b)}
                         /\ tree.buckets[b].busy_slots = Cardinality(KeysAt(slot, b))
<1>1. Shape(Q, B) /\ Settled(B, slot, pos) /\ Bounded(Q, B, slot)
      /\ tree = TreeOf(Q, B, slot, pos, NoBucket)
  BY DEF Holds, Legal
<1>2. /\ tree.quads = Q /\ tree.slot = slot /\ DOMAIN tree.buckets = B
      /\ DOMAIN tree.sub_slots = Q
      /\ \A q \in Q : tree.sub_slots[q] = Cardinality(KeysBelow(slot, q)) + Surplus(NoBucket, q)
      /\ \A b \in B : tree.buckets[b] = Filled(slot, pos, b)
  BY <1>1 DEF TreeOf
<1>3. \A q \in Q : tree.sub_slots[q] = Cardinality(KeysBelow(slot, q))
  <2>1. ASSUME NEW q \in Q PROVE tree.sub_slots[q] = Cardinality(KeysBelow(slot, q))
    <3>1. Surplus(NoBucket, q) = 0 /\ Cardinality(KeysBelow(slot, q)) \in Nat
      BY KeysFinite DEF Surplus
    <3>2. tree.sub_slots[q] = Cardinality(KeysBelow(slot, q)) + Surplus(NoBucket, q)
      BY <1>2
    <3> QED BY <3>1, <3>2
  <2> QED BY <2>1
<1>4. \A b : /\ Filled(slot, pos, b).slots = {Slot(k, pos[k]) : k \in KeysAt(slot, b)}
             /\ Filled(slot, pos, b).busy_slots = Cardinality(KeysAt(slot, b))
  BY DEF Filled
<1>5. \A b \in B : /\ tree.buckets[b].slots = {Slot(k, pos[k]) : k \in KeysAt(slot, b)}
                   /\ tree.buckets[b].busy_slots = Cardinality(KeysAt(slot, b))
  BY <1>2, <1>4
<1> QED BY <1>1, <1>2, <1>3, <1>5

(* Types: nodes, counters and slots are what the assertions of add_slot    *)
(* and remove_entry_from_key_node take them for.                           *)
THEOREM TreeTypes == Spec => []TypeOK
<1>1. TreeInv => TypeOK
  <2> SUFFICES ASSUME TreeInv PROVE TypeOK
    OBVIOUS
  <2>1. PICK Q, B, slot, pos : /\ Holds(tree, Q, B, slot, pos)
                               /\ \A k \in Key : slot[k] # NoBucket => k \in key_nodes
    BY DEF TreeInv
  <2>2. /\ Shape(Q, B) /\ Settled(B, slot, pos)
        /\ tree.quads = Q /\ tree.slot = slot /\ DOMAIN tree.buckets = B
        /\ DOMAIN tree.sub_slots = Q
        /\ \A q \in Q : tree.sub_slots[q] = Cardinality(KeysBelow(slot, q))
        /\ \A b \in B : /\ tree.buckets[b].slots = {Slot(k, pos[k]) : k \in KeysAt(slot, b)}
                        /\ tree.buckets[b].busy_slots = Cardinality(KeysAt(slot, b))
    BY <2>1, Parts
  <2>3. \A n : Cardinality(KeysBelow(slot, n)) \in Nat /\ Cardinality(KeysAt(slot, n)) \in Nat
    BY KeysFinite
  <2>4. \A q \in Q : /\ tree.sub_slots[q] \in Nat
                     /\ Height(q) >= Accuracy /\ Width(q) >= Accuracy
    BY <2>2, <2>3 DEF Shape, Large
  <2>5. \A b \in B : b # NoBucket
    BY <2>2, NotANode DEF Shape
  <2>6. ASSUME NEW b \in B, NEW s \in tree.buckets[b].slots
        PROVE  s.key \in key_nodes /\ s.position \in Position
    <3>1. PICK k \in KeysAt(slot, b) : s = Slot(k, pos[k])
      BY <2>2
    <3>2. s.key = k /\ s.position = pos[k]
      BY <3>1, SlotFacts
    <3>3. k \in Key /\ slot[k] # NoBucket
      BY <2>5 DEF KeysAt
    <3> QED BY <2>1, <2>2, <3>2, <3>3 DEF Settled
  <2>7. tree.slot \in [Key -> DOMAIN tree.buckets \cup {NoBucket}]
    BY <2>2 DEF Settled
  <2>8. qbounds \in tree.quads
    BY <2>2 DEF Shape
  <2>9. key_nodes \subseteq Key
    BY DEF TreeInv
  <2> QED BY <2>2, <2>3, <2>4, <2>6, <2>7, <2>8, <2>9 DEF TypeOK
<1> QED BY <1>1, TreeInvariant, PTL

(* Splits and merges keep a tree. *)
THEOREM StaysATree == Spec => []WellFormed
<1>1. TreeInv => WellFormed
  <2> SUFFICES ASSUME TreeInv PROVE WellFormed
    OBVIOUS
  <2>1. PICK Q, B, slot, pos : Holds(tree, Q, B, slot, pos)
    BY DEF TreeInv
  <2>2. Shape(Q, B) /\ tree.quads = Q /\ DOMAIN tree.buckets = B
    BY <2>1, Parts
  <2>3. qbounds \notin B
    BY <2>2 DEF Shape
  <2>4. (Q \ {qbounds}) \cup B = (Q \cup B) \ {qbounds}
    BY <2>3
  <2> QED BY <2>2, <2>4 DEF Shape, WellFormed
<1> QED BY <1>1, TreeInvariant, PTL

(* The slot of a record and its bucket point at each other, through every  *)
(* move, split and merge; a bucket holds positions of its rectangle only,  *)
(* and a record is in the tree once.                                       *)
THEOREM SlotsFollowMoves == Spec => []SlotsPointBack
<1>1. TreeInv => SlotsPointBack
  <2> SUFFICES ASSUME TreeInv PROVE SlotsPointBack
    OBVIOUS
  <2>1. PICK Q, B, slot, pos : /\ Holds(tree, Q, B, slot, pos)
                               /\ \A k \in Key : slot[k] # NoBucket => k \in key_nodes
    BY DEF TreeInv
  <2>2. /\ Shape(Q, B) /\ Settled(B, slot, pos)
        /\ tree.slot = slot /\ DOMAIN tree.buckets = B
        /\ \A b \in B : tree.buckets[b].slots = {Slot(k, pos[k]) : k \in KeysAt(slot, b)}
    BY <2>1, Parts
  <2>3. \A b \in B : b # NoBucket
    BY <2>2, NotANode DEF Shape
  <2>4. ASSUME NEW b \in B, NEW s \in tree.buckets[b].slots
        PROVE  /\ tree.slot[s.key] = b /\ position_is_in_rect(s.position, b)
               /\ s = Slot(s.key, pos[s.key])
    <3>1. PICK k \in KeysAt(slot, b) : s = Slot(k, pos[k])
      BY <2>2
    <3>2. s.key = k /\ s.position = pos[k]
      BY <3>1, SlotFacts
    <3>3. k \in Key /\ slot[k] = b
      BY DEF KeysAt
    <3> QED BY <2>2, <2>3, <3>1, <3>2, <3>3 DEF Settled
  <2>5. ASSUME NEW k \in Key, HasSlot(k)
        PROVE  k \in key_nodes /\ \E s \in tree.buckets[tree.slot[k]].slots : s.key = k
    <3>1. slot[k] # NoBucket /\ slot[k] \in B
      BY <2>2, <2>5 DEF HasSlot, Settled
    <3>2. k \in KeysAt(slot, slot[k])
      BY DEF KeysAt
    <3>3. Slot(k, pos[k]) \in tree.buckets[slot[k]].slots /\ Slot(k, pos[k]).key = k
      BY <2>2, <3>1, <3>2, SlotFacts
    <3> QED BY <2>1, <2>2, <3>1, <3>3
  <2>6. ASSUME NEW b \in B, NEW s1 \in tree.buckets[b].slots, NEW s2 \in tree.buckets[b].slots,
               s1.key = s2.key
        PROVE  s1 = s2
    BY <2>4, <2>6
  <2> QED BY <2>2, <2>4, <2>5, <2>6 DEF SlotsPointBack
<1> QED BY <1>1, TreeInvariant, PTL

(* The counters of quads and buckets are the numbers of their slots, after *)
(* the partial updates of a removal that merges too.                       *)
THEOREM CountersAreRight == Spec => []Counted
<1>1. TreeInv => Counted
  <2> SUFFICES ASSUME TreeInv PROVE Counted
    OBVIOUS
  <2>1. PICK Q, B, slot, pos : Holds(tree, Q, B, slot, pos)
    BY DEF TreeInv
  <2>2. /\ Shape(Q, B) /\ Settled(B, slot, pos)
        /\ tree.quads = Q /\ DOMAIN tree.buckets = B
        /\ \A q \in Q : tree.sub_slots[q] = Cardinality(KeysBelow(slot, q))
        /\ \A b \in B : /\ tree.buckets[b].slots = {Slot(k, pos[k]) : k \in KeysAt(slot, b)}
                        /\ tree.buckets[b].busy_slots = Cardinality(KeysAt(slot, b))
    BY <2>1, Parts
  <2>3. \A b \in B : IsNode(b) /\ b # NoBucket
    BY <2>2, NotANode DEF Shape
  <2>4. ASSUME NEW q \in Q
        PROVE  SlotsIn(q) = {Slot(k, pos[k]) : k \in KeysBelow(slot, q)}
    <3> DEFINE Inside == {x \in DOMAIN tree.buckets : position_is_in_rect(x.edge0, q)
                            /\ x.edge1.latitude <= q.edge1.latitude
                            /\ x.edge1.longitude <= q.edge1.longitude}
    <3>1. Inside = {x \in B : In(x, q)}
      <4>1. IsNode(q)
        BY <2>2 DEF Shape
      <4>2. ASSUME NEW x \in B
            PROVE  In(x, q) <=> /\ position_is_in_rect(x.edge0, q)
                                /\ x.edge1.latitude <= q.edge1.latitude
                                /\ x.edge1.longitude <= q.edge1.longitude
        <5>1. IsNode(x)
          BY <2>3
        <5> QED BY <4>1, <5>1, NodeFacts DEF In, position_is_in_rect
      <4> QED BY <2>2, <4>2
    <3>2. SlotsIn(q) = UNION {tree.buckets[b].slots : b \in Inside}
      BY DEF SlotsIn
    <3> HIDE DEF Inside
    <3>3. ASSUME NEW s \in SlotsIn(q) PROVE s \in {Slot(k, pos[k]) : k \in KeysBelow(slot, q)}
      <4>1. PICK b \in Inside : s \in tree.buckets[b].slots
        BY <3>2
      <4>2. b \in B /\ In(b, q) /\ b # NoBucket
        BY <2>3, <3>1
      <4>3. PICK k \in KeysAt(slot, b) : s = Slot(k, pos[k])
        BY <2>2, <4>1, <4>2
      <4>4. k \in KeysBelow(slot, q)
        BY <4>2 DEF KeysAt, KeysBelow
      <4> QED BY <4>3, <4>4
    <3>4. ASSUME NEW k \in KeysBelow(slot, q) PROVE Slot(k, pos[k]) \in SlotsIn(q)
      <4>1. k \in Key /\ slot[k] # NoBucket /\ In(slot[k], q)
        BY DEF KeysBelow
      <4>2. slot[k] \in Inside /\ slot[k] \in B
        BY <2>2, <3>1, <4>1 DEF Settled
      <4>3. k \in KeysAt(slot, slot[k])
        BY <4>1 DEF KeysAt
      <4>4. Slot(k, pos[k]) \in tree.buckets[slot[k]].slots
        BY <2>2, <4>2, <4>3
      <4> QED BY <3>2, <4>2, <4>4
    <3> QED BY <3>3, <3>4
  <2>5. ASSUME NEW q \in Q
        PROVE  Cardinality(SlotsIn(q)) = Cardinality(KeysBelow(slot, q))
    <3>1. KeysBelow(slot, q) \in SUBSET Key
      BY DEF KeysBelow
    <3> QED BY <2>4, <3>1, SlotsOfKeys
  <2>6. ASSUME NEW b \in B
        PROVE  Cardinality(tree.buckets[b].slots) = Cardinality(KeysAt(slot, b))
    <3>1. KeysAt(slot, b) \in SUBSET Key
      BY DEF KeysAt
    <3> QED BY <2>2, <3>1, SlotsOfKeys
  <2> QED BY <2>2, <2>5, <2>6 DEF Counted
<1> QED BY <1>1, TreeInvariant, PTL

(* How far over its size a bucket may grow: by one slot for each split     *)
(* above it.                                                               *)
THEOREM BucketsStayBounded == Spec => []BucketsBounded
<1>1. TreeInv => BucketsBounded
  <2> SUFFICES ASSUME TreeInv PROVE BucketsBounded
    OBVIOUS
  <2>1. PICK Q, B, slot, pos : Holds(tree, Q, B, slot, pos)
    BY DEF TreeInv
  <2>2. /\ Shape(Q, B) /\ Bounded(Q, B, slot)
        /\ tree.quads = Q /\ DOMAIN tree.buckets = B
        /\ \A b \in B : tree.buckets[b].busy_slots = Cardinality(KeysAt(slot, b))
    BY <2>1, Parts
  <2>3. ASSUME NEW b \in B PROVE Ancestors(tree, b) = AncestorsOf(Q, b)
    BY <2>2, AncestorsAre DEF AncestorsOf
  <2>4. ASSUME NEW b \in B, Large(b)
        PROVE  tree.buckets[b].busy_slots <= BucketSize + Cardinality(Ancestors(tree, b)) - 1
    BY <2>2, <2>3, <2>4 DEF Bounded, Room
  <2> QED BY <2>2, <2>4 DEF BucketsBounded, Large
<1> QED BY <1>1, TreeInvariant, PTL
-----------------------------------------------------------------------------
(* The order of keys *)

(* Where two keys differ first; a key that has ended is below any byte. *)
At(s, i) == IF i \in 1 .. Len(s) THEN s[i] ELSE -1
LessAt(s, t, i) == /\ i \in Nat \ {0} /\ At(s, i) < At(t, i)
                   /\ \A j \in 1 .. i - 1 : At(s, j) = At(t, j)

(* The bytes of a key. *)
LEMMA AtFacts ==
  ASSUME NEW s \in Seq(Nat)
  PROVE  /\ Len(s) \in Nat /\ DOMAIN s = 1 .. Len(s)
         /\ \A i \in 1 .. Len(s) : At(s, i) = s[i] /\ At(s, i) \in Nat
         /\ \A i : i \notin 1 .. Len(s) => At(s, i) = -1
         /\ \A i : At(s, i) \in Int /\ At(s, i) >= -1
<1>1. Len(s) \in Nat /\ DOMAIN s = 1 .. Len(s) /\ \A i \in 1 .. Len(s) : s[i] \in Nat
  OBVIOUS
<1> QED BY <1>1 DEF At

(* A prefix has the same bytes. *)
LEMMA PrefixIs ==
  ASSUME NEW s \in Seq(Nat), NEW t \in Seq(Nat)
  PROVE  IsPrefix(s, t) <=> \A i \in 1 .. Len(s) : At(s, i) = At(t, i)
<1>1. /\ Len(s) \in Nat /\ Len(t) \in Nat
      /\ \A i \in 1 .. Len(s) : s[i] \in Nat
      /\ \A i \in 1 .. Len(t) : t[i] \in Nat
  OBVIOUS
<1>2. SubSeq(s, 1, Len(s)) = s
  OBVIOUS
<1>3. ASSUME Len(s) <= Len(t)
      PROVE  s = SubSeq(t, 1, Len(s)) <=> \A i \in 1 .. Len(s) : s[i] = t[i]
  <2> DEFINE u == SubSeq(t, 1, Len(s))
  <2>1. u \in Seq(Nat) /\ Len(u) = Len(s) /\ \A i \in 1 .. Len(s) : u[i] = t[i]
    BY <1>1, <1>3
  <2> HIDE DEF u
  <2>2. (\A i \in 1 .. Len(s) : s[i] = u[i]) => s = u
    BY <1>1, <2>1, SeqEqual
  <2>3. s = u <=> \A i \in 1 .. Len(s) : s[i] = t[i]
    BY <2>1, <2>2
  <2> QED BY <2>3 DEF u
<1>4. ASSUME \A i \in 1 .. Len(s) : At(s, i) = At(t, i)
      PROVE  Len(s) <= Len(t)
  <2> SUFFICES ASSUME ~(Len(s) <= Len(t)) PROVE FALSE
    OBVIOUS
  <2>1. Len(s) \in 1 .. Len(s) /\ Len(s) \notin 1 .. Len(t)
    BY <1>1
  <2> QED BY <1>1, <1>4, <2>1 DEF At
<1>5. ASSUME Len(s) <= Len(t)
      PROVE  (\A i \in 1 .. Len(s) : s[i] = t[i]) <=> \A i \in 1 .. Len(s) : At(s, i) = At(t, i)
  BY <1>1, <1>5 DEF At
<1> QED BY <1>2, <1>3, <1>4, <1>5 DEF IsPrefix

(* key_node_cmp compares at the first difference. *)
LEMMA LessIs ==
  ASSUME NEW s \in Seq(Nat), NEW t \in Seq(Nat)
  PROVE  key_node_less(s, t) <=> \E i : LessAt(s, t, i)
<1>1. /\ Len(s) \in Nat /\ Len(t) \in Nat /\ DOMAIN s = 1 .. Len(s) /\ DOMAIN t = 1 .. Len(t)
      /\ \A i \in 1 .. Len(s) : s[i] \in Nat
      /\ \A i \in 1 .. Len(t) : t[i] \in Nat
  OBVIOUS
<1>2. ASSUME IsStrictPrefix(s, t) PROVE \E i : LessAt(s, t, i)
  <2>1. s # t /\ IsPrefix(s, t)
    BY <1>2 DEF IsStrictPrefix
  <2>2. \A i \in 1 .. Len(s) : At(s, i) = At(t, i)
    BY <2>1, PrefixIs
  <2>3. Len(s) <= Len(t)
    BY <2>1 DEF IsPrefix
  <2>4. Len(s) # Len(t)
    <3> SUFFICES ASSUME Len(s) = Len(t) PROVE FALSE
      OBVIOUS
    <3>1. \A i \in 1 .. Len(s) : s[i] = t[i]
      BY <2>2 DEF At
    <3> QED BY <2>1, <3>1, SeqEqual
  <2>5. Len(s) + 1 \in 1 .. Len(t) /\ Len(s) + 1 \notin 1 .. Len(s) /\ (Len(s) + 1) - 1 = Len(s)
    <3>1. Len(s) \in Nat /\ Len(t) \in Nat
      BY <1>1
    <3> QED BY <2>3, <2>4, <3>1
  <2>6. LessAt(s, t, Len(s) + 1)
    BY <1>1, <2>2, <2>5 DEF LessAt, At
  <2> QED BY <2>6
<1>3. ASSUME NEW i \in DOMAIN s \cap DOMAIN t,
             s[i] < t[i] /\ \A j \in 1 .. i - 1 : s[j] = t[j]
      PROVE  LessAt(s, t, i)
  <2>1. i \in 1 .. Len(s) /\ i \in 1 .. Len(t)
    BY <1>1
  <2>2. \A j \in 1 .. i - 1 : j \in 1 .. Len(s) /\ j \in 1 .. Len(t)
    BY <1>1, <2>1
  <2> QED BY <1>1, <1>3, <2>1, <2>2 DEF LessAt, At
<1>4. ASSUME NEW i, LessAt(s, t, i)
      PROVE  key_node_less(s, t)
  <2>1. /\ i \in Nat \ {0} /\ At(s, i) < At(t, i)
        /\ \A j \in 1 .. i - 1 : At(s, j) = At(t, j)
    BY <1>4 DEF LessAt
  <2>2. i \in 1 .. Len(t)
    BY <2>1, AtFacts
  <2>3. CASE i \in 1 .. Len(s)
    <3>1. s[i] < t[i]
      BY <2>1, <2>2, <2>3 DEF At
    <3>2. \A j \in 1 .. i - 1 : j \in 1 .. Len(s) /\ j \in 1 .. Len(t)
      BY <1>1, <2>2, <2>3
    <3>3. \A j \in 1 .. i - 1 : s[j] = t[j]
      BY <2>1, <3>2 DEF At
    <3> QED BY <1>1, <2>2, <2>3, <3>1, <3>3 DEF key_node_less
  <2>4. CASE i \notin 1 .. Len(s)
    <3>1. \A j \in 1 .. Len(s) : j \in 1 .. i - 1
      BY <1>1, <2>1, <2>4
    <3>2. IsPrefix(s, t)
      BY <2>1, <3>1, PrefixIs
    <3>3. s # t
      BY <2>2, <2>4
    <3> QED BY <3>2, <3>3 DEF key_node_less, IsStrictPrefix
  <2> QED BY <2>3, <2>4
<1> QED BY <1>2, <1>3, <1>4 DEF key_node_less

(* The order of the key tree is a strict and total one. *)
LEMMA LessOrder ==
  ASSUME NEW s \in Seq(Nat), NEW t \in Seq(Nat), NEW u \in Seq(Nat)
  PROVE  /\ ~key_node_less(s, s)
         /\ key_node_less(s, t) => ~key_node_less(t, s)
         /\ key_node_less(s, t) /\ key_node_less(t, u) => key_node_less(s, u)
         /\ s # t => key_node_less(s, t) \/ key_node_less(t, s)
<1>0. \A i : At(s, i) \in Int /\ At(t, i) \in Int /\ At(u, i) \in Int
  BY AtFacts
<1>1. ASSUME NEW i, NEW j, LessAt(s, t, i), LessAt(t, u, j)
      PROVE  \E k : LessAt(s, u, k)
  <2>0. /\ i \in Nat \ {0} /\ At(s, i) < At(t, i) /\ \A k \in 1 .. i - 1 : At(s, k) = At(t, k)
        /\ j \in Nat \ {0} /\ At(t, j) < At(u, j) /\ \A k \in 1 .. j - 1 : At(t, k) = At(u, k)
    BY <1>1 DEF LessAt
  <2>1. CASE i <= j
    <3>1. At(s, i) < At(u, i)
      <4>1. CASE i = j
        BY <1>0, <2>0, <4>1
      <4>2. CASE i < j
        <5>1. i \in 1 .. j - 1
          BY <2>0, <4>2
        <5> QED BY <2>0, <5>1
      <4> QED BY <2>0, <2>1, <4>1, <4>2
    <3>2. \A k \in 1 .. i - 1 : k \in 1 .. j - 1
      BY <2>0, <2>1
    <3>3. \A k \in 1 .. i - 1 : At(s, k) = At(u, k)
      BY <2>0, <3>2
    <3> QED BY <2>0, <3>1, <3>3 DEF LessAt
  <2>2. CASE j < i
    <3>1. j \in 1 .. i - 1 /\ \A k \in 1 .. j - 1 : k \in 1 .. i - 1
      BY <2>0, <2>2
    <3>2. At(s, j) < At(u, j)
      BY <2>0, <3>1
    <3>3. \A k \in 1 .. j - 1 : At(s, k) = At(u, k)
      BY <2>0, <3>1
    <3> QED BY <2>0, <3>2, <3>3 DEF LessAt
  <2> QED BY <2>0, <2>1, <2>2
<1>2. \A i : ~LessAt(s, s, i)
  BY <1>0 DEF LessAt
<1>3. ASSUME NEW i, NEW j, LessAt(s, t, i), LessAt(t, s, j) PROVE FALSE
  <2>0. /\ i \in Nat \ {0} /\ At(s, i) < At(t, i) /\ \A k \in 1 .. i - 1 : At(s, k) = At(t, k)
        /\ j \in Nat \ {0} /\ At(t, j) < At(s, j) /\ \A k \in 1 .. j - 1 : At(t, k) = At(s, k)
    BY <1>3 DEF LessAt
  <2>1. i = j \/ i \in 1 .. j - 1 \/ j \in 1 .. i - 1
    BY <2>0
  <2> QED BY <1>0, <2>0, <2>1
<1>4. ASSUME s # t PROVE \E i : LessAt(s, t, i) \/ LessAt(t, s, i)
  <2> DEFINE D == {i \in Nat \ {0} : At(s, i) # At(t, i)}
  <2>1. D # {}
    <3> SUFFICES ASSUME \A i \in Nat \ {0} : At(s, i) = At(t, i) PROVE FALSE
      OBVIOUS
    <3>0. \A i \in Nat \ {0} : At(s, i) = At(t, i)
      OBVIOUS
    <3>1. IsPrefix(s, t) /\ IsPrefix(t, s)
      BY PrefixIs, AtFacts
    <3>2. Len(s) = Len(t)
      BY <3>1, AtFacts DEF IsPrefix
    <3>3. \A i \in 1 .. Len(s) : s[i] = t[i]
      <4> TAKE i \in 1 .. Len(s)
      <4>1. Len(s) \in Nat /\ i \in Nat \ {0} /\ i \in 1 .. Len(t)
        BY <3>2, AtFacts
      <4>2. At(s, i) = s[i] /\ At(t, i) = t[i] /\ At(s, i) = At(t, i)
        BY <3>0, <4>1, AtFacts
      <4> QED BY <4>2
    <3> QED BY <1>4, <3>2, <3>3, SeqEqual
  <2>2. D \in SUBSET Nat
    OBVIOUS
  <2>3. PICK m \in D : \A n \in D : m <= n
    BY <2>1, <2>2, LeastNat
  <2>4. m \in Nat \ {0} /\ At(s, m) # At(t, m)
    OBVIOUS
  <2>5. \A j \in 1 .. m - 1 : At(s, j) = At(t, j)
    <3> SUFFICES ASSUME NEW j \in 1 .. m - 1, At(s, j) # At(t, j) PROVE FALSE
      OBVIOUS
    <3>1. j \in Nat \ {0} /\ ~(m <= j)
      BY <2>4
    <3> QED BY <2>3, <3>1
  <2>6. At(s, m) < At(t, m) \/ At(t, m) < At(s, m)
    BY <1>0, <2>4
  <2> QED BY <2>4, <2>5, <2>6 DEF LessAt
<1> QED BY <1>1, <1>2, <1>3, <1>4, LessIs

(* What begins with the pattern is not below it, and nothing else comes    *)
(* between the first and the last key that does.                           *)
LEMMA PrefixesTogether ==
  ASSUME NEW p \in Seq(Nat), NEW b \in Seq(Nat), NEW c \in Seq(Nat)
  PROVE  /\ IsPrefix(p, b) => ~key_node_less(b, p)
         /\ ~key_node_less(b, p) /\ ~IsPrefix(p, b) /\ key_node_less(b, c) => ~IsPrefix(p, c)
<1>1. ASSUME IsPrefix(p, b), key_node_less(b, p) PROVE FALSE
  <2>1. PICK i : LessAt(b, p, i)
    BY <1>1, LessIs
  <2>2. \A j \in 1 .. Len(p) : At(p, j) = At(b, j)
    BY <1>1, PrefixIs
  <2> QED BY <2>1, <2>2, AtFacts DEF LessAt
<1>2. ASSUME ~key_node_less(b, p), ~IsPrefix(p, b), key_node_less(b, c), IsPrefix(p, c)
      PROVE  FALSE
  <2>1. p # b
    BY <1>2, PrefixIs
  <2>2. PICK i : LessAt(p, b, i)
    BY <1>2, <2>1, LessOrder, LessIs
  <2>3. \A j \in 1 .. Len(p) : At(p, j) = At(c, j)
    BY <1>2, PrefixIs
  <2>4. i \in 1 .. Len(p)
    <3> SUFFICES ASSUME i \notin 1 .. Len(p) PROVE FALSE
      OBVIOUS
    <3>1. Len(p) \in Nat /\ i \in Nat \ {0}
      BY <2>2, AtFacts DEF LessAt
    <3>2. \A j \in 1 .. Len(p) : j \in 1 .. i - 1
      BY <3>1
    <3> QED BY <1>2, <2>2, <3>2, PrefixIs DEF LessAt
  <2>5. \A j \in 1 .. i - 1 : j \in 1 .. Len(p)
    BY <2>4, AtFacts
  <2>6. LessAt(c, b, i)
    BY <2>2, <2>3, <2>4, <2>5 DEF LessAt
  <2> QED BY <1>2, <2>6, LessIs, LessOrder
<1> QED BY <1>1, <1>2
-----------------------------------------------------------------------------
(* Sorted keys *)

Below(S, x) == {y \in S : key_node_less(y, x)}

Sorted(S, s) == /\ s \in [1 .. Cardinality(S) -> S]
                /\ \A i, j \in DOMAIN s : i < j => key_node_less(s[i], s[j])

(* The rank of a key is one more than the number of keys below it. *)
LEMMA RankOrder ==
  ASSUME NEW S, IsFiniteSet(S), S \subseteq Seq(Nat), NEW x \in S
  PROVE  /\ IsFiniteSet(Below(S, x)) /\ Cardinality(Below(S, x)) \in 0 .. Cardinality(S) - 1
         /\ \A y \in S : key_node_less(y, x) => Cardinality(Below(S, y)) < Cardinality(Below(S, x))
<1>1. x \notin Below(S, x) /\ Below(S, x) \subseteq S
  BY LessOrder DEF Below
<1>2. IsFiniteSet(Below(S, x)) /\ Cardinality(Below(S, x)) < Cardinality(S)
      /\ Cardinality(Below(S, x)) \in Nat /\ Cardinality(S) \in Nat
  <2>1. Below(S, x) # S
    BY <1>1
  <2> QED BY <1>1, <2>1, FS_Subset, FS_CardinalityType
<1>3. ASSUME NEW y \in S, key_node_less(y, x)
      PROVE  Cardinality(Below(S, y)) < Cardinality(Below(S, x))
  <2>1. Below(S, y) \subseteq Below(S, x)
    <3> SUFFICES ASSUME NEW z \in S, key_node_less(z, y) PROVE key_node_less(z, x)
      BY DEF Below
    <3>1. z \in Seq(Nat) /\ y \in Seq(Nat) /\ x \in Seq(Nat)
      OBVIOUS
    <3> QED BY <1>3, <3>1, LessOrder
  <2>2. y \in Below(S, x)
    BY <1>3 DEF Below
  <2>3. y \notin Below(S, y)
    <3>1. y \in Seq(Nat)
      OBVIOUS
    <3> QED BY <3>1, LessOrder DEF Below
  <2>4. Below(S, y) # Below(S, x)
    BY <2>2, <2>3
  <2>5. /\ IsFiniteSet(Below(S, y)) /\ Cardinality(Below(S, y)) <= Cardinality(Below(S, x))
        /\ Cardinality(Below(S, y)) # Cardinality(Below(S, x))
    BY <1>2, <2>1, <2>4, FS_Subset
  <2>6. Cardinality(Below(S, y)) \in Nat
    BY <2>5, FS_CardinalityType
  <2> QED BY <1>2, <2>5, <2>6
<1> QED BY <1>2, <1>3

(* Finitely many keys can be listed in the order of the key tree. *)
LEMMA SortedExists ==
  ASSUME NEW S, IsFiniteSet(S), S \subseteq Seq(Nat)
  PROVE  \E s : Sorted(S, s)
<1> DEFINE n == Cardinality(S)
           rank == [x \in S |-> Cardinality(Below(S, x)) + 1]
<1>0. n \in Nat
  BY FS_CardinalityType
<1>1. \A x \in S : rank[x] \in 1 .. n
  BY <1>0, RankOrder
<1>2. ASSUME NEW x \in S, NEW y \in S, key_node_less(x, y)
      PROVE  rank[x] < rank[y]
  <2>1. Cardinality(Below(S, x)) < Cardinality(Below(S, y))
    BY <1>2, RankOrder
  <2>2. Cardinality(Below(S, x)) \in Int /\ Cardinality(Below(S, y)) \in Int
    BY <1>0, RankOrder
  <2> QED BY <2>1, <2>2
<1> HIDE DEF rank
<1>3. ASSUME NEW x \in S, NEW y \in S, x # y
      PROVE  rank[x] # rank[y]
  <2>1. x \in Seq(Nat) /\ y \in Seq(Nat)
    OBVIOUS
  <2>2. key_node_less(x, y) \/ key_node_less(y, x)
    BY <1>3, <2>1, LessOrder
  <2> QED BY <1>1, <1>2, <2>2
<1>4. rank \in Injection(S, 1 .. n)
  <2>1. rank \in [S -> 1 .. n]
    BY <1>1 DEF rank
  <2> QED BY <1>3, <2>1 DEF Injection, IsInjective
<1>5. rank \in Surjection(S, 1 .. n)
  <2>1. IsFiniteSet(1 .. n) /\ Cardinality(1 .. n) = n
    BY <1>0, FS_Interval
  <2> QED BY <1>4, <2>1, FS_Injection
<1>6. \A i \in 1 .. n : \E x \in S : rank[x] = i
  BY <1>5 DEF Surjection
<1> DEFINE s == [i \in 1 .. n |-> CHOOSE x \in S : rank[x] = i]
<1>7. \A i \in 1 .. n : s[i] \in S /\ rank[s[i]] = i
  BY <1>6
<1>8. s \in [1 .. n -> S] /\ DOMAIN s = 1 .. n
  BY <1>7
<1> HIDE DEF s
<1>9. ASSUME NEW i \in 1 .. n, NEW j \in 1 .. n, i < j
      PROVE  key_node_less(s[i], s[j])
  <2>1. s[i] \in S /\ s[j] \in S /\ rank[s[i]] = i /\ rank[s[j]] = j
    BY <1>7
  <2>2. s[i] # s[j]
    BY <1>9, <2>1
  <2>3. s[i] \in Seq(Nat) /\ s[j] \in Seq(Nat)
    BY <2>1
  <2>4. key_node_less(s[i], s[j]) \/ key_node_less(s[j], s[i])
    BY <2>2, <2>3, LessOrder
  <2>5. key_node_less(s[j], s[i]) => j < i
    BY <1>2, <2>1
  <2> QED BY <1>9, <2>4, <2>5
<1>10. \A i, j \in DOMAIN s : i < j => key_node_less(s[i], s[j])
  BY <1>8, <1>9
<1>11. Sorted(S, s)
  BY <1>8, <1>10 DEF Sorted
<1> QED BY <1>11

(* A sorted list has each key once, at its rank. *)
LEMMA SortedFacts ==
  ASSUME NEW S, IsFiniteSet(S), S \subseteq Seq(Nat), NEW s, Sorted(S, s)
  PROVE  /\ Cardinality(S) \in Nat /\ s \in Seq(S) /\ Len(s) = Cardinality(S)
         /\ \A i \in 1 .. Len(s) : s[i] \in S
         /\ \A x \in S : \E i \in 1 .. Len(s) : s[i] = x
         /\ \A i, j \in 1 .. Len(s) : s[i] = s[j] => i = j
         /\ \A i, j \in 1 .. Len(s) : key_node_less(s[i], s[j]) <=> i < j
<1> DEFINE n == Cardinality(S)
<1>0. n \in Nat
  BY FS_CardinalityType
<1>1. /\ s \in [1 .. n -> S] /\ DOMAIN s = 1 .. n
      /\ \A i, j \in 1 .. n : i < j => key_node_less(s[i], s[j])
  BY DEF Sorted
<1>2. s \in Seq(S) /\ Len(s) = n
  BY <1>0, <1>1, FunctionIsSeq
<1>3. \A i \in 1 .. n : s[i] \in S /\ s[i] \in Seq(Nat)
  BY <1>1
<1>4. \A i \in 1 .. n, j \in 1 .. n : i < j => ~key_node_less(s[j], s[i])
  BY <1>1, <1>3, LessOrder
<1>5. \A i \in 1 .. n : ~key_node_less(s[i], s[i])
  BY <1>3, LessOrder
<1>6. \A i \in 1 .. n, j \in 1 .. n : key_node_less(s[i], s[j]) <=> i < j
  <2> TAKE i \in 1 .. n, j \in 1 .. n
  <2>1. i < j \/ i = j \/ j < i
    BY <1>0
  <2>2. i \in Int /\ j \in Int
    BY <1>0
  <2>3. CASE i < j
    BY <1>1, <2>3
  <2>4. CASE i = j
    BY <1>5, <2>2, <2>4
  <2>5. CASE j < i
    BY <1>4, <2>2, <2>5
  <2> QED BY <2>1, <2>3, <2>4, <2>5
<1>7. \A i \in 1 .. n, j \in 1 .. n : s[i] = s[j] => i = j
  <2> SUFFICES ASSUME NEW i \in 1 .. n, NEW j \in 1 .. n, s[i] = s[j], i # j PROVE FALSE
    OBVIOUS
  <2>1. i < j \/ j < i
    BY <1>0
  <2>2. key_node_less(s[i], s[i])
    BY <1>1, <2>1
  <2> QED BY <1>5, <2>2
<1>8. s \in Injection(1 .. n, S)
  BY <1>1, <1>7 DEF Injection, IsInjective
<1>9. s \in Surjection(1 .. n, S)
  <2>1. IsFiniteSet(1 .. n) /\ Cardinality(1 .. n) = n
    BY <1>0, FS_Interval
  <2> QED BY <1>8, <2>1, FS_Injection
<1>10. \A x \in S : \E i \in 1 .. n : s[i] = x
  BY <1>9 DEF Surjection
<1> QED BY <1>0, <1>2, <1>3, <1>6, <1>7, <1>10
-----------------------------------------------------------------------------
(* The search by key *)

(* The first i values of an injective list are i values. *)
LEMMA FirstValues ==
  ASSUME NEW S, NEW s \in Seq(S), NEW m \in 0 .. Len(s),
         \A i, j \in 1 .. Len(s) : s[i] = s[j] => i = j
  PROVE  Cardinality({s[i] : i \in 1 .. m}) = m
<1> DEFINE T == {s[i] : i \in 1 .. m}
           f == [i \in 1 .. m |-> s[i]]
<1>0. Len(s) \in Nat /\ m \in Nat /\ \A i \in 1 .. m : i \in 1 .. Len(s)
  OBVIOUS
<1>1. f \in [1 .. m -> T]
  OBVIOUS
<1>2. f \in Injection(1 .. m, T)
  BY <1>0, <1>1 DEF Injection, IsInjective
<1>3. f \in Surjection(1 .. m, T)
  BY <1>1 DEF Surjection
<1>4. ExistsBijection(1 .. m, T)
  BY <1>2, <1>3 DEF ExistsBijection, Bijection
<1>5. IsFiniteSet(1 .. m) /\ Cardinality(1 .. m) = m
  BY <1>0, FS_Interval
<1> QED BY <1>4, <1>5, FS_Bijection

(* The list that search_in_keys walks ends with the keys that begin with   *)
(* the pattern.                                                            *)
LEMMA EndOfPrefixes ==
  ASSUME NEW nodes, NEW pattern, Len(nodes) \in Nat
  PROVE  \E n \in 0 .. Len(nodes) :
            /\ \A i \in 1 .. n : IsPrefix(pattern, nodes[i])
            /\ n < Len(nodes) => ~IsPrefix(pattern, nodes[n + 1])
<1> DEFINE Bad == {n \in 0 .. Len(nodes) : n < Len(nodes) => ~IsPrefix(pattern, nodes[n + 1])}
<1>1. 0 .. Len(nodes) \subseteq Nat /\ Len(nodes) \in 0 .. Len(nodes)
  OBVIOUS
<1>2. Bad \in SUBSET Nat /\ Bad # {}
  BY <1>1
<1>3. PICK n \in Bad : \A k \in Bad : n <= k
  BY <1>2, LeastNat
<1>4. ASSUME NEW i \in 1 .. n PROVE IsPrefix(pattern, nodes[i])
  <2>1. i - 1 \in 0 .. Len(nodes) /\ ~(n <= i - 1) /\ (i - 1) + 1 = i
    OBVIOUS
  <2>2. i - 1 \notin Bad
    BY <1>3, <2>1
  <2> QED BY <2>1, <2>2
<1> QED BY <1>4

(* A prefix search lists the keys that begin with the pattern, in order.   *)
LEMMA PrefixSearch ==
  ASSUME key_nodes \subseteq Seq(Nat), IsFiniteSet(key_nodes),
         NEW pattern \in Seq(Nat), NEW limit \in Nat \ {0}
  PROVE  LET keys  == {k \in key_nodes : IsPrefix(pattern, k)}
             reply == search_in_keys(pattern, limit)
         IN  /\ Len(reply) = dimension_min(limit, Cardinality(keys))
             /\ \A i \in DOMAIN reply :
                   /\ reply[i] \in keys
                   /\ Cardinality({k \in keys : key_node_less(k, reply[i])}) = i - 1
<1> DEFINE above == {k \in key_nodes : ~key_node_less(k, pattern)}
           nodes == CHOOSE s \in [1 .. Cardinality(above) -> above] :
                       \A i, j \in DOMAIN s : i < j => key_node_less(s[i], s[j])
           end   == CHOOSE n \in 0 .. Len(nodes) :
                       /\ \A i \in 1 .. n : IsPrefix(pattern, nodes[i])
                       /\ n < Len(nodes) => ~IsPrefix(pattern, nodes[n + 1])
           keys  == {k \in key_nodes : IsPrefix(pattern, k)}
           reply == SubSeq(nodes, 1, dimension_min(end, limit))
<1>0. search_in_keys(pattern, limit) = reply
  BY DEF search_in_keys
<1>1. above \subseteq Seq(Nat) /\ IsFiniteSet(above)
  BY FS_Subset
<1>2. Sorted(above, nodes)
  <2>1. \E s : Sorted(above, s)
    <3> HIDE DEF above
    <3> QED BY <1>1, SortedExists
  <2>2. \E s \in [1 .. Cardinality(above) -> above] :
           \A i, j \in DOMAIN s : i < j => key_node_less(s[i], s[j])
    BY <2>1 DEF Sorted
  <2> HIDE DEF above
  <2> QED BY <2>2 DEF Sorted
<1> HIDE DEF nodes
<1>3. /\ nodes \in Seq(above) /\ Len(nodes) \in Nat
      /\ \A i \in 1 .. Len(nodes) : nodes[i] \in above
      /\ \A x \in above : \E i \in 1 .. Len(nodes) : nodes[i] = x
      /\ \A i, j \in 1 .. Len(nodes) : nodes[i] = nodes[j] => i = j
      /\ \A i, j \in 1 .. Len(nodes) : key_node_less(nodes[i], nodes[j]) <=> i < j
  <2> HIDE DEF above
  <2> QED BY <1>1, <1>2, SortedFacts
<1>4. /\ end \in 0 .. Len(nodes)
      /\ \A i \in 1 .. end : IsPrefix(pattern, nodes[i])
      /\ end < Len(nodes) => ~IsPrefix(pattern, nodes[end + 1])
  <2>1. \E n \in 0 .. Len(nodes) :
           /\ \A i \in 1 .. n : IsPrefix(pattern, nodes[i])
           /\ n < Len(nodes) => ~IsPrefix(pattern, nodes[n + 1])
    BY <1>3, EndOfPrefixes
  <2> QED BY <2>1
<1> HIDE DEF end
<1>L. Len(nodes) \in Nat /\ end \in 0 .. Len(nodes) /\ end \in Nat /\ end <= Len(nodes)
  BY <1>3, <1>4
<1>5. \A i \in 1 .. Len(nodes) : /\ nodes[i] \in key_nodes /\ nodes[i] \in Seq(Nat)
                                 /\ ~key_node_less(nodes[i], pattern)
  BY <1>3
<1>6. \A k \in keys : k \in above
  BY PrefixesTogether
<1>7. \A i \in 1 .. Len(nodes) : nodes[i] \in keys <=> i <= end
  <2> TAKE i \in 1 .. Len(nodes)
  <2>1. CASE i <= end
    <3>1. i \in 1 .. end
      BY <1>4, <2>1
    <3> QED BY <1>4, <1>5, <2>1, <3>1
  <2>2. CASE i = end + 1
    <3>1. end < Len(nodes) /\ ~(i <= end)
      BY <1>3, <1>4, <2>2
    <3> QED BY <1>4, <2>2, <3>1
  <2>3. CASE i > end + 1
    <3>1. end + 1 \in 1 .. Len(nodes) /\ end + 1 < i /\ end < Len(nodes) /\ ~(i <= end)
      BY <1>L, <2>3
    <3>2. /\ ~key_node_less(nodes[end + 1], pattern) /\ ~IsPrefix(pattern, nodes[end + 1])
          /\ key_node_less(nodes[end + 1], nodes[i])
          /\ nodes[end + 1] \in Seq(Nat) /\ nodes[i] \in Seq(Nat)
      BY <1>3, <1>4, <1>5, <3>1
    <3>3. ~IsPrefix(pattern, nodes[i])
      BY <3>2, PrefixesTogether
    <3> QED BY <3>1, <3>3
  <2> QED BY <1>3, <1>4, <2>1, <2>2, <2>3
<1>8. keys = {nodes[i] : i \in 1 .. end}
  <2>1. ASSUME NEW k \in keys PROVE k \in {nodes[i] : i \in 1 .. end}
    <3>1. PICK i \in 1 .. Len(nodes) : nodes[i] = k
      BY <1>3, <1>6
    <3>2. i <= end
      BY <1>7, <3>1
    <3>3. i \in 1 .. end
      BY <1>L, <3>2
    <3> QED BY <3>1, <3>3
  <2>2. ASSUME NEW i \in 1 .. end PROVE nodes[i] \in keys
    BY <1>3, <1>4, <1>7
  <2> HIDE DEF keys
  <2> QED BY <2>1, <2>2
<1> HIDE DEF above, keys
<1>9. Cardinality(keys) = end
  BY <1>3, <1>4, <1>8, FirstValues
<1>10. /\ dimension_min(end, limit) \in 0 .. end
       /\ dimension_min(end, limit) = dimension_min(limit, Cardinality(keys))
  BY <1>3, <1>4, <1>9 DEF dimension_min
<1>11. /\ Len(reply) = dimension_min(end, limit) /\ DOMAIN reply = 1 .. dimension_min(end, limit)
       /\ \A i \in 1 .. dimension_min(end, limit) : reply[i] = nodes[i]
  <2>m. PICK m : m = dimension_min(end, limit)
    OBVIOUS
  <2>1. m \in 0 .. Len(nodes) /\ m \in Nat
    BY <1>L, <1>10, <2>m
  <2>2. reply = SubSeq(nodes, 1, m)
    BY <2>m
  <2>3. Len(SubSeq(nodes, 1, m)) = m /\ SubSeq(nodes, 1, m) \in Seq(above)
    BY <1>3, <2>1
  <2>4. \A i \in 1 .. m : SubSeq(nodes, 1, m)[i] = nodes[i]
    BY <1>3, <2>1
  <2> HIDE DEF reply
  <2>5. DOMAIN reply = 1 .. m
    BY <2>2, <2>3
  <2> QED BY <2>2, <2>3, <2>4, <2>5, <2>m
<1> HIDE DEF reply
<1>12. ASSUME NEW i \in 1 .. dimension_min(end, limit)
       PROVE  Cardinality({k \in keys : key_node_less(k, nodes[i])}) = i - 1
  <2>1. i \in 1 .. end /\ i \in 1 .. Len(nodes) /\ i - 1 \in 0 .. Len(nodes)
    BY <1>L, <1>10
  <2>2. {k \in keys : key_node_less(k, nodes[i])} = {nodes[j] : j \in 1 .. i - 1}
    <3>1. ASSUME NEW k \in keys, key_node_less(k, nodes[i])
          PROVE  k \in {nodes[j] : j \in 1 .. i - 1}
      <4>1. PICK j \in 1 .. end : k = nodes[j]
        BY <1>8
      <4>2. j \in 1 .. Len(nodes)
        BY <1>3, <1>4
      <4>3. j < i
        BY <1>3, <2>1, <3>1, <4>1, <4>2
      <4>4. j \in 1 .. i - 1
        BY <1>4, <2>1, <4>3
      <4> QED BY <4>1, <4>4
    <3>2. ASSUME NEW j \in 1 .. i - 1
          PROVE  nodes[j] \in keys /\ key_node_less(nodes[j], nodes[i])
      <4>1. j \in 1 .. end /\ j \in 1 .. Len(nodes) /\ j < i
        BY <1>3, <1>4, <2>1
      <4> QED BY <1>3, <1>8, <2>1, <4>1
    <3> QED BY <3>1, <3>2
  <2> QED BY <1>3, <2>1, <2>2, FirstValues
<1>13. \A i \in DOMAIN reply : reply[i] \in keys
  <2> SUFFICES ASSUME NEW i \in 1 .. dimension_min(end, limit) PROVE nodes[i] \in keys
    BY <1>11
  <2>1. i \in 1 .. end
    BY <1>L, <1>10
  <2> QED BY <1>8, <2>1
<1>14. \A i \in DOMAIN reply : Cardinality({k \in keys : key_node_less(k, reply[i])}) = i - 1
  BY <1>11, <1>12
<1>15. Len(reply) = dimension_min(limit, Cardinality(keys))
  BY <1>10, <1>11
<1> QED BY <1>0, <1>13, <1>14, <1>15 DEF keys

(* A prefix search lists the keys that begin with the prefix, in order; if *)
(* there are more than the limit, the first ones (search_in_keys).         *)
THEOREM KeysFoundByPrefix == Spec => []KeysByPrefix
<1>1. ASSUME TreeInv PROVE KeysByPrefix
  <2>1. IsFiniteSet(Key) /\ Key \subseteq Seq(Nat)
    BY TreeAssumption, KeysAssumption
  <2>2. key_nodes \subseteq Key
    BY <1>1 DEF TreeInv
  <2>3. key_nodes \subseteq Seq(Nat) /\ IsFiniteSet(key_nodes)
    BY <2>1, <2>2, FS_Subset
  <2>4. ASSUME NEW pattern \in Patterns, NEW limit \in Limits
        PROVE  LET keys  == {k \in key_nodes : IsPrefix(pattern, k)}
                   reply == search_in_keys(pattern, limit)
               IN  /\ Len(reply) = dimension_min(limit, Cardinality(keys))
                   /\ \A i \in DOMAIN reply :
                         /\ reply[i] \in keys
                         /\ Cardinality({k \in keys : key_node_less(k, reply[i])}) = i - 1
    <3>1. pattern \in Seq(Nat) /\ limit \in Nat \ {0}
      BY QueriesAssumption
    <3> QED BY <2>3, <3>1, PrefixSearch
  <2> QED BY <2>4 DEF KeysByPrefix
<1> QED BY <1>1, TreeInvariant, PTL
-----------------------------------------------------------------------------
(* What a search reads of the tree *)

(* What the searches rely on: the nodes are a tree, each bucket holds the  *)
(* slots of its keys, and each quad counts those below it.                 *)
Searchable ==
    /\ Shape(tree.quads, DOMAIN tree.buckets)
    /\ tree.slot \in [Key -> DOMAIN tree.buckets \cup {NoBucket}]
    /\ \A k \in Key : HasSlot(k) => /\ tree.slot[k] \in DOMAIN tree.buckets
                                    /\ PositionOf(k) \in Point
                                    /\ position_is_in_rect(PositionOf(k), tree.slot[k])
    /\ \A b \in DOMAIN tree.buckets :
          tree.buckets[b].slots = {Slot(k, PositionOf(k)) : k \in KeysAt(tree.slot, b)}
    /\ \A q \in tree.quads : tree.sub_slots[q] = Cardinality(KeysBelow(tree.slot, q))

(* The slabs that the searches read leave the tree to its own steps.       *)
LEMMA SearchedTree == SearchSpec => []TreeInv
<1>1. SearchInit => Init
  BY DEF SearchInit
<1>2. [SearchNext]_<<vars, unlisted>> => [Next]_vars
  BY DEF SearchNext
<1>3. SearchSpec => Spec
  BY <1>1, <1>2, PTL DEF SearchSpec, Spec
<1> QED BY <1>3, TreeInvariant

(* The tree can be searched at any time. *)
LEMMA TreeSearchable == ASSUME TreeInv PROVE Searchable
<1>1. PICK Q, B, slot, pos : Holds(tree, Q, B, slot, pos)
  BY DEF TreeInv
<1>2. /\ Shape(Q, B) /\ Settled(B, slot, pos)
      /\ tree.quads = Q /\ tree.slot = slot /\ DOMAIN tree.buckets = B
      /\ \A q \in Q : tree.sub_slots[q] = Cardinality(KeysBelow(slot, q))
      /\ \A b \in B : tree.buckets[b].slots = {Slot(k, pos[k]) : k \in KeysAt(slot, b)}
  BY <1>1, Parts
<1>3. tree = TreeOf(Q, B, slot, pos, NoBucket)
  BY <1>1 DEF Holds
<1>4. slot \in [Key -> B \cup {NoBucket}] /\ pos \in [Key -> Point]
  BY <1>2 DEF Settled
<1>5. ASSUME NEW k \in Key, slot[k] \in B
      PROVE  PositionOf(k) = pos[k]
  <2>1. SlotOf(tree, k) = Slot(k, pos[k])
    BY <1>3, <1>5, SlotOfIs
  <2> QED BY <2>1, SlotFacts DEF PositionOf
<1>6. ASSUME NEW k \in Key, HasSlot(k)
      PROVE  /\ tree.slot[k] \in B /\ PositionOf(k) \in Point
             /\ position_is_in_rect(PositionOf(k), tree.slot[k])
  <2>1. slot[k] # NoBucket /\ slot[k] \in B
    BY <1>2, <1>4, <1>6 DEF HasSlot
  <2>2. position_is_in_rect(pos[k], slot[k]) /\ pos[k] \in Point
    BY <1>2, <1>4, <2>1 DEF Settled
  <2> QED BY <1>2, <1>5, <2>1, <2>2
<1>7. ASSUME NEW b \in B
      PROVE  tree.buckets[b].slots = {Slot(k, PositionOf(k)) : k \in KeysAt(tree.slot, b)}
  <2>1. \A k \in KeysAt(slot, b) : PositionOf(k) = pos[k]
    BY <1>5 DEF KeysAt
  <2>2. {Slot(k, PositionOf(k)) : k \in KeysAt(slot, b)} = {Slot(k, pos[k]) : k \in KeysAt(slot, b)}
    BY <2>1
  <2> QED BY <1>2, <2>2
<1> QED BY <1>2, <1>4, <1>6, <1>7 DEF Searchable

(* A bucket is inside a node or apart from it. *)
LEMMA BucketAndNode ==
  ASSUME Searchable, NEW b \in DOMAIN tree.buckets, NEW n \in tree.quads \cup DOMAIN tree.buckets
  PROVE  /\ IsNode(b) /\ IsNode(n)
         /\ In(b, n) <=> ~Apart(b, n)
         /\ n \in DOMAIN tree.buckets => (In(b, n) <=> b = n)
<1> DEFINE Q == tree.quads
           B == DOMAIN tree.buckets
<1>0. Shape(Q, B)
  BY DEF Searchable
<1>1. IsNode(b) /\ IsNode(n) /\ b \notin Q /\ Nested(Q, b, n) /\ (n \in Q => Large(n))
  BY <1>0 DEF Shape
<1>2. In(b, n) => ~Apart(b, n)
  BY <1>1, Nesting
<1>3. ASSUME ~Apart(b, n), n \in Q PROVE In(b, n)
  <2>1. Under(b, n)
    BY <1>0, <1>3, BucketUnder
  <2> QED BY <1>1, <1>3, <2>1, UnderFacts
<1>4. ASSUME ~Apart(b, n), n \in B PROVE b = n
  <2>1. n \notin Q
    BY <1>0, <1>4 DEF Shape
  <2> QED BY <1>1, <1>4, <2>1 DEF Nested
<1>5. In(b, b)
  BY <1>1, Nesting
<1> QED BY <1>1, <1>2, <1>3, <1>4, <1>5

(* The children of a quad hold all its buckets between them. *)
LEMMA BucketsOfChildren ==
  ASSUME Searchable, NEW b \in DOMAIN tree.buckets, NEW q \in tree.quads
  PROVE  In(b, q) <=> \E c \in Children(q) : In(b, c)
<1> DEFINE Q == tree.quads
           B == DOMAIN tree.buckets
<1>0. Shape(Q, B)
  BY DEF Searchable
<1>1. IsNode(b) /\ IsNode(q) /\ Large(q)
  BY <1>0 DEF Shape
<1>2. ASSUME In(b, q) PROVE \E c \in Children(q) : In(b, c)
  <2>1. ~Apart(b, q)
    BY <1>1, <1>2, Nesting
  <2>2. Under(b, q)
    BY <1>0, <2>1, BucketUnder
  <2> QED BY <2>2 DEF Under
<1>3. ASSUME NEW c \in Children(q), In(b, c) PROVE In(b, q)
  <2>1. IsNode(c) /\ In(c, q)
    BY <1>1, ChildFacts
  <2> QED BY <1>1, <1>3, <2>1, Nesting
<1> QED BY <1>2, <1>3

(* A node around one that touches a zone touches it. *)
LEMMA TouchesAround ==
  ASSUME NEW a, NEW b, IsNode(a), IsNode(b), In(a, b), NEW zone \in Rectangles,
         rectangle2d_intersect(a, zone)
  PROVE  rectangle2d_intersect(b, zone)
<1>1. /\ zone.edge0.latitude \in Int /\ zone.edge0.longitude \in Int
      /\ zone.edge1.latitude \in Int /\ zone.edge1.longitude \in Int
  BY DEF Rectangles, Point
<1> QED BY <1>1, NodeFacts DEF In, rectangle2d_intersect
-----------------------------------------------------------------------------
(* What a walk has done *)

(* The keys that the walk of a zone reports when it is not cut short. *)
Visible(search, zone, k) ==
    /\ HasSlot(k) /\ k \notin unlisted /\ rectangle2d_intersect(tree.slot[k], zone)
    /\ Matches(search, zone, Slot(k, PositionOf(k)))

VisibleKeys(search, zone) == {k \in Key : Visible(search, zone, k)}

(* Below one of the nodes R. *)
Beneath(R, k) == HasSlot(k) /\ \E r \in R : In(tree.slot[k], r)

CellsOf(w) == {w.clusters[i].cell : i \in 1 .. Len(w.clusters)}

Seen(search, zone, C, R) ==
    {k \in Key : Visible(search, zone, k) /\ ~Beneath(R, k) /\ ~Beneath(C, k)}

(* The matching slots of a bucket are those of its visible keys. *)
LEMMA HitsOfBucket ==
  ASSUME Searchable, NEW search, NEW zone, NEW b \in DOMAIN tree.buckets,
         rectangle2d_intersect(b, zone)
  PROVE  LET hits == {s \in tree.buckets[b].slots :
                         s.key \notin unlisted /\ Matches(search, zone, s)}
             H == {k \in KeysAt(tree.slot, b) : Visible(search, zone, k)}
         IN  /\ IsFiniteSet(H) /\ Cardinality(H) \in Nat /\ Cardinality(hits) = Cardinality(H)
             /\ \A k \in Key : (\E s \in hits : s.key = k) <=> k \in H
<1> DEFINE hits == {s \in tree.buckets[b].slots :
                       s.key \notin unlisted /\ Matches(search, zone, s)}
           H == {k \in KeysAt(tree.slot, b) : Visible(search, zone, k)}
           S(k) == Slot(k, PositionOf(k))
<1>1. b # NoBucket
  BY NotANode DEF Searchable, Shape
<1>2. \A k \in KeysAt(tree.slot, b) : k \in Key /\ HasSlot(k) /\ tree.slot[k] = b
  BY <1>1 DEF KeysAt, HasSlot
<1>3. \A k \in KeysAt(tree.slot, b) :
         Visible(search, zone, k) <=> k \notin unlisted /\ Matches(search, zone, S(k))
  BY <1>2 DEF Visible
<1>4. tree.buckets[b].slots = {S(k) : k \in KeysAt(tree.slot, b)}
  BY DEF Searchable
<1>6. \A k : S(k).key = k
  BY SlotFacts
<1>5. hits = {S(k) : k \in H}
  <2>1. hits = {s \in {S(k) : k \in KeysAt(tree.slot, b)} :
                  s.key \notin unlisted /\ Matches(search, zone, s)}
    BY <1>4
  <2> HIDE DEF hits, S
  <2> QED BY <1>3, <1>6, <2>1
<1> HIDE DEF hits
<1>7. H \in SUBSET Key
  BY <1>2
<1>8. IsFiniteSet(H) /\ Cardinality(H) \in Nat
  <2>1. IsFiniteSet(Key)
    BY TreeAssumption
  <2> HIDE DEF H
  <2> QED BY <1>7, <2>1, FS_Subset, FS_CardinalityType
<1> HIDE DEF H
<1>9. ASSUME NEW k \in Key PROVE (\E s \in hits : s.key = k) <=> k \in H
  BY <1>5, <1>6
<1>10. Cardinality(hits) = Cardinality(H)
  <2>1. Cardinality({Slot(k, PositionOf(k)) : k \in H}) = Cardinality(H)
    <3> DEFINE pos == [k \in Key |-> PositionOf(k)]
    <3>1. {Slot(k, PositionOf(k)) : k \in H} = {Slot(k, pos[k]) : k \in H}
      BY <1>7
    <3> HIDE DEF pos
    <3> QED BY <1>7, <3>1, SlotsOfKeys
  <2> QED BY <1>5, <2>1
<1> QED BY <1>8, <1>9, <1>10 DEF hits, H
-----------------------------------------------------------------------------
(* The state of a walk *)

Nodes == tree.quads \cup DOMAIN tree.buckets

WalkState == [ret : {0, 1}, limit : Int, stack : Seq(tree.quads),
              clusters : Seq([cell : tree.quads, children : Nat]), found : [Key -> Nat]]

(* The nodes on the stack, and those of the quad in hand. *)
Pending(w, X) == {w.stack[i] : i \in 1 .. Len(w.stack)} \cup X

(* No place is pending, or a cluster, twice; the quads P may still come. *)
Placed(search, w, X, P) ==
    /\ X \subseteq Nodes
    /\ \A i, j \in 1 .. Len(w.stack) : i # j => Apart(w.stack[i], w.stack[j])
    /\ \A i \in 1 .. Len(w.stack), x \in X : Apart(w.stack[i], x)
    /\ \A x, y \in X : x # y => Apart(x, y)
    /\ \A q \in tree.quads, r \in Pending(w, X) : In(q, r) => q \in P
    /\ \A i, j \in 1 .. Len(w.clusters) : i # j => Apart(w.clusters[i].cell, w.clusters[j].cell)
    /\ \A i \in 1 .. Len(w.clusters), r \in Pending(w, X) : Apart(w.clusters[i].cell, r)
    /\ \A i \in 1 .. Len(w.clusters) :
          /\ w.clusters[i].children = tree.sub_slots[w.clusters[i].cell]
          /\ search.epsilon > 0 /\ Height(w.clusters[i].cell) < search.epsilon

(* The keys G are reported. *)
Tallied(search, w0, w, G) ==
    /\ w.limit = search.limit - Cardinality(G) - Len(w.clusters)
    /\ \A k \in Key : w.found[k] = IF k \in G THEN w0.found[k] + 1 ELSE w0.found[k]
    /\ search.near => w.limit >= 1

Walking(search, zone, w0, w, X, P) ==
    /\ w \in WalkState /\ w.ret = 0
    /\ Placed(search, w, X, P)
    /\ Tallied(search, w0, w, Seen(search, zone, CellsOf(w), Pending(w, X)))

Overflown(search, zone) ==
    search.epsilon <= 0 => IF search.near
                           THEN Cardinality(VisibleKeys(search, zone)) >= search.limit
                           ELSE Cardinality(VisibleKeys(search, zone)) > search.limit

Progress(search, zone, w0, w, X, P) ==
    \/ Walking(search, zone, w0, w, X, P)
    \/ w \in WalkState /\ w.ret = 1 /\ Overflown(search, zone)

IsSearch(search) == search.limit \in Nat \ {0} /\ search.epsilon \in Int /\ search.near \in BOOLEAN

(* A sequence with one more element. *)
LEMMA Appended ==
  ASSUME NEW S, NEW s \in Seq(S), NEW x \in S, NEW t, t = Append(s, x)
  PROVE  /\ Len(s) \in Nat /\ t \in Seq(S) /\ Len(t) = Len(s) + 1
         /\ \A i \in 1 .. Len(s) : t[i] = s[i]
         /\ t[Len(s) + 1] = x
  BY AppendProperties

(* The state of a walk, by its parts. *)
LEMMA StateParts ==
  ASSUME NEW w \in WalkState
  PROVE  /\ w.ret \in {0, 1} /\ w.limit \in Int /\ w.stack \in Seq(tree.quads)
         /\ w.clusters \in Seq([cell : tree.quads, children : Nat]) /\ w.found \in [Key -> Nat]
<1> DEFINE S == Seq(tree.quads)
           C == Seq([cell : tree.quads, children : Nat])
           F == [Key -> Nat]
<1>1. w \in [ret : {0, 1}, limit : Int, stack : S, clusters : C, found : F]
  BY DEF WalkState
<1> HIDE DEF S, C, F
<1>2. w.ret \in {0, 1} /\ w.limit \in Int /\ w.stack \in S /\ w.clusters \in C /\ w.found \in F
  BY <1>1
<1> QED BY <1>2 DEF S, C, F

(* A walk with another stack. *)
LEMMA WithStack ==
  ASSUME NEW w \in WalkState, NEW stack \in Seq(tree.quads),
         NEW v, v = [w EXCEPT !.stack = stack]
  PROVE  /\ v \in WalkState
         /\ v.ret = w.ret /\ v.limit = w.limit /\ v.stack = stack /\ v.clusters = w.clusters /\ v.found = w.found
<1> DEFINE S == Seq(tree.quads)
           C == Seq([cell : tree.quads, children : Nat])
           F == [Key -> Nat]
<1>1. w \in [ret : {0, 1}, limit : Int, stack : S, clusters : C, found : F]
  BY DEF WalkState
<1>2. stack \in S
  OBVIOUS
<1> HIDE DEF S, C, F
<1>3. v \in [ret : {0, 1}, limit : Int, stack : S, clusters : C, found : F]
  BY <1>1, <1>2
<1>4. v.ret = w.ret /\ v.limit = w.limit /\ v.stack = stack /\ v.clusters = w.clusters /\ v.found = w.found
  BY <1>1, <1>2
<1> QED BY <1>3, <1>4 DEF S, C, F, WalkState

RenewedClusters(w, v, ret, limit, clusters) ==
    /\ w \in WalkState /\ ret \in {0, 1} /\ limit \in Int /\ clusters \in Seq([cell : tree.quads, children : Nat])
    /\ v = [w EXCEPT !.ret = ret, !.limit = limit, !.clusters = clusters]

(* A walk with another cluster. *)
LEMMA WithClusters ==
  ASSUME NEW w, NEW ret, NEW limit, NEW clusters, NEW v, RenewedClusters(w, v, ret, limit, clusters)
  PROVE  /\ v \in WalkState
         /\ v.ret = ret /\ v.limit = limit /\ v.stack = w.stack /\ v.clusters = clusters /\ v.found = w.found
<1> DEFINE S == Seq(tree.quads)
           C == Seq([cell : tree.quads, children : Nat])
           F == [Key -> Nat]
<1>1. w \in [ret : {0, 1}, limit : Int, stack : S, clusters : C, found : F]
  BY DEF WalkState, RenewedClusters
<1>2. ret \in {0, 1} /\ limit \in Int /\ clusters \in C
  BY DEF RenewedClusters
<1> HIDE DEF S, C, F
<1>3. v \in [ret : {0, 1}, limit : Int, stack : S, clusters : C, found : F]
  BY <1>1, <1>2 DEF RenewedClusters
<1>4. v.ret = ret /\ v.limit = limit /\ v.stack = w.stack /\ v.clusters = clusters /\ v.found = w.found
  BY <1>1, <1>2 DEF RenewedClusters
<1> QED BY <1>3, <1>4 DEF S, C, F, WalkState

RenewedFound(w, v, ret, limit, found) ==
    /\ w \in WalkState /\ ret \in {0, 1} /\ limit \in Int /\ found \in [Key -> Nat]
    /\ v = [w EXCEPT !.ret = ret, !.limit = limit, !.found = found]

(* A walk with more keys. *)
LEMMA WithFound ==
  ASSUME NEW w, NEW ret, NEW limit, NEW found, NEW v, RenewedFound(w, v, ret, limit, found)
  PROVE  /\ v \in WalkState
         /\ v.ret = ret /\ v.limit = limit /\ v.stack = w.stack /\ v.clusters = w.clusters /\ v.found = found
<1> DEFINE S == Seq(tree.quads)
           C == Seq([cell : tree.quads, children : Nat])
           F == [Key -> Nat]
<1>1. w \in [ret : {0, 1}, limit : Int, stack : S, clusters : C, found : F]
  BY DEF WalkState, RenewedFound
<1>2. ret \in {0, 1} /\ limit \in Int /\ found \in F
  BY DEF RenewedFound
<1> HIDE DEF S, C, F
<1>3. v \in [ret : {0, 1}, limit : Int, stack : S, clusters : C, found : F]
  BY <1>1, <1>2 DEF RenewedFound
<1>4. v.ret = ret /\ v.limit = limit /\ v.stack = w.stack /\ v.clusters = w.clusters /\ v.found = found
  BY <1>1, <1>2 DEF RenewedFound
<1> QED BY <1>3, <1>4 DEF S, C, F, WalkState

RenewedLimit(w, v, limit, stack) ==
    /\ w \in WalkState /\ limit \in Int /\ stack \in Seq(tree.quads)
    /\ v = [w EXCEPT !.limit = limit, !.stack = stack]

(* A walk that starts. *)
LEMMA WithLimit ==
  ASSUME NEW w, NEW limit, NEW stack, NEW v, RenewedLimit(w, v, limit, stack)
  PROVE  /\ v \in WalkState
         /\ v.ret = w.ret /\ v.limit = limit /\ v.stack = stack /\ v.clusters = w.clusters /\ v.found = w.found
<1> DEFINE S == Seq(tree.quads)
           C == Seq([cell : tree.quads, children : Nat])
           F == [Key -> Nat]
<1>1. w \in [ret : {0, 1}, limit : Int, stack : S, clusters : C, found : F]
  BY DEF WalkState, RenewedLimit
<1>2. limit \in Int /\ stack \in S
  BY DEF RenewedLimit
<1> HIDE DEF S, C, F
<1>3. v \in [ret : {0, 1}, limit : Int, stack : S, clusters : C, found : F]
  BY <1>1, <1>2 DEF RenewedLimit
<1>4. v.ret = w.ret /\ v.limit = limit /\ v.stack = stack /\ v.clusters = w.clusters /\ v.found = w.found
  BY <1>1, <1>2 DEF RenewedLimit
<1> QED BY <1>3, <1>4 DEF S, C, F, WalkState

(* Reported keys are visible ones, and finitely many. *)
LEMMA SeenFinite ==
  ASSUME NEW search, NEW zone, NEW C, NEW R
  PROVE  LET G == Seen(search, zone, C, R)
             V == VisibleKeys(search, zone)
         IN  /\ G \subseteq V /\ IsFiniteSet(G) /\ IsFiniteSet(V)
             /\ Cardinality(G) \in Nat /\ Cardinality(V) \in Nat /\ Cardinality(G) <= Cardinality(V)
<1> DEFINE G == Seen(search, zone, C, R)
           V == VisibleKeys(search, zone)
<1>1. G \subseteq V /\ V \subseteq Key /\ IsFiniteSet(Key)
  BY TreeAssumption DEF Seen, VisibleKeys
<1> HIDE DEF G, V
<1>2. IsFiniteSet(V) /\ IsFiniteSet(G) /\ Cardinality(G) <= Cardinality(V)
  BY <1>1, FS_Subset
<1>3. Cardinality(V) \in Nat /\ Cardinality(G) \in Nat
  BY <1>2, FS_CardinalityType
<1> QED BY <1>1, <1>2, <1>3 DEF G, V

(* The node in hand is apart from all others. *)
SetApart(w, X, P, c) ==
    /\ Pending(w, X \cup {c}) = Pending(w, X) \cup {c}
    /\ \A r \in Pending(w, X) : r \in Nodes /\ IsNode(r) /\ Apart(r, c) /\ Apart(c, r)
    /\ \A r \in CellsOf(w) : r \in Nodes /\ IsNode(r) /\ Apart(r, c) /\ Apart(c, r)
    /\ \A i \in 1 .. Len(w.stack) : Apart(w.stack[i], c)
    /\ \A i \in 1 .. Len(w.clusters) : Apart(w.clusters[i].cell, c)
    /\ \A x \in X : Apart(c, x) /\ Apart(x, c)
    /\ \A q \in tree.quads : In(q, c) => q \in P

(* What is pending without one of the nodes in hand. *)
LEMMA OneLess ==
  ASSUME Searchable, NEW search, NEW w, NEW X, NEW P, NEW c \in Nodes, c \notin X,
         w.stack \in Seq(tree.quads), w.clusters \in Seq([cell : tree.quads, children : Nat]),
         Placed(search, w, X \cup {c}, P)
  PROVE  Placed(search, w, X, P) /\ SetApart(w, X, P, c)
<1> DEFINE X1 == X \cup {c}
<1>0. /\ X1 \subseteq Nodes
      /\ \A i, j \in 1 .. Len(w.stack) : i # j => Apart(w.stack[i], w.stack[j])
      /\ \A i \in 1 .. Len(w.stack), x \in X1 : Apart(w.stack[i], x)
      /\ \A x, y \in X1 : x # y => Apart(x, y)
      /\ \A q \in tree.quads, r \in Pending(w, X1) : In(q, r) => q \in P
      /\ \A i, j \in 1 .. Len(w.clusters) : i # j => Apart(w.clusters[i].cell, w.clusters[j].cell)
      /\ \A i \in 1 .. Len(w.clusters), r \in Pending(w, X1) : Apart(w.clusters[i].cell, r)
      /\ \A i \in 1 .. Len(w.clusters) :
            /\ w.clusters[i].children = tree.sub_slots[w.clusters[i].cell]
            /\ search.epsilon > 0 /\ Height(w.clusters[i].cell) < search.epsilon
  BY DEF Placed
<1>1. Pending(w, X1) = Pending(w, X) \cup {c}
  BY DEF Pending
<1>2. Placed(search, w, X, P)
  <2>1. X \subseteq X1 /\ Pending(w, X) \subseteq Pending(w, X1)
    BY <1>1
  <2> HIDE DEF X1
  <2> QED BY <1>0, <2>1 DEF Placed
<1>3. \A n \in Nodes : IsNode(n)
  BY DEF Searchable, Shape, Nodes
<1>4. \A i \in 1 .. Len(w.stack) : w.stack[i] \in tree.quads
  OBVIOUS
<1>5. \A i \in 1 .. Len(w.clusters) : w.clusters[i].cell \in tree.quads
  <2> DEFINE T == [cell : tree.quads, children : Nat]
             s == w.clusters
  <2>1. s \in Seq(T)
    OBVIOUS
  <2> HIDE DEF s, T
  <2>2. \A i \in 1 .. Len(s) : s[i] \in T
    BY <2>1
  <2> QED BY <2>2 DEF s, T
<1>6. ASSUME NEW r \in Pending(w, X)
      PROVE  r \in Nodes /\ Apart(r, c)
  <2>1. CASE r \in X
    <3>1. r # c /\ r \in X1 /\ c \in X1
      BY <2>1
    <3> QED BY <1>0, <3>1
  <2>2. CASE r \notin X
    <3>1. PICK i \in 1 .. Len(w.stack) : r = w.stack[i]
      BY <2>2 DEF Pending
    <3>2. r \in tree.quads /\ Apart(w.stack[i], c)
      BY <1>0, <1>4, <3>1
    <3> QED BY <3>1, <3>2 DEF Nodes
  <2> QED BY <2>1, <2>2
<1>7. ASSUME NEW r \in CellsOf(w)
      PROVE  r \in Nodes /\ Apart(r, c)
  <2>1. PICK i \in 1 .. Len(w.clusters) : r = w.clusters[i].cell
    BY DEF CellsOf
  <2>2. c \in Pending(w, X1)
    BY <1>1
  <2>3. r \in tree.quads /\ Apart(w.clusters[i].cell, c)
    BY <1>0, <1>5, <2>1, <2>2
  <2> QED BY <2>1, <2>3 DEF Nodes
<1>8. \A r : Apart(r, c) => Apart(c, r)
  BY DEF Apart
<1>9. \A x \in X : x \in Pending(w, X)
  BY DEF Pending
<1>10. c \in Pending(w, X1) /\ c \in X1
  BY <1>1
<1> QED BY <1>0, <1>1, <1>2, <1>3, <1>6, <1>7, <1>8, <1>9, <1>10 DEF SetApart

(* A node that does not touch the zone holds nothing to report. *)
LEMMA SeenPast ==
  ASSUME Searchable, NEW search, NEW zone \in Rectangles, NEW C, NEW R,
         NEW c \in Nodes, ~rectangle2d_intersect(c, zone)
  PROVE  Seen(search, zone, C, R \cup {c}) = Seen(search, zone, C, R)
<1>1. ASSUME NEW k \in Key, Visible(search, zone, k), In(tree.slot[k], c) PROVE FALSE
  <2>1. tree.slot[k] \in DOMAIN tree.buckets
    BY <1>1 DEF Visible, Searchable
  <2>2. IsNode(tree.slot[k]) /\ IsNode(c)
    BY <2>1, BucketAndNode DEF Nodes
  <2>3. rectangle2d_intersect(tree.slot[k], zone)
    BY <1>1 DEF Visible
  <2> QED BY <1>1, <2>2, <2>3, TouchesAround
<1>2. \A k \in Key : Visible(search, zone, k) => (Beneath(R \cup {c}, k) <=> Beneath(R, k))
  BY <1>1 DEF Beneath
<1> QED BY <1>2 DEF Seen

(* The node c, of R2, is in C2 and not pending. *)
Regrouped(C, R, c, C2, R2) == R2 = R \cup {c} /\ C2 = C \cup {c}

(* A node that becomes a cluster changes nothing for the others. *)
LEMMA SeenGrouped ==
  ASSUME NEW search, NEW zone, NEW C, NEW R, NEW c, NEW C2, NEW R2,
         Regrouped(C, R, c, C2, R2)
  PROVE  Seen(search, zone, C, R2) = Seen(search, zone, C2, R)
<1>1. \A k \in Key : /\ Beneath(R2, k) <=> Beneath(R, k) \/ Beneath({c}, k)
                     /\ Beneath(C2, k) <=> Beneath(C, k) \/ Beneath({c}, k)
  BY DEF Beneath, Regrouped
<1> QED BY <1>1 DEF Seen

(* A bucket adds its visible keys. *)
LEMMA SeenBucket ==
  ASSUME Searchable, NEW search, NEW zone, NEW C, NEW R, NEW b \in DOMAIN tree.buckets,
         \A r \in R \cup C : r \in Nodes /\ Apart(b, r)
  PROVE  LET H == {k \in KeysAt(tree.slot, b) : Visible(search, zone, k)}
         IN  /\ Seen(search, zone, C, R) = Seen(search, zone, C, R \cup {b}) \cup H
             /\ Seen(search, zone, C, R \cup {b}) \cap H = {}
<1> DEFINE H == {k \in KeysAt(tree.slot, b) : Visible(search, zone, k)}
<1>1. b # NoBucket
  BY NotANode DEF Searchable, Shape
<1>2. \A k \in Key : Beneath({b}, k) <=> k \in KeysAt(tree.slot, b)
  <2> TAKE k \in Key
  <2>1. CASE HasSlot(k)
    <3>1. tree.slot[k] \in DOMAIN tree.buckets
      BY <2>1 DEF Searchable
    <3>2. In(tree.slot[k], b) <=> tree.slot[k] = b
      BY <3>1, BucketAndNode DEF Nodes
    <3> QED BY <2>1, <3>2 DEF Beneath, KeysAt
  <2>2. CASE ~HasSlot(k)
    BY <1>1, <2>2 DEF Beneath, KeysAt, HasSlot
  <2> QED BY <2>1, <2>2
<1>3. \A r \in R \cup C : ~In(b, r)
  <2> TAKE r \in R \cup C
  <2>1. r \in tree.quads \cup DOMAIN tree.buckets /\ Apart(b, r)
    BY DEF Nodes
  <2> QED BY <2>1, BucketAndNode
<1>4. \A k \in KeysAt(tree.slot, b) : ~Beneath(R, k) /\ ~Beneath(C, k)
  BY <1>3 DEF KeysAt, Beneath
<1>5. \A k \in Key : Beneath(R \cup {b}, k) <=> Beneath(R, k) \/ Beneath({b}, k)
  BY DEF Beneath
<1>6. KeysAt(tree.slot, b) \subseteq Key
  BY DEF KeysAt
<1>7. \A k : k \in Seen(search, zone, C, R) <=> k \in Seen(search, zone, C, R \cup {b}) \cup H
  BY <1>2, <1>4, <1>5, <1>6 DEF Seen
<1>8. \A k \in H : k \notin Seen(search, zone, C, R \cup {b})
  BY <1>2, <1>5, <1>6 DEF Seen
<1> QED BY <1>7, <1>8
-----------------------------------------------------------------------------
(* A child is passed by, pushed or becomes a cluster *)

(* The walk goes past a node that does not touch the zone. *)
LEMMA VisitPast ==
  ASSUME Searchable, NEW search, NEW zone \in Rectangles, NEW w0, NEW w, NEW X, NEW P,
         NEW c \in Nodes, c \notin X, Walking(search, zone, w0, w, X \cup {c}, P),
         ~rectangle2d_intersect(c, zone)
  PROVE  Walking(search, zone, w0, w, X, P)
<1>1. /\ w \in WalkState /\ w.ret = 0 /\ Placed(search, w, X \cup {c}, P)
      /\ Tallied(search, w0, w, Seen(search, zone, CellsOf(w), Pending(w, X \cup {c})))
  BY DEF Walking
<1>2. w.stack \in Seq(tree.quads) /\ w.clusters \in Seq([cell : tree.quads, children : Nat])
  BY <1>1, StateParts
<1>3. Placed(search, w, X, P) /\ Pending(w, X \cup {c}) = Pending(w, X) \cup {c}
  <2>1. Placed(search, w, X, P) /\ SetApart(w, X, P, c)
    BY <1>1, <1>2, OneLess
  <2> QED BY <2>1 DEF SetApart
<1>4. Seen(search, zone, CellsOf(w), Pending(w, X \cup {c})) = Seen(search, zone, CellsOf(w), Pending(w, X))
  BY <1>3, SeenPast
<1> QED BY <1>1, <1>3, <1>4 DEF Walking

(* A quad is put on the stack. *)
LEMMA VisitPush ==
  ASSUME Searchable, NEW search, NEW zone, NEW w0, NEW w, NEW X, NEW P,
         NEW c \in tree.quads, c \notin X, Walking(search, zone, w0, w, X \cup {c}, P)
  PROVE  Walking(search, zone, w0, [w EXCEPT !.stack = Append(@, c)], X, P)
<1> DEFINE v == [w EXCEPT !.stack = Append(@, c)]
           s == w.stack
           t == Append(s, c)
<1>1. /\ w \in WalkState /\ w.ret = 0 /\ Placed(search, w, X \cup {c}, P)
      /\ Tallied(search, w0, w, Seen(search, zone, CellsOf(w), Pending(w, X \cup {c})))
  BY DEF Walking
<1>2. s \in Seq(tree.quads) /\ w.clusters \in Seq([cell : tree.quads, children : Nat])
  BY <1>1, StateParts
<1>3. /\ Len(s) \in Nat /\ t \in Seq(tree.quads) /\ Len(t) = Len(s) + 1
      /\ \A i \in 1 .. Len(s) : t[i] = s[i]
      /\ t[Len(s) + 1] = c
  <2>1. t = Append(s, c)
    OBVIOUS
  <2> HIDE DEF s, t
  <2> QED BY <1>2, <2>1, Appended
<1>4. /\ v \in WalkState /\ v.ret = w.ret /\ v.limit = w.limit /\ v.stack = t
      /\ v.clusters = w.clusters /\ v.found = w.found
  <2> HIDE DEF t
  <2> QED BY <1>1, <1>3, WithStack
<1> HIDE DEF v, t
<1>5. /\ Placed(search, w, X, P) /\ Pending(w, X \cup {c}) = Pending(w, X) \cup {c}
      /\ \A i \in 1 .. Len(s) : Apart(s[i], c)
      /\ \A x \in X : Apart(c, x)
      /\ c \in Nodes
  <2>1. c \in Nodes
    BY DEF Nodes
  <2>2. Placed(search, w, X, P) /\ SetApart(w, X, P, c)
    BY <1>1, <1>2, <2>1, OneLess
  <2> QED BY <2>1, <2>2 DEF SetApart
<1>6. Pending(v, X) = Pending(w, X \cup {c})
  <2>1. \A r : r \in Pending(v, X) <=> r \in Pending(w, X) \cup {c}
    <3>1. \A i \in 1 .. Len(t) : i \in 1 .. Len(s) \/ i = Len(s) + 1
      BY <1>3
    <3>2. \A i \in 1 .. Len(s) : i \in 1 .. Len(t)
      BY <1>3
    <3>3. Len(s) + 1 \in 1 .. Len(t)
      BY <1>3
    <3>4. {t[i] : i \in 1 .. Len(t)} = {s[i] : i \in 1 .. Len(s)} \cup {c}
      BY <1>3, <3>1, <3>2, <3>3
    <3>5. /\ Pending(w, X) = {s[i] : i \in 1 .. Len(s)} \cup X
          /\ Pending(v, X) = {t[i] : i \in 1 .. Len(t)} \cup X
      BY <1>4 DEF Pending
    <3>6. Pending(v, X) = Pending(w, X) \cup {c}
      BY <3>4, <3>5
    <3> QED BY <3>6
  <2> QED BY <1>5, <2>1
<1>7. CellsOf(v) = CellsOf(w)
  BY <1>4 DEF CellsOf
<1>8. /\ X \subseteq Nodes
      /\ \A i, j \in 1 .. Len(s) : i # j => Apart(s[i], s[j])
      /\ \A i \in 1 .. Len(s), x \in X : Apart(s[i], x)
      /\ \A x, y \in X : x # y => Apart(x, y)
      /\ \A i, j \in 1 .. Len(w.clusters) : i # j => Apart(w.clusters[i].cell, w.clusters[j].cell)
      /\ \A i \in 1 .. Len(w.clusters) :
            /\ w.clusters[i].children = tree.sub_slots[w.clusters[i].cell]
            /\ search.epsilon > 0 /\ Height(w.clusters[i].cell) < search.epsilon
  BY <1>5 DEF Placed
<1>9. /\ \A q \in tree.quads, r \in Pending(v, X) : In(q, r) => q \in P
      /\ \A i \in 1 .. Len(w.clusters), r \in Pending(v, X) : Apart(w.clusters[i].cell, r)
  BY <1>1, <1>6 DEF Placed
<1>10. ASSUME NEW i \in 1 .. Len(t), NEW j \in 1 .. Len(t), i # j
       PROVE  Apart(t[i], t[j])
  <2>1. i \in 1 .. Len(s) \/ i = Len(s) + 1
    BY <1>3
  <2>2. j \in 1 .. Len(s) \/ j = Len(s) + 1
    BY <1>3
  <2>3. \A r : Apart(r, c) => Apart(c, r)
    BY DEF Apart
  <2> QED BY <1>3, <1>5, <1>8, <1>10, <2>1, <2>2, <2>3
<1>11. ASSUME NEW i \in 1 .. Len(t), NEW x \in X
       PROVE  Apart(t[i], x)
  <2>1. i \in 1 .. Len(s) \/ i = Len(s) + 1
    BY <1>3
  <2> QED BY <1>3, <1>5, <1>8, <2>1
<1>12. Placed(search, v, X, P)
  BY <1>4, <1>8, <1>9, <1>10, <1>11 DEF Placed
<1>13. Tallied(search, w0, v, Seen(search, zone, CellsOf(v), Pending(v, X)))
  BY <1>1, <1>4, <1>6, <1>7 DEF Tallied
<1>14. Walking(search, zone, w0, v, X, P)
  BY <1>1, <1>4, <1>12, <1>13 DEF Walking
<1> QED BY <1>14 DEF v, s, t

(* The limit after one more cluster. *)
LEMMA OneFewer ==
  ASSUME NEW l \in Int, NEW top \in Nat, NEW g \in Nat, NEW n \in Nat, NEW v, NEW m,
         l = top - g - n, ~(l <= 1), v = l - 1, m = n + 1
  PROVE  v = top - g - m /\ v >= 1
  OBVIOUS

(* A quad is reported as a cluster. *)
LEMMA VisitGroup ==
  ASSUME Searchable, NEW search, IsSearch(search), NEW zone, NEW w0, NEW w, NEW X, NEW P,
         NEW c, c \notin X, Walking(search, zone, w0, w, X \cup {c}, P),
         NEW allowed, IsCluster(search, c, allowed)
  PROVE  Progress(search, zone, w0, VisitCluster(w, c), X, P)
<1> DEFINE e == [cell |-> c, children |-> tree.sub_slots[c]]
           s == w.clusters
<1>t. PICK t : t = Append(s, e)
  OBVIOUS
<1>v. PICK v : v = [w EXCEPT !.ret = IF w.limit <= 1 THEN 1 ELSE 0, !.limit = @ - 1, !.clusters = t]
  OBVIOUS
<1>0. VisitCluster(w, c) = v
  BY <1>t, <1>v DEF VisitCluster
<1>1. /\ w \in WalkState /\ w.ret = 0 /\ Placed(search, w, X \cup {c}, P)
      /\ Tallied(search, w0, w, Seen(search, zone, CellsOf(w), Pending(w, X \cup {c})))
  BY DEF Walking
<1>2. /\ w.stack \in Seq(tree.quads) /\ s \in Seq([cell : tree.quads, children : Nat])
      /\ w.limit \in Int
  BY <1>1, StateParts
<1>3. c \in tree.quads /\ search.epsilon > 0 /\ Height(c) < search.epsilon
  BY DEF IsCluster
<1>4. e \in [cell : tree.quads, children : Nat] /\ e.cell = c /\ e.children = tree.sub_slots[c]
  <2>1. tree.sub_slots[c] = Cardinality(KeysBelow(tree.slot, c)) /\ Cardinality(KeysBelow(tree.slot, c)) \in Nat
    BY <1>3, KeysFinite DEF Searchable
  <2> QED BY <1>3, <2>1
<1> HIDE DEF e
<1>5. /\ Len(s) \in Nat /\ t \in Seq([cell : tree.quads, children : Nat]) /\ Len(t) = Len(s) + 1
      /\ \A i \in 1 .. Len(s) : t[i] = s[i]
      /\ t[Len(s) + 1] = e
  BY <1>2, <1>4, <1>t, Appended
<1>6. /\ v \in WalkState /\ v.ret = (IF w.limit <= 1 THEN 1 ELSE 0) /\ v.limit = w.limit - 1
      /\ v.stack = w.stack /\ v.clusters = t /\ v.found = w.found
  <2> DEFINE ret == IF w.limit <= 1 THEN 1 ELSE 0
             limit == w.limit - 1
  <2>1. ret \in {0, 1} /\ limit \in Int
    BY <1>2
  <2>2. t \in Seq([cell : tree.quads, children : Nat])
    BY <1>5
  <2>3. RenewedClusters(w, v, ret, limit, t)
    BY <1>1, <1>v, <2>1, <2>2 DEF RenewedClusters
  <2> HIDE DEF ret, limit
  <2>4. /\ v \in WalkState /\ v.ret = ret /\ v.limit = limit
        /\ v.stack = w.stack /\ v.clusters = t /\ v.found = w.found
    BY <2>3, WithClusters
  <2> QED BY <2>4 DEF ret, limit
<1>7. CASE w.limit <= 1
  <2>1. v.ret = 1
    BY <1>6, <1>7
  <2>2. Overflown(search, zone)
    BY <1>3 DEF Overflown, IsSearch
  <2> QED BY <1>0, <1>6, <2>1, <2>2 DEF Progress
<1>8. CASE ~(w.limit <= 1)
  <2>0. /\ Placed(search, w, X, P) /\ Pending(w, X \cup {c}) = Pending(w, X) \cup {c}
        /\ \A r \in Pending(w, X) : Apart(c, r)
        /\ \A i \in 1 .. Len(s) : Apart(s[i].cell, c)
        /\ c \in Nodes
    <3>1. c \in Nodes
      BY <1>3 DEF Nodes
    <3>2. Placed(search, w, X, P) /\ SetApart(w, X, P, c)
      BY <1>1, <1>2, <3>1, OneLess
    <3> QED BY <3>1, <3>2 DEF SetApart
  <2>1. /\ X \subseteq Nodes
        /\ \A i, j \in 1 .. Len(w.stack) : i # j => Apart(w.stack[i], w.stack[j])
        /\ \A i \in 1 .. Len(w.stack), x \in X : Apart(w.stack[i], x)
        /\ \A x, y \in X : x # y => Apart(x, y)
        /\ \A q \in tree.quads, r \in Pending(w, X) : In(q, r) => q \in P
        /\ \A i, j \in 1 .. Len(s) : i # j => Apart(s[i].cell, s[j].cell)
        /\ \A i \in 1 .. Len(s), r \in Pending(w, X) : Apart(s[i].cell, r)
        /\ \A i \in 1 .. Len(s) :
            /\ s[i].children = tree.sub_slots[s[i].cell]
            /\ search.epsilon > 0 /\ Height(s[i].cell) < search.epsilon
    BY <2>0 DEF Placed
  <2>2. Pending(v, X) = Pending(w, X)
    BY <1>6 DEF Pending
  <2> HIDE DEF s
  <2>3. \A i \in 1 .. Len(t) : i \in 1 .. Len(s) \/ i = Len(s) + 1
    BY <1>5
  <2>4. ASSUME NEW i \in 1 .. Len(t), NEW j \in 1 .. Len(t), i # j
        PROVE  Apart(t[i].cell, t[j].cell)
    <3>1. (i \in 1 .. Len(s) \/ i = Len(s) + 1) /\ (j \in 1 .. Len(s) \/ j = Len(s) + 1)
      BY <2>3
    <3>2. \A r : Apart(r, c) => Apart(c, r)
      BY DEF Apart
    <3> QED BY <1>4, <1>5, <2>0, <2>1, <2>4, <3>1, <3>2
  <2>5. ASSUME NEW i \in 1 .. Len(t), NEW r \in Pending(w, X)
        PROVE  Apart(t[i].cell, r)
    BY <1>4, <1>5, <2>0, <2>1, <2>3
  <2>6. ASSUME NEW i \in 1 .. Len(t)
        PROVE  /\ t[i].children = tree.sub_slots[t[i].cell]
               /\ search.epsilon > 0 /\ Height(t[i].cell) < search.epsilon
    BY <1>3, <1>4, <1>5, <2>1, <2>3
  <2>7. Placed(search, v, X, P)
    BY <1>6, <2>1, <2>2, <2>4, <2>5, <2>6 DEF Placed
  <2>8. CellsOf(v) = CellsOf(w) \cup {c}
    <3>1. \A i \in 1 .. Len(s) : i \in 1 .. Len(t)
      BY <1>5
    <3>2. Len(s) + 1 \in 1 .. Len(t)
      BY <1>5
    <3>3. {t[i].cell : i \in 1 .. Len(t)} = {s[i].cell : i \in 1 .. Len(s)} \cup {c}
      BY <1>4, <1>5, <2>3, <3>1, <3>2
    <3> QED BY <1>6, <3>3 DEF CellsOf, s
  <2>9. Seen(search, zone, CellsOf(v), Pending(v, X))
          = Seen(search, zone, CellsOf(w), Pending(w, X \cup {c}))
    <3> DEFINE R2 == Pending(w, X \cup {c})
               C2 == CellsOf(v)
    <3>1. R2 = Pending(w, X) \cup {c} /\ C2 = CellsOf(w) \cup {c}
      BY <2>0, <2>8
    <3> HIDE DEF R2, C2
    <3>3. Regrouped(CellsOf(w), Pending(w, X), c, C2, R2)
      BY <3>1 DEF Regrouped
    <3>2. Seen(search, zone, CellsOf(w), R2) = Seen(search, zone, C2, Pending(w, X))
      BY <3>3, SeenGrouped
    <3> QED BY <2>2, <3>2 DEF R2, C2
  <2> DEFINE G == Seen(search, zone, CellsOf(w), Pending(w, X \cup {c}))
  <2>10. Cardinality(G) \in Nat
    BY SeenFinite
  <2>11. Tallied(search, w0, w, G)
    BY <1>1
  <2> HIDE DEF G
  <2>12. /\ w.limit = search.limit - Cardinality(G) - Len(s)
         /\ \A k \in Key : w.found[k] = IF k \in G THEN w0.found[k] + 1 ELSE w0.found[k]
    BY <2>11 DEF Tallied, s
  <2>13. search.limit \in Nat
    BY DEF IsSearch
  <2>14. v.limit = search.limit - Cardinality(G) - Len(t) /\ v.limit >= 1
    <3>1. Len(t) = Len(s) + 1 /\ Len(s) \in Nat
      BY <1>5
    <3>2. v.limit = w.limit - 1 /\ w.limit \in Int
      BY <1>2, <1>6
    <3>3. w.limit = search.limit - Cardinality(G) - Len(s)
      BY <2>12
    <3> QED BY <1>8, <2>10, <2>13, <3>1, <3>2, <3>3, OneFewer
  <2>15. Tallied(search, w0, v, G)
    BY <1>6, <2>12, <2>14 DEF Tallied
  <2>16. v.ret = 0
    BY <1>6, <1>8
  <2>17. Walking(search, zone, w0, v, X, P)
    BY <1>6, <2>7, <2>9, <2>15, <2>16 DEF Walking, G
  <2> QED BY <1>0, <2>17 DEF Progress
<1> QED BY <1>7, <1>8
-----------------------------------------------------------------------------
(* A bucket is visited *)

(* The matching slots of a bucket are reported. *)
LEMMA VisitSlots ==
  ASSUME Searchable, NEW search, IsSearch(search), NEW zone, NEW w0, NEW w, NEW X, NEW P,
         NEW b \in DOMAIN tree.buckets, b \notin X, Walking(search, zone, w0, w, X \cup {b}, P),
         rectangle2d_intersect(b, zone)
  PROVE  Progress(search, zone, w0, VisitBucket(search, zone, w, b), X, P)
<1> DEFINE hits == {s \in tree.buckets[b].slots :
                       s.key \notin unlisted /\ Matches(search, zone, s)}
           H == {k \in KeysAt(tree.slot, b) : Visible(search, zone, k)}
           G == Seen(search, zone, CellsOf(w), Pending(w, X \cup {b}))
           G2 == Seen(search, zone, CellsOf(w), Pending(w, X))
<1>n. PICK n : n = Cardinality(hits)
  OBVIOUS
<1>f. PICK f : f = [k \in Key |-> w.found[k] + IF \E s \in hits : s.key = k THEN 1 ELSE 0]
  OBVIOUS
<1>v. PICK v : v = [w EXCEPT !.ret = IF Overflows(search, n, w.limit) THEN 1 ELSE 0,
                             !.limit = @ - n, !.found = f]
  OBVIOUS
<1>1. /\ w \in WalkState /\ w.ret = 0 /\ Placed(search, w, X \cup {b}, P)
      /\ Tallied(search, w0, w, G)
  BY DEF Walking
<1>2. /\ w.stack \in Seq(tree.quads) /\ w.clusters \in Seq([cell : tree.quads, children : Nat])
      /\ w.limit \in Int /\ w.found \in [Key -> Nat]
  BY <1>1, StateParts
<1>0. VisitBucket(search, zone, w, b) = v
  <2>1. v = [w EXCEPT !.ret = IF Overflows(search, n, w.limit) THEN 1 ELSE 0,
                      !.limit = @ - n,
                      !.found = [k \in Key |-> @[k] + IF \E s \in hits : s.key = k THEN 1 ELSE 0]]
    BY <1>f, <1>v
  <2> QED BY <1>n, <2>1 DEF VisitBucket
<1>3. /\ IsFiniteSet(H) /\ Cardinality(H) \in Nat /\ n = Cardinality(H)
      /\ \A k \in Key : (\E s \in hits : s.key = k) <=> k \in H
  BY <1>n, HitsOfBucket
<1> HIDE DEF hits
<1>4. f \in [Key -> Nat] /\ \A k \in Key : f[k] = w.found[k] + IF k \in H THEN 1 ELSE 0
  <2> HIDE DEF H
  <2>1. f = [k \in Key |-> w.found[k] + IF k \in H THEN 1 ELSE 0]
    BY <1>f, <1>3
  <2>2. \A k \in Key : w.found[k] \in Nat
    BY <1>2
  <2> QED BY <2>1, <2>2
<1> HIDE DEF H
<1>5. /\ v \in WalkState /\ v.ret = (IF Overflows(search, n, w.limit) THEN 1 ELSE 0)
      /\ v.limit = w.limit - n /\ v.stack = w.stack /\ v.clusters = w.clusters /\ v.found = f
  <2> DEFINE ret == IF Overflows(search, n, w.limit) THEN 1 ELSE 0
             limit == w.limit - n
  <2>1. ret \in {0, 1} /\ limit \in Int
    BY <1>2, <1>3
  <2>2. RenewedFound(w, v, ret, limit, f)
    BY <1>1, <1>4, <1>v, <2>1 DEF RenewedFound
  <2> HIDE DEF ret, limit
  <2>3. /\ v \in WalkState /\ v.ret = ret /\ v.limit = limit
        /\ v.stack = w.stack /\ v.clusters = w.clusters /\ v.found = f
    BY <2>2, WithFound
  <2> QED BY <2>3 DEF ret, limit
<1>6. Placed(search, w, X, P) /\ SetApart(w, X, P, b)
  <2>1. b \in Nodes
    BY DEF Nodes
  <2> QED BY <1>1, <1>2, <2>1, OneLess
<1>7. Placed(search, v, X, P) /\ CellsOf(v) = CellsOf(w) /\ Pending(v, X) = Pending(w, X)
  BY <1>5, <1>6 DEF Placed, CellsOf, Pending
<1>8. G2 = G \cup H /\ G \cap H = {}
  <2>1. \A r \in Pending(w, X) \cup CellsOf(w) : r \in Nodes /\ Apart(b, r)
    BY <1>6 DEF SetApart
  <2>2. Pending(w, X \cup {b}) = Pending(w, X) \cup {b}
    BY <1>6 DEF SetApart
  <2>3. /\ Seen(search, zone, CellsOf(w), Pending(w, X))
             = Seen(search, zone, CellsOf(w), Pending(w, X) \cup {b}) \cup H
        /\ Seen(search, zone, CellsOf(w), Pending(w, X) \cup {b}) \cap H = {}
    BY <2>1, SeenBucket DEF H
  <2> QED BY <2>2, <2>3
<1>9. /\ IsFiniteSet(G) /\ Cardinality(G) \in Nat /\ Cardinality(G2) \in Nat
      /\ Cardinality(VisibleKeys(search, zone)) \in Nat
      /\ Cardinality(G2) <= Cardinality(VisibleKeys(search, zone))
  BY SeenFinite
<1> HIDE DEF G, G2
<1>10. Cardinality(G2) = Cardinality(G) + Cardinality(H)
  <2>1. IsFiniteSet(H) /\ Cardinality(H) \in Nat
    BY <1>3
  <2> HIDE DEF H
  <2>2. Cardinality(G \cup H) = Cardinality(G) + Cardinality(H) - Cardinality(G \cap H)
    BY <1>9, <2>1, FS_Union
  <2>3. Cardinality(G \cap H) = 0
    BY <1>8, FS_EmptySet
  <2>4. Cardinality(G2) = Cardinality(G \cup H)
    BY <1>8
  <2> QED BY <1>9, <2>1, <2>2, <2>3, <2>4
<1>11. /\ w.limit = search.limit - Cardinality(G) - Len(w.clusters)
       /\ \A k \in Key : w.found[k] = IF k \in G THEN w0.found[k] + 1 ELSE w0.found[k]
       /\ search.near => w.limit >= 1
  BY <1>1 DEF Tallied
<1>12. search.limit \in Nat /\ Len(w.clusters) \in Nat /\ search.near \in BOOLEAN
  BY <1>2 DEF IsSearch
<1>13. CASE Overflows(search, n, w.limit)
  <2>1. v.ret = 1
    BY <1>5, <1>13
  <2>2. Overflown(search, zone)
    <3> SUFFICES ASSUME search.epsilon <= 0
                 PROVE  IF search.near
                        THEN Cardinality(VisibleKeys(search, zone)) >= search.limit
                        ELSE Cardinality(VisibleKeys(search, zone)) > search.limit
      BY DEF Overflown
    <3>1. Len(w.clusters) = 0
      <4> SUFFICES ASSUME Len(w.clusters) # 0 PROVE FALSE
        OBVIOUS
      <4>1. 1 \in 1 .. Len(w.clusters)
        BY <1>12
      <4>2. search.epsilon > 0
        BY <1>6, <4>1 DEF Placed
      <4> QED BY <4>2 DEF IsSearch
    <3>2. w.limit = search.limit - Cardinality(G)
      BY <1>2, <1>9, <1>11, <1>12, <3>1
    <3>3. CASE search.near
      <4>1. n >= w.limit
        BY <1>13, <3>3 DEF Overflows
      <4> QED BY <1>2, <1>3, <1>9, <1>10, <1>12, <3>2, <3>3, <4>1
    <3>4. CASE ~search.near
      <4>1. n > w.limit
        BY <1>13, <3>4 DEF Overflows
      <4> QED BY <1>2, <1>3, <1>9, <1>10, <1>12, <3>2, <3>4, <4>1
    <3> QED BY <3>3, <3>4
  <2> QED BY <1>0, <1>5, <2>1, <2>2 DEF Progress
<1>14. CASE ~Overflows(search, n, w.limit)
  <2>1. v.ret = 0
    BY <1>5, <1>14
  <2>2. v.limit = search.limit - Cardinality(G2) - Len(v.clusters)
    <3>1. v.limit = w.limit - n /\ Len(v.clusters) = Len(w.clusters)
      BY <1>5
    <3>2. \A a, g, h, l \in Int : a - g - l - h = a - (g + h) - l
      OBVIOUS
    <3>g. PICK g : g = Cardinality(G)
      OBVIOUS
    <3>h. PICK h : h = Cardinality(H)
      OBVIOUS
    <3>3. /\ search.limit \in Int /\ g \in Int /\ h \in Int /\ Len(w.clusters) \in Int
          /\ v.limit = search.limit - g - Len(w.clusters) - h /\ Cardinality(G2) = g + h
      BY <1>3, <1>9, <1>10, <1>11, <1>12, <3>1, <3>g, <3>h
    <3> QED BY <3>1, <3>2, <3>3
  <2>3. ASSUME NEW k \in Key
        PROVE  v.found[k] = IF k \in G2 THEN w0.found[k] + 1 ELSE w0.found[k]
    <3>1. v.found[k] = w.found[k] + IF k \in H THEN 1 ELSE 0
      BY <1>4, <1>5
    <3>2. w.found[k] = IF k \in G THEN w0.found[k] + 1 ELSE w0.found[k]
      BY <1>11
    <3>3. k \in G2 <=> k \in G \/ k \in H
      BY <1>8
    <3>4. ~(k \in G /\ k \in H)
      BY <1>8
    <3>5. w.found[k] \in Nat
      BY <1>2
    <3>6. CASE k \in H
      <4>1. w.found[k] = w0.found[k] /\ v.found[k] = w.found[k] + 1
        BY <3>1, <3>2, <3>4, <3>6
      <4> QED BY <3>3, <3>6, <4>1
    <3>7. CASE k \notin H
      <4>1. v.found[k] = w.found[k]
        BY <3>1, <3>5, <3>7
      <4> QED BY <3>2, <3>3, <3>7, <4>1
    <3> QED BY <3>6, <3>7
  <2>4. search.near => v.limit >= 1
    <3> SUFFICES ASSUME search.near PROVE v.limit >= 1
      OBVIOUS
    <3>1. ~(n > 0 /\ n >= w.limit)
      BY <1>14 DEF Overflows
    <3> QED BY <1>2, <1>3, <1>5, <1>11, <3>1
  <2>5. Tallied(search, w0, v, G2)
    BY <2>2, <2>3, <2>4 DEF Tallied
  <2>6. Walking(search, zone, w0, v, X, P)
    BY <1>5, <1>7, <2>1, <2>5 DEF Walking, G2
  <2> QED BY <1>0, <2>6 DEF Progress
<1> QED BY <1>13, <1>14

(* Each child of a quad is passed, reported, looked into or put aside. *)
LEMMA VisitOne ==
  ASSUME Searchable, NEW search, IsSearch(search), NEW zone \in Rectangles,
         NEW w0, NEW w, NEW X, NEW P, NEW allowed,
         NEW c \in Nodes, c \notin X, Progress(search, zone, w0, w, X \cup {c}, P)
  PROVE  Progress(search, zone, w0, VisitChild(search, zone, allowed, w, c), X, P)
<1>1. CASE ~Walking(search, zone, w0, w, X \cup {c}, P)
  <2>1. w \in WalkState /\ w.ret = 1 /\ Overflown(search, zone)
    BY <1>1 DEF Progress
  <2>2. VisitChild(search, zone, allowed, w, c) = w
    BY <2>1 DEF VisitChild
  <2> QED BY <2>1, <2>2 DEF Progress
<1>2. CASE Walking(search, zone, w0, w, X \cup {c}, P)
  <2>0. w.ret = 0
    BY <1>2 DEF Walking
  <2>1. CASE ~rectangle2d_intersect(c, zone)
    <3>1. VisitChild(search, zone, allowed, w, c) = w
      BY <2>1 DEF VisitChild
    <3>2. Walking(search, zone, w0, w, X, P)
      BY <1>2, <2>1, VisitPast
    <3> QED BY <3>1, <3>2 DEF Progress
  <2>2. CASE rectangle2d_intersect(c, zone) /\ IsCluster(search, c, allowed)
    <3>0. c \notin DOMAIN tree.buckets
      BY <2>2 DEF IsCluster, Searchable, Shape
    <3>1. VisitChild(search, zone, allowed, w, c) = VisitCluster(w, c)
      BY <2>0, <2>2, <3>0 DEF VisitChild
    <3>2. Progress(search, zone, w0, VisitCluster(w, c), X, P)
      BY <1>2, <2>2, VisitGroup
    <3> QED BY <3>1, <3>2
  <2>3. CASE /\ rectangle2d_intersect(c, zone) /\ ~IsCluster(search, c, allowed)
             /\ c \in DOMAIN tree.buckets
    <3>1. VisitChild(search, zone, allowed, w, c) = VisitBucket(search, zone, w, c)
      BY <2>0, <2>3 DEF VisitChild
    <3>2. Progress(search, zone, w0, VisitBucket(search, zone, w, c), X, P)
      BY <1>2, <2>3, VisitSlots
    <3> QED BY <3>1, <3>2
  <2>4. CASE /\ rectangle2d_intersect(c, zone) /\ ~IsCluster(search, c, allowed)
             /\ c \notin DOMAIN tree.buckets
    <3>1. VisitChild(search, zone, allowed, w, c) = [w EXCEPT !.stack = Append(@, c)]
      BY <2>0, <2>4 DEF VisitChild
    <3>2. c \in tree.quads
      BY <2>4 DEF Nodes
    <3>3. Walking(search, zone, w0, [w EXCEPT !.stack = Append(@, c)], X, P)
      BY <1>2, <3>2, VisitPush
    <3> QED BY <3>1, <3>3 DEF Progress
  <2> QED BY <2>1, <2>2, <2>3, <2>4
<1> QED BY <1>1, <1>2
-----------------------------------------------------------------------------
(* A quad is visited *)

(* A sequence without its last element. *)
LEMMA WithoutLast ==
  ASSUME NEW S, NEW s \in Seq(S), s # << >>
  PROVE  /\ Len(s) \in Nat /\ Len(s) \in 1 .. Len(s)
         /\ Front(s) \in Seq(S) /\ Len(Front(s)) = Len(s) - 1
         /\ \A i \in 1 .. Len(s) - 1 : Front(s)[i] = s[i] /\ i \in 1 .. Len(s) /\ i # Len(s)
         /\ Last(s) = s[Len(s)] /\ Last(s) \in S
<1>1. Len(s) \in Nat /\ Len(s) # 0
  OBVIOUS
<1>2. /\ SubSeq(s, 1, Len(s) - 1) \in Seq(S) /\ Len(SubSeq(s, 1, Len(s) - 1)) = Len(s) - 1
      /\ \A i \in 1 .. Len(s) - 1 : SubSeq(s, 1, Len(s) - 1)[i] = s[i]
  <2> DEFINE n == Len(s) - 1
  <2>1. n \in Nat /\ n \in Int /\ (n - 1) + 1 = n /\ \A i \in 1 .. n : i \in 1 .. Len(s)
    BY <1>1
  <2>2. \A i \in 1 .. n : s[i] \in S
    BY <2>1
  <2> HIDE DEF n
  <2>3. /\ SubSeq(s, 1, n) \in Seq(S) /\ Len(SubSeq(s, 1, n)) = IF 1 <= n THEN n - 1 + 1 ELSE 0
        /\ \A i \in 1 .. n - 1 + 1 : SubSeq(s, 1, n)[i] = s[1 + i - 1]
    BY <2>1, <2>2, SubSeqProperties
  <2>4. Len(SubSeq(s, 1, n)) = n
    BY <2>1, <2>3
  <2>5. \A i \in 1 .. n : SubSeq(s, 1, n)[i] = s[i]
    BY <2>1, <2>3
  <2> QED BY <2>3, <2>4, <2>5 DEF n
<1>3. s[Len(s)] \in S
  BY <1>1
<1> QED BY <1>1, <1>2, <1>3 DEF Front, Last

(* A walk that takes a quad from the stack has its children in hand. *)
LEMMA Popped ==
  ASSUME Searchable, NEW search, NEW zone, NEW w0, NEW w, NEW P,
         Walking(search, zone, w0, w, {}, P), w.stack # << >>,
         NEW top, top = Last(w.stack), NEW v, v = [w EXCEPT !.stack = Front(@)]
  PROVE  top \in tree.quads /\ top \in P /\ Walking(search, zone, w0, v, Children(top), P \ {top})
<1>1. /\ w \in WalkState /\ w.ret = 0 /\ Placed(search, w, {}, P)
      /\ Tallied(search, w0, w, Seen(search, zone, CellsOf(w), Pending(w, {})))
  BY DEF Walking
<1>s. PICK s : s = w.stack
  OBVIOUS
<1>t. PICK t : t = Front(s)
  OBVIOUS
<1>2. s \in Seq(tree.quads) /\ w.clusters \in Seq([cell : tree.quads, children : Nat])
  BY <1>1, <1>s, StateParts
<1>3. /\ Len(s) \in Nat /\ Len(s) \in 1 .. Len(s)
      /\ t \in Seq(tree.quads) /\ Len(t) = Len(s) - 1
      /\ \A i \in 1 .. Len(t) : t[i] = s[i] /\ i \in 1 .. Len(s) /\ i # Len(s)
      /\ top = s[Len(s)] /\ top \in tree.quads
  <2> DEFINE Q == tree.quads
  <2>1. s \in Seq(Q) /\ s # << >>
    BY <1>2, <1>s
  <2> HIDE DEF Q
  <2>2. /\ Len(s) \in Nat /\ Len(s) \in 1 .. Len(s)
        /\ Front(s) \in Seq(Q) /\ Len(Front(s)) = Len(s) - 1
        /\ \A i \in 1 .. Len(s) - 1 : Front(s)[i] = s[i] /\ i \in 1 .. Len(s) /\ i # Len(s)
        /\ Last(s) = s[Len(s)] /\ Last(s) \in Q
    BY <2>1, WithoutLast
  <2>3. top = Last(s)
    BY <1>s
  <2> QED BY <1>t, <2>2, <2>3 DEF Q
<1>4. /\ v \in WalkState /\ v.ret = w.ret /\ v.limit = w.limit /\ v.stack = t
      /\ v.clusters = w.clusters /\ v.found = w.found
  BY <1>1, <1>3, <1>s, <1>t, WithStack
<1>5. /\ \A i, j \in 1 .. Len(s) : i # j => Apart(s[i], s[j])
      /\ \A q \in tree.quads, r \in Pending(w, {}) : In(q, r) => q \in P
      /\ \A i, j \in 1 .. Len(w.clusters) : i # j => Apart(w.clusters[i].cell, w.clusters[j].cell)
      /\ \A i \in 1 .. Len(w.clusters), r \in Pending(w, {}) : Apart(w.clusters[i].cell, r)
      /\ \A i \in 1 .. Len(w.clusters) :
            /\ w.clusters[i].children = tree.sub_slots[w.clusters[i].cell]
            /\ search.epsilon > 0 /\ Height(w.clusters[i].cell) < search.epsilon
  BY <1>1, <1>s DEF Placed
<1>6. /\ IsNode(top) /\ Large(top) /\ Children(top) \subseteq Nodes
      /\ \A n \in Nodes : IsNode(n)
  BY <1>3 DEF Searchable, Shape, Nodes
<1>7. \A c \in Children(top) : IsNode(c) /\ In(c, top) /\ ~In(top, c)
  BY <1>6, ChildFacts
<1>8. Pending(w, {}) = {s[i] : i \in 1 .. Len(s)} /\ top \in Pending(w, {})
  BY <1>3, <1>s DEF Pending
<1>9. \A i \in 1 .. Len(t) : /\ t[i] \in tree.quads /\ IsNode(t[i]) /\ t[i] \in Pending(w, {})
                             /\ Apart(t[i], top) /\ Apart(top, t[i])
  <2> TAKE i \in 1 .. Len(t)
  <2>1. t[i] = s[i] /\ i \in 1 .. Len(s) /\ i # Len(s)
    BY <1>3
  <2>2. t[i] \in tree.quads
    BY <1>3
  <2>3. Apart(s[i], s[Len(s)]) /\ Apart(s[Len(s)], s[i])
    BY <1>3, <1>5, <2>1
  <2> QED BY <1>3, <1>6, <1>8, <2>1, <2>2, <2>3 DEF Nodes
<1>10. \A r : r \in Pending(v, Children(top)) <=> (\E i \in 1 .. Len(t) : r = t[i]) \/ r \in Children(top)
  BY <1>4 DEF Pending
<1>11. \A r : r \in Pending(w, {}) <=> (\E i \in 1 .. Len(t) : r = t[i]) \/ r = top
  <2>1. \A i \in 1 .. Len(s) : i \in 1 .. Len(t) \/ i = Len(s)
    BY <1>3
  <2> QED BY <1>3, <1>8, <1>9, <2>1
<1>12. ASSUME NEW n, IsNode(n), Apart(n, top), NEW c \in Children(top)
       PROVE  Apart(n, c) /\ Apart(c, n)
  BY <1>6, <1>7, <1>12, Nesting
<1>13. ASSUME NEW q \in tree.quads, NEW r \in Pending(v, Children(top)), In(q, r)
       PROVE  q \in P \ {top}
  <2>0. IsNode(q)
    BY <1>6 DEF Nodes
  <2>1. ASSUME NEW i \in 1 .. Len(t), r = t[i] PROVE q \in P \ {top}
    <3>1. q \in P
      BY <1>5, <1>9, <1>13, <2>1
    <3>2. ~In(top, t[i])
      BY <1>6, <1>9, Nesting
    <3> QED BY <1>13, <2>1, <3>1, <3>2
  <2>2. ASSUME r \in Children(top) PROVE q \in P \ {top}
    <3>1. In(q, top)
      BY <1>6, <1>7, <1>13, <2>0, <2>2, Nesting
    <3>2. q \in P
      BY <1>5, <1>8, <3>1
    <3>3. q # top
      BY <1>7, <1>13, <2>2
    <3> QED BY <3>2, <3>3
  <2> QED BY <1>10, <2>1, <2>2
<1>14. ASSUME NEW i \in 1 .. Len(w.clusters), NEW r \in Pending(v, Children(top))
       PROVE  Apart(w.clusters[i].cell, r)
  <2>0. IsNode(w.clusters[i].cell)
    <3> DEFINE T == [cell : tree.quads, children : Nat]
               cs == w.clusters
    <3>1. cs \in Seq(T) /\ i \in 1 .. Len(cs)
      BY <1>2
    <3> HIDE DEF T, cs
    <3>2. cs[i] \in T
      BY <3>1
    <3> QED BY <1>6, <3>2 DEF Nodes, T, cs
  <2>1. ASSUME r \in Pending(w, {}) PROVE Apart(w.clusters[i].cell, r)
    BY <1>5, <2>1
  <2>2. ASSUME r \in Children(top) PROVE Apart(w.clusters[i].cell, r)
    <3>1. Apart(w.clusters[i].cell, top)
      BY <1>5, <1>8
    <3> QED BY <1>12, <2>0, <2>2, <3>1
  <2> QED BY <1>10, <1>11, <2>1, <2>2
<1>15. Placed(search, v, Children(top), P \ {top})
  <2>1. \A i, j \in 1 .. Len(t) : i # j => Apart(t[i], t[j])
    BY <1>3, <1>5
  <2>2. \A i \in 1 .. Len(t), c \in Children(top) : Apart(t[i], c)
    BY <1>9, <1>12
  <2>3. \A c, d \in Children(top) : c # d => Apart(c, d)
    BY <1>6, ChildrenApart
  <2> QED BY <1>4, <1>5, <1>6, <1>13, <1>14, <2>1, <2>2, <2>3 DEF Placed
<1>16. \A k \in Key : Beneath(Pending(v, Children(top)), k) <=> Beneath(Pending(w, {}), k)
  <2> TAKE k \in Key
  <2>1. CASE ~HasSlot(k)
    BY <2>1 DEF Beneath
  <2>2. CASE HasSlot(k)
    <3>1. tree.slot[k] \in DOMAIN tree.buckets
      BY <2>2 DEF Searchable
    <3>2. In(tree.slot[k], top) <=> \E c \in Children(top) : In(tree.slot[k], c)
      BY <1>3, <3>1, BucketsOfChildren
    <3> QED BY <1>10, <1>11, <2>2, <3>2 DEF Beneath
  <2> QED BY <2>1, <2>2
<1>17. CellsOf(v) = CellsOf(w)
  BY <1>4 DEF CellsOf
<1>18. Seen(search, zone, CellsOf(v), Pending(v, Children(top)))
         = Seen(search, zone, CellsOf(w), Pending(w, {}))
  BY <1>16, <1>17 DEF Seen
<1>19. Tallied(search, w0, v, Seen(search, zone, CellsOf(v), Pending(v, Children(top))))
  BY <1>1, <1>4, <1>18 DEF Tallied
<1>20. top \in P
  <2>1. In(top, top)
    BY <1>6, Nesting
  <2> QED BY <1>3, <1>5, <1>8, <2>1
<1> QED BY <1>1, <1>3, <1>4, <1>15, <1>19, <1>20 DEF Walking

(* One turn of the loop deals with the quad on top of the stack. *)
LEMMA VisitTop ==
  ASSUME Searchable, NEW search, IsSearch(search), NEW zone \in Rectangles, NEW w0, NEW w, NEW P,
         Walking(search, zone, w0, w, {}, P), w.stack # << >>
  PROVE  \E q \in P : /\ q \in tree.quads
                      /\ Progress(search, zone, w0, VisitQuad(search, zone, w), {}, P \ {q})
<1>t. PICK top : top = Last(w.stack)
  OBVIOUS
<1>v. PICK v : v = [w EXCEPT !.stack = Front(@)]
  OBVIOUS
<1>1. top \in tree.quads /\ top \in P /\ Walking(search, zone, w0, v, Children(top), P \ {top})
  BY <1>t, <1>v, Popped
<1>2. IsNode(top) /\ Large(top) /\ Children(top) \subseteq Nodes
  BY <1>1 DEF Searchable, Shape, Nodes
<1>3. PICK c1, c2, c3, c4 :
            /\ get_qrects_from_qbounds(top) = <<c1, c2, c3, c4>>
            /\ Children(top) = {c1, c2, c3, c4}
            /\ c1 # c2 /\ c1 # c3 /\ c1 # c4 /\ c2 # c3 /\ c2 # c4 /\ c3 # c4
  <2>1. PICK m, n, c1, c2, c3, c4 :
            /\ m \in Int /\ n \in Int
            /\ top.edge0.latitude < m /\ top.edge0.longitude < n
            /\ get_qrects_from_qbounds(top) = <<c1, c2, c3, c4>>
            /\ Children(top) = {c1, c2, c3, c4}
            /\ Corners(c1, top.edge0.latitude, n, m, top.edge1.longitude)
            /\ Corners(c2, m, n, top.edge1.latitude, top.edge1.longitude)
            /\ Corners(c3, top.edge0.latitude, top.edge0.longitude, m, n)
            /\ Corners(c4, m, top.edge0.longitude, top.edge1.latitude, n)
    BY <1>2, FourChildren
  <2>2. top.edge0.latitude \in Int /\ top.edge0.longitude \in Int
    BY <1>2, NodeFacts
  <2>3. top.edge0.latitude # m /\ top.edge0.longitude # n
    BY <2>1, <2>2
  <2>4. c1 # c2 /\ c1 # c3 /\ c1 # c4 /\ c2 # c3 /\ c2 # c4 /\ c3 # c4
    BY <2>1, <2>3 DEF Corners
  <2> QED BY <2>1, <2>4
<1>4. PICK child : child = get_qrects_from_qbounds(top)
  OBVIOUS
<1>5. child[1] = c1 /\ child[2] = c2 /\ child[3] = c3 /\ child[4] = c4
  BY <1>3, <1>4
<1>6. c1 \in Nodes /\ c2 \in Nodes /\ c3 \in Nodes /\ c4 \in Nodes
  BY <1>2, <1>3
<1> DEFINE V(a, c) == VisitChild(search, zone, w.limit \div 4, a, c)
           Pr(a, X) == Progress(search, zone, w0, a, X, P \ {top})
<1>7. VisitQuad(search, zone, w) = V(V(V(V(v, c1), c2), c3), c4)
  BY <1>4, <1>5, <1>t, <1>v DEF VisitQuad
<1>8. ASSUME NEW a, NEW c \in Nodes, NEW X, c \notin X, Pr(a, X \cup {c})
      PROVE  Pr(V(a, c), X)
  BY <1>8, VisitOne
<1>9. Pr(v, {c1, c2, c3, c4})
  BY <1>1, <1>3 DEF Progress
<1> HIDE DEF V, Pr
<1>10. /\ {c1, c2, c3, c4} = {c2, c3, c4} \cup {c1} /\ c1 \notin {c2, c3, c4}
       /\ {c2, c3, c4} = {c3, c4} \cup {c2} /\ c2 \notin {c3, c4}
       /\ {c3, c4} = {c4} \cup {c3} /\ c3 \notin {c4}
       /\ {c4} = {} \cup {c4} /\ c4 \notin {}
  BY <1>3
<1>11. Pr(V(v, c1), {c2, c3, c4})
  <2>1. Pr(v, {c2, c3, c4} \cup {c1})
    BY <1>9, <1>10
  <2> QED BY <1>6, <1>8, <1>10, <2>1
<1>12. Pr(V(V(v, c1), c2), {c3, c4})
  <2>1. Pr(V(v, c1), {c3, c4} \cup {c2})
    BY <1>10, <1>11
  <2> QED BY <1>6, <1>8, <1>10, <2>1
<1>13. Pr(V(V(V(v, c1), c2), c3), {c4})
  BY <1>6, <1>8, <1>10, <1>12
<1>14. Pr(V(V(V(V(v, c1), c2), c3), c4), {})
  BY <1>6, <1>8, <1>10, <1>13
<1> QED BY <1>1, <1>7, <1>14 DEF Pr
-----------------------------------------------------------------------------
(* The walk of a zone *)

Turn(search, zone, w) ==
    IF w.stack = << >> \/ w.ret # 0 THEN w ELSE VisitQuad(search, zone, w)

Start(search, w0) == [w0 EXCEPT !.limit = search.limit, !.stack = << qbounds >>]

(* The states between the turns of the loop. *)
Turns(g, search, zone, w0) ==
    /\ g[0] = Start(search, w0)
    /\ \A i \in 1 .. Cardinality(tree.quads) : g[i] = Turn(search, zone, g[i - 1])

(* They exist: the recursion of FindInZone is well-founded. *)
LEMMA ZoneTurns ==
  ASSUME NEW search, NEW zone, NEW w0, Cardinality(tree.quads) \in Nat
  PROVE  \E g : /\ Turns(g, search, zone, w0)
                /\ FindInZone(search, w0, zone) = g[Cardinality(tree.quads)]
<1> DEFINE N == Cardinality(tree.quads)
           d == Start(search, w0)
           Step(n, g) == [i \in 0 .. n |-> IF i = 0 THEN d ELSE Turn(search, zone, g[i - 1])]
           Bad == {n \in 0 .. N : ~ \E g : g = Step(n, g)}
<1>0. N \in Nat
  OBVIOUS
<1>5. FindInZone(search, w0, zone) = (CHOOSE g : g = Step(N, g))[N]
  BY DEF FindInZone, Turn, Start
<1> HIDE DEF N, d
<1>1. ASSUME Bad # {} PROVE FALSE
  <2>1. Bad \in SUBSET Nat
    <3>1. 0 .. N \subseteq Nat
      BY <1>0
    <3> QED BY <3>1, Zenon
  <2>2. PICK m \in Bad : \A n \in Bad : m <= n
    BY <1>1, <2>1, LeastNat
  <2>3. CASE m = 0
    <3> DEFINE g == [i \in 0 .. 0 |-> d]
    <3>1. g = Step(0, g)
      OBVIOUS
    <3> QED BY <2>2, <2>3, <3>1
  <2>4. CASE m # 0
    <3>1. m \in 1 .. N /\ m - 1 \in 0 .. N /\ ~(m <= m - 1)
      BY <1>0, <2>4
    <3>2. PICK g : g = Step(m - 1, g)
      BY <2>2, <3>1
    <3> DEFINE h == [i \in 0 .. m |-> IF i < m THEN g[i] ELSE Turn(search, zone, g[m - 1])]
    <3>3. ASSUME NEW i \in 0 .. m
          PROVE  h[i] = IF i = 0 THEN d ELSE Turn(search, zone, h[i - 1])
      <4>1. CASE i < m
        <5>1. i \in 0 .. m - 1 /\ h[i] = g[i]
          BY <3>1, <4>1
        <5>2. g[i] = IF i = 0 THEN d ELSE Turn(search, zone, g[i - 1])
          BY <3>2, <5>1
        <5>3. i # 0 => h[i - 1] = g[i - 1]
          BY <3>1, <4>1
        <5> QED BY <5>1, <5>2, <5>3
      <4>2. CASE i = m
        <5>1. h[m] = Turn(search, zone, g[m - 1]) /\ h[m - 1] = g[m - 1] /\ m # 0
          BY <3>1
        <5> QED BY <4>2, <5>1
      <4> QED BY <3>1, <4>1, <4>2
    <3>4. h = [i \in 0 .. m |-> h[i]]
      OBVIOUS
    <3> HIDE DEF h
    <3>5. h = Step(m, h)
      BY <3>3, <3>4
    <3> QED BY <2>2, <3>5
  <2> QED BY <2>3, <2>4
<1>2. N \in 0 .. N
  BY <1>0
<1>3. \E g : g = Step(N, g)
  <2> HIDE DEF Step
  <2> QED BY <1>1, <1>2
<1> DEFINE f == CHOOSE g : g = Step(N, g)
<1>4. f = Step(N, f)
  BY <1>3
<1>6. FindInZone(search, w0, zone) = f[N]
  BY <1>5
<1> HIDE DEF f
<1>7. f[0] = d /\ \A i \in 1 .. N : f[i] = Turn(search, zone, f[i - 1])
  BY <1>0, <1>4
<1>8. Turns(f, search, zone, w0)
  BY <1>7 DEF Turns, N, d
<1> QED BY <1>6, <1>8 DEF N

(* A sequence of one element. *)
LEMMA OneElement ==
  ASSUME NEW S, NEW x \in S, NEW s, s = << x >>
  PROVE  s \in Seq(S) /\ Len(s) = 1 /\ s[1] = x
  OBVIOUS

(* The walk of a zone starts with all keys below the root. *)
LEMMA WalkStarts ==
  ASSUME Searchable, NEW search, IsSearch(search), NEW zone,
         NEW w0 \in WalkState, w0.ret = 0, w0.clusters = << >>
  PROVE  Walking(search, zone, w0, Start(search, w0), {}, tree.quads)
<1>v. PICK v : v = Start(search, w0)
  OBVIOUS
<1>1. search.limit \in Nat \ {0}
  BY DEF IsSearch
<1>2. qbounds \in tree.quads /\ \A b \in DOMAIN tree.buckets : In(b, qbounds)
  BY DEF Searchable, Shape
<1>s. PICK s : s = << qbounds >>
  OBVIOUS
<1>3. s \in Seq(tree.quads) /\ Len(s) = 1 /\ s[1] = qbounds
  <2>1. PICK q : q = qbounds
    OBVIOUS
  <2>2. q \in tree.quads /\ s = << q >>
    BY <1>2, <1>s, <2>1
  <2>3. s \in Seq(tree.quads) /\ Len(s) = 1 /\ s[1] = q
    BY <2>2, OneElement
  <2> QED BY <2>1, <2>3
<1>4. /\ v \in WalkState /\ v.ret = 0 /\ v.limit = search.limit /\ v.stack = s
      /\ v.clusters = << >> /\ v.found = w0.found
  <2> DEFINE limit == search.limit
  <2>1. limit \in Int
    BY <1>1
  <2>2. v = [w0 EXCEPT !.limit = limit, !.stack = s]
    BY <1>s, <1>v DEF Start
  <2> HIDE DEF limit
  <2>3. /\ v \in WalkState /\ v.ret = w0.ret /\ v.limit = limit /\ v.stack = s
        /\ v.clusters = w0.clusters /\ v.found = w0.found
    <3>1. RenewedLimit(w0, v, limit, s)
      BY <1>3, <2>1, <2>2 DEF RenewedLimit
    <3> QED BY <3>1, WithLimit
  <2> QED BY <2>3 DEF limit
<1>5. Pending(v, {}) = {qbounds} /\ CellsOf(v) = {}
  <2>1. \A i \in 1 .. Len(s) : s[i] = qbounds
    BY <1>3
  <2>2. 1 \in 1 .. Len(s)
    BY <1>3
  <2>3. {s[i] : i \in 1 .. Len(s)} = {qbounds}
    BY <1>3, <2>1, <2>2
  <2>4. Pending(v, {}) = {s[i] : i \in 1 .. Len(s)}
    BY <1>4 DEF Pending
  <2>5. v.clusters = << >> /\ Len(v.clusters) = 0 /\ 1 .. 0 = {}
    BY <1>4
  <2>6. CellsOf(v) = {}
    BY <2>5 DEF CellsOf
  <2> QED BY <2>3, <2>4, <2>6
<1>6. Seen(search, zone, {}, {qbounds}) = {}
  <2>1. \A k \in Key : HasSlot(k) => Beneath({qbounds}, k)
    BY <1>2 DEF Searchable, Beneath
  <2> QED BY <2>1 DEF Seen, Visible
<1>7. Placed(search, v, {}, tree.quads)
  <2>1. \A i, j \in 1 .. Len(s) : i = j
    BY <1>3
  <2> QED BY <1>4, <2>1 DEF Placed
<1>8. Tallied(search, w0, v, {})
  <2>1. Cardinality({}) = 0 /\ Len(v.clusters) = 0
    BY <1>4, FS_EmptySet
  <2>2. v.limit = search.limit - Cardinality({}) - Len(v.clusters)
    BY <1>1, <1>4, <2>1
  <2>3. search.near => v.limit >= 1
    BY <1>1, <1>4
  <2>4. \A k \in Key : v.found[k] = IF k \in {} THEN w0.found[k] + 1 ELSE w0.found[k]
    BY <1>4
  <2> QED BY <2>2, <2>3, <2>4 DEF Tallied
<1> QED BY <1>4, <1>5, <1>6, <1>7, <1>8, <1>v DEF Walking

(* The walk is at its end, or at most the quads P are left to visit. *)
AfterTurns(search, zone, w0, w, n) ==
    \/ \E P : Walking(search, zone, w0, w, {}, P) /\ w.stack = << >>
    \/ w \in WalkState /\ w.ret = 1 /\ Overflown(search, zone)
    \/ \E P \in SUBSET tree.quads : /\ Cardinality(P) + n <= Cardinality(tree.quads)
                                    /\ Walking(search, zone, w0, w, {}, P)

(* A turn visits one of the quads that are left. *)
LEMMA TurnTaken ==
  ASSUME Searchable, NEW search, IsSearch(search), NEW zone \in Rectangles, NEW w0, NEW w,
         NEW n \in Nat, AfterTurns(search, zone, w0, w, n)
  PROVE  AfterTurns(search, zone, w0, Turn(search, zone, w), n + 1)
<1>1. CASE \E P : Walking(search, zone, w0, w, {}, P) /\ w.stack = << >>
  <2>1. Turn(search, zone, w) = w
    BY <1>1 DEF Turn
  <2> QED BY <1>1, <2>1 DEF AfterTurns
<1>2. CASE w \in WalkState /\ w.ret = 1 /\ Overflown(search, zone)
  <2>1. Turn(search, zone, w) = w
    BY <1>2 DEF Turn
  <2> QED BY <1>2, <2>1 DEF AfterTurns
<1>3. CASE /\ w.stack # << >>
           /\ \E P \in SUBSET tree.quads : /\ Cardinality(P) + n <= Cardinality(tree.quads)
                                           /\ Walking(search, zone, w0, w, {}, P)
  <2>1. PICK P \in SUBSET tree.quads : /\ Cardinality(P) + n <= Cardinality(tree.quads)
                                       /\ Walking(search, zone, w0, w, {}, P)
    BY <1>3
  <2>2. w.ret = 0
    BY <2>1 DEF Walking
  <2>3. Turn(search, zone, w) = VisitQuad(search, zone, w)
    BY <1>3, <2>2 DEF Turn
  <2>4. \E q \in P : /\ q \in tree.quads
                     /\ Progress(search, zone, w0, VisitQuad(search, zone, w), {}, P \ {q})
    BY <1>3, <2>1, VisitTop
  <2>5. PICK q \in P : Progress(search, zone, w0, VisitQuad(search, zone, w), {}, P \ {q})
    BY <2>4
  <2>6. IsFiniteSet(tree.quads)
    BY DEF Searchable, Shape
  <2>7. IsFiniteSet(P) /\ Cardinality(P) \in Nat /\ Cardinality(tree.quads) \in Nat
    BY <2>6, FS_Subset, FS_CardinalityType
  <2>8. Cardinality(P \ {q}) = Cardinality(P) - 1
    BY <2>7, FS_RemoveElement
  <2>9. Cardinality(P \ {q}) + (n + 1) <= Cardinality(tree.quads)
    BY <2>1, <2>7, <2>8
  <2>10. P \ {q} \in SUBSET tree.quads
    OBVIOUS
  <2>v. PICK v : v = VisitQuad(search, zone, w)
    OBVIOUS
  <2>11. Progress(search, zone, w0, v, {}, P \ {q})
    BY <2>5, <2>v
  <2>12. AfterTurns(search, zone, w0, v, n + 1)
    BY <2>9, <2>10, <2>11 DEF Progress, AfterTurns
  <2> QED BY <2>3, <2>12, <2>v
<1> QED BY <1>1, <1>2, <1>3 DEF AfterTurns

(* What the walk of a zone ends with: the visible keys are reported or in  *)
(* a cluster, or they are too many.                                        *)
LEMMA ZoneWalked ==
  ASSUME Searchable, NEW search, IsSearch(search), NEW zone \in Rectangles,
         NEW w0 \in WalkState, w0.ret = 0, w0.clusters = << >>
  PROVE  LET w == FindInZone(search, w0, zone)
         IN  \/ /\ \E P : Walking(search, zone, w0, w, {}, P)
                /\ w.stack = << >>
             \/ w \in WalkState /\ w.ret = 1 /\ Overflown(search, zone)
<1>1. IsFiniteSet(tree.quads)
  BY DEF Searchable, Shape
<1>N. PICK N : N = Cardinality(tree.quads)
  OBVIOUS
<1>2. N \in Nat
  BY <1>1, <1>N, FS_CardinalityType
<1>3. PICK g : /\ Turns(g, search, zone, w0) /\ FindInZone(search, w0, zone) = g[N]
  BY <1>2, <1>N, ZoneTurns
<1>4. AfterTurns(search, zone, w0, g[0], 0)
  <2>1. Walking(search, zone, w0, g[0], {}, tree.quads)
    BY <1>3, WalkStarts DEF Turns
  <2>2. Cardinality(tree.quads) + 0 <= Cardinality(tree.quads)
    BY <1>2, <1>N
  <2> QED BY <2>1, <2>2 DEF AfterTurns
<1> DEFINE Bad == {n \in 0 .. N : ~AfterTurns(search, zone, w0, g[n], n)}
<1>5. ASSUME Bad # {} PROVE FALSE
  <2>1. Bad \in SUBSET Nat
    <3>1. 0 .. N \subseteq Nat
      BY <1>2
    <3> QED BY <3>1, Zenon
  <2>2. PICK m \in Bad : \A n \in Bad : m <= n
    BY <1>5, <2>1, LeastNat
  <2>3. m # 0
    BY <1>4, <2>2
  <2>4. m \in 1 .. N /\ m - 1 \in 0 .. N /\ m - 1 \in Nat /\ ~(m <= m - 1) /\ (m - 1) + 1 = m
    BY <1>2, <2>3
  <2>5. AfterTurns(search, zone, w0, g[m - 1], m - 1)
    BY <2>2, <2>4
  <2>6. g[m] = Turn(search, zone, g[m - 1])
    BY <1>3, <1>N, <2>4 DEF Turns
  <2>7. AfterTurns(search, zone, w0, g[m], (m - 1) + 1)
    BY <2>4, <2>5, <2>6, TurnTaken
  <2> QED BY <2>2, <2>4, <2>7
<1>6. N \in 0 .. N
  BY <1>2
<1>7. AfterTurns(search, zone, w0, g[N], N)
  BY <1>5, <1>6
<1>8. ASSUME NEW P \in SUBSET tree.quads, Cardinality(P) + N <= Cardinality(tree.quads),
             Walking(search, zone, w0, g[N], {}, P)
      PROVE  g[N].stack = << >>
  <2>1. IsFiniteSet(P) /\ Cardinality(P) \in Nat
    BY <1>1, FS_Subset, FS_CardinalityType
  <2>2. Cardinality(P) = 0
    BY <1>2, <1>8, <1>N, <2>1
  <2>3. P = {}
    BY <2>1, <2>2, FS_EmptySet
  <2>4. g[N] \in WalkState /\ Placed(search, g[N], {}, P)
    BY <1>8 DEF Walking
  <2>s. PICK s : s = g[N].stack
    OBVIOUS
  <2>5. s \in Seq(tree.quads)
    BY <2>4, <2>s, StateParts
  <2>6. ASSUME s # << >> PROVE FALSE
    <3>1. 1 \in 1 .. Len(s) /\ s[1] \in tree.quads
      BY <2>5, <2>6
    <3>2. s[1] \in Pending(g[N], {})
      BY <2>s, <3>1 DEF Pending
    <3>3. In(s[1], s[1])
      BY <3>1, Nesting DEF Searchable, Shape
    <3> QED BY <2>3, <2>4, <3>1, <3>2, <3>3 DEF Placed
  <2> QED BY <2>6, <2>s
<1> QED BY <1>3, <1>7, <1>8 DEF AfterTurns
-----------------------------------------------------------------------------
(* The walk of all zones *)

(* At the end of a walk nothing is pending. *)
LEMMA NothingPending ==
  ASSUME NEW search, NEW zone, NEW w0, NEW w, NEW P,
         Walking(search, zone, w0, w, {}, P), w.stack = << >>
  PROVE  /\ w \in WalkState /\ w.ret = 0 /\ Placed(search, w, {}, P)
         /\ Tallied(search, w0, w, Seen(search, zone, CellsOf(w), {}))
<1>1. Pending(w, {}) = {}
  BY DEF Pending
<1> QED BY <1>1 DEF Walking

(* Without clusters the walk of a zone counts each visible key once. *)
LEMMA ZoneReported ==
  ASSUME Searchable, NEW search, IsSearch(search), search.epsilon <= 0, NEW zone \in Rectangles,
         NEW w0 \in WalkState, w0.ret = 0, w0.clusters = << >>
  PROVE  LET w == FindInZone(search, w0, zone)
             V == VisibleKeys(search, zone)
         IN  /\ w \in WalkState
             /\ \/ /\ w.ret = 0 /\ w.clusters = << >>
                   /\ \A k \in Key : w.found[k] = IF k \in V THEN w0.found[k] + 1 ELSE w0.found[k]
                   /\ search.near => Cardinality(V) < search.limit
                \/ w.ret = 1 /\ Overflown(search, zone)
<1>w. PICK w : w = FindInZone(search, w0, zone)
  OBVIOUS
<1> DEFINE V == VisibleKeys(search, zone)
<1>1. \/ /\ \E P : Walking(search, zone, w0, w, {}, P)
         /\ w.stack = << >>
      \/ w \in WalkState /\ w.ret = 1 /\ Overflown(search, zone)
  BY <1>w, ZoneWalked
<1>2. CASE /\ \E P : Walking(search, zone, w0, w, {}, P)
           /\ w.stack = << >>
  <2>1. PICK P : Walking(search, zone, w0, w, {}, P)
    BY <1>2
  <2>2. /\ w \in WalkState /\ w.ret = 0 /\ Placed(search, w, {}, P)
        /\ Tallied(search, w0, w, Seen(search, zone, CellsOf(w), {}))
    BY <1>2, <2>1, NothingPending
  <2>3. w.clusters = << >>
    <3>1. w.clusters \in Seq([cell : tree.quads, children : Nat])
      BY <2>2, StateParts
    <3>2. ASSUME w.clusters # << >> PROVE FALSE
      <4> DEFINE T == [cell : tree.quads, children : Nat]
                 s == w.clusters
      <4>1. s \in Seq(T) /\ s # << >>
        BY <3>1, <3>2
      <4> HIDE DEF T, s
      <4>2. 1 \in 1 .. Len(s)
        BY <4>1
      <4>3. search.epsilon > 0
        BY <2>2, <4>2 DEF s, Placed
      <4> QED BY <4>3 DEF IsSearch
    <3> QED BY <3>2
  <2>4. Len(w.clusters) = 0 /\ CellsOf(w) = {}
    BY <2>3 DEF CellsOf
  <2>5. Seen(search, zone, CellsOf(w), {}) = V
    BY <2>4 DEF Seen, Beneath, VisibleKeys
  <2>6. /\ w.limit = search.limit - Cardinality(V) - Len(w.clusters)
        /\ \A k \in Key : w.found[k] = IF k \in V THEN w0.found[k] + 1 ELSE w0.found[k]
        /\ search.near => w.limit >= 1
    BY <2>2, <2>5 DEF Tallied
  <2>7. Cardinality(V) \in Nat
    <3>1. V \subseteq Key /\ IsFiniteSet(Key)
      BY TreeAssumption DEF VisibleKeys
    <3> HIDE DEF V
    <3> QED BY <3>1, FS_Subset, FS_CardinalityType
  <2>8. search.near => Cardinality(V) < search.limit
    <3> HIDE DEF V
    <3> QED BY <2>4, <2>6, <2>7 DEF IsSearch
  <2> QED BY <1>w, <2>2, <2>3, <2>6, <2>8
<1>3. CASE w \in WalkState /\ w.ret = 1 /\ Overflown(search, zone)
  BY <1>3, <1>w
<1> QED BY <1>1, <1>2, <1>3
-----------------------------------------------------------------------------
(* All zones *)

Blank == [ret |-> 0, limit |-> 0, stack |-> << >>, clusters |-> << >>, found |-> [k \in Key |-> 0]]

NextZone(search, w, zone) == IF w.ret # 0 THEN w ELSE FindInZone(search, w, zone)

(* The states between the zones. *)
ZoneByZone(g, search, zones) ==
    /\ g[0] = Blank
    /\ \A i \in 1 .. Len(zones) : g[i] = NextZone(search, g[i - 1], zones[i])

(* They exist: the recursion of FindInZones is well-founded. *)
LEMMA AllZones ==
  ASSUME NEW search, NEW zones, Len(zones) \in Nat
  PROVE  \E g : ZoneByZone(g, search, zones) /\ FindInZones(search, zones) = g[Len(zones)]
<1> DEFINE N == Len(zones)
           d == Blank
           Step(n, g) == [i \in 0 .. n |-> IF i = 0 THEN d ELSE NextZone(search, g[i - 1], zones[i])]
           Bad == {n \in 0 .. N : ~ \E g : g = Step(n, g)}
<1>0. N \in Nat
  OBVIOUS
<1>5. FindInZones(search, zones) = (CHOOSE g : g = Step(N, g))[N]
  BY DEF FindInZones, NextZone, Blank
<1> HIDE DEF N, d
<1>1. ASSUME Bad # {} PROVE FALSE
  <2>1. Bad \in SUBSET Nat
    <3>1. 0 .. N \subseteq Nat
      BY <1>0
    <3> QED BY <3>1, Zenon
  <2>2. PICK m \in Bad : \A n \in Bad : m <= n
    BY <1>1, <2>1, LeastNat
  <2>3. CASE m = 0
    <3> DEFINE g == [i \in 0 .. 0 |-> d]
    <3>1. g = Step(0, g)
      OBVIOUS
    <3> QED BY <2>2, <2>3, <3>1
  <2>4. CASE m # 0
    <3>1. m \in 1 .. N /\ m - 1 \in 0 .. N /\ ~(m <= m - 1)
      BY <1>0, <2>4
    <3>2. PICK g : g = Step(m - 1, g)
      BY <2>2, <3>1
    <3> DEFINE h == [i \in 0 .. m |-> IF i < m THEN g[i] ELSE NextZone(search, g[m - 1], zones[m])]
    <3>3. ASSUME NEW i \in 0 .. m
          PROVE  h[i] = IF i = 0 THEN d ELSE NextZone(search, h[i - 1], zones[i])
      <4>1. CASE i < m
        <5>1. i \in 0 .. m - 1 /\ h[i] = g[i]
          BY <3>1, <4>1
        <5>2. g[i] = IF i = 0 THEN d ELSE NextZone(search, g[i - 1], zones[i])
          BY <3>2, <5>1
        <5>3. i # 0 => h[i - 1] = g[i - 1]
          BY <3>1, <4>1
        <5> QED BY <5>1, <5>2, <5>3
      <4>2. CASE i = m
        <5>1. h[m] = NextZone(search, g[m - 1], zones[m]) /\ h[m - 1] = g[m - 1] /\ m # 0
          BY <3>1
        <5> QED BY <4>2, <5>1
      <4> QED BY <3>1, <4>1, <4>2
    <3>4. h = [i \in 0 .. m |-> h[i]]
      OBVIOUS
    <3> HIDE DEF h
    <3>5. h = Step(m, h)
      BY <3>3, <3>4
    <3> QED BY <2>2, <3>5
  <2> QED BY <2>3, <2>4
<1>2. N \in 0 .. N
  BY <1>0
<1>3. \E g : g = Step(N, g)
  <2> HIDE DEF Step
  <2> QED BY <1>1, <1>2
<1> DEFINE f == CHOOSE g : g = Step(N, g)
<1>4. f = Step(N, f)
  BY <1>3
<1>6. FindInZones(search, zones) = f[N]
  BY <1>5
<1> HIDE DEF f
<1>7. f[0] = d /\ \A i \in 1 .. N : f[i] = NextZone(search, f[i - 1], zones[i])
  BY <1>0, <1>4
<1>8. ZoneByZone(f, search, zones)
  BY <1>7 DEF ZoneByZone, N, d
<1> QED BY <1>6, <1>8 DEF N

(* The searches start with nothing. *)
LEMMA BlankFacts ==
  /\ Blank \in WalkState /\ Blank.ret = 0 /\ Blank.clusters = << >>
  /\ \A k \in Key : Blank.found[k] = 0
<1> DEFINE S == Seq(tree.quads)
           C == Seq([cell : tree.quads, children : Nat])
           F == [Key -> Nat]
           f == [k \in Key |-> 0]
<1>1. << >> \in S /\ << >> \in C /\ f \in F
  OBVIOUS
<1>2. Blank.ret = 0 /\ Blank.clusters = << >> /\ Blank.found = f
  BY DEF Blank
<1>3. \A k \in Key : f[k] = 0
  OBVIOUS
<1>4. Blank \in [ret : {0, 1}, limit : Int, stack : S, clusters : C, found : F]
  <2> HIDE DEF S, C, F
  <2>1. Blank = [ret |-> 0, limit |-> 0, stack |-> << >>, clusters |-> << >>, found |-> f]
    BY DEF Blank
  <2> HIDE DEF f
  <2> QED BY <1>1, <2>1
<1> QED BY <1>2, <1>3, <1>4 DEF WalkState

(* No key is visible in two zones. *)
ZonesApart(search, zones) ==
    \A i, j \in 1 .. Len(zones) :
       i # j => VisibleKeys(search, zones[i]) \cap VisibleKeys(search, zones[j]) = {}

VisibleInFirst(search, zones, n) == {k \in Key : \E i \in 1 .. n : Visible(search, zones[i], k)}

(* What a search without clusters has found in the first n zones. *)
AfterZones(search, zones, w, n) ==
    /\ w \in WalkState
    /\ \/ /\ w.ret = 0 /\ w.clusters = << >>
          /\ Reported(w, VisibleInFirst(search, zones, n))
          /\ search.near => \A i \in 1 .. n : Cardinality(VisibleKeys(search, zones[i])) < search.limit
       \/ w.ret = 1 /\ \E i \in 1 .. Len(zones) : Overflown(search, zones[i])

(* A zone adds its visible keys. *)
LEMMA ZoneAdded ==
  ASSUME Searchable, NEW search, IsSearch(search), search.epsilon <= 0,
         NEW zones, Len(zones) \in Nat, \A i \in 1 .. Len(zones) : zones[i] \in Rectangles,
         ZonesApart(search, zones), NEW n \in 1 .. Len(zones), NEW w,
         AfterZones(search, zones, w, n - 1)
  PROVE  AfterZones(search, zones, NextZone(search, w, zones[n]), n)
<1>v. PICK v : v = NextZone(search, w, zones[n])
  OBVIOUS
<1>0. w \in WalkState
  BY DEF AfterZones
<1>1. CASE w.ret = 1 /\ \E i \in 1 .. Len(zones) : Overflown(search, zones[i])
  <2>1. v = w
    BY <1>1, <1>v DEF NextZone
  <2> QED BY <1>0, <1>1, <1>v, <2>1 DEF AfterZones
<1>2. ASSUME /\ w.ret = 0 /\ w.clusters = << >>
             /\ Reported(w, VisibleInFirst(search, zones, n - 1))
             /\ search.near => \A i \in 1 .. n - 1 : Cardinality(VisibleKeys(search, zones[i])) < search.limit
      PROVE  AfterZones(search, zones, v, n)
  <2>z. PICK zone : zone = zones[n]
    OBVIOUS
  <2> DEFINE V == VisibleKeys(search, zone)
  <2>1. zone \in Rectangles
    BY <2>z
  <2>2. v = FindInZone(search, w, zone)
    BY <1>2, <1>v, <2>z DEF NextZone
  <2>3. /\ v \in WalkState
        /\ \/ /\ v.ret = 0 /\ v.clusters = << >>
              /\ \A k \in Key : v.found[k] = IF k \in V THEN w.found[k] + 1 ELSE w.found[k]
              /\ search.near => Cardinality(V) < search.limit
           \/ v.ret = 1 /\ Overflown(search, zone)
    BY <1>0, <1>2, <2>1, <2>2, ZoneReported
  <2>4. CASE v.ret = 1 /\ Overflown(search, zone)
    BY <2>3, <2>4, <2>z DEF AfterZones
  <2>5. ASSUME /\ v.ret = 0 /\ v.clusters = << >>
               /\ \A k \in Key : v.found[k] = IF k \in V THEN w.found[k] + 1 ELSE w.found[k]
               /\ search.near => Cardinality(V) < search.limit
        PROVE  AfterZones(search, zones, v, n)
    <3>1. 1 .. n = (1 .. n - 1) \cup {n} /\ n \notin 1 .. n - 1 /\ 1 .. n - 1 \subseteq 1 .. Len(zones)
      OBVIOUS
    <3>2. ASSUME NEW k \in Key PROVE v.found[k] = IF k \in VisibleInFirst(search, zones, n) THEN 1 ELSE 0
      <4>1. w.found[k] = IF k \in VisibleInFirst(search, zones, n - 1) THEN 1 ELSE 0
        BY <1>2 DEF Reported
      <4>2. k \in VisibleInFirst(search, zones, n) <=> k \in VisibleInFirst(search, zones, n - 1) \/ k \in V
        BY <2>z, <3>1 DEF VisibleInFirst, VisibleKeys
      <4>3. ~(k \in VisibleInFirst(search, zones, n - 1) /\ k \in V)
        <5>1. SUFFICES ASSUME k \in VisibleInFirst(search, zones, n - 1), k \in V PROVE FALSE
          OBVIOUS
        <5>2. PICK i \in 1 .. n - 1 : Visible(search, zones[i], k)
          BY <5>1 DEF VisibleInFirst
        <5>3. k \in VisibleKeys(search, zones[i]) /\ i \in 1 .. Len(zones) /\ i # n
          BY <3>1, <5>2 DEF VisibleKeys
        <5> QED BY <2>z, <5>1, <5>3 DEF ZonesApart
      <4> HIDE DEF V
      <4>4. v.found[k] = IF k \in V THEN w.found[k] + 1 ELSE w.found[k]
        BY <2>5
      <4> QED BY <4>1, <4>2, <4>3, <4>4
    <3>3. search.near => \A i \in 1 .. n : Cardinality(VisibleKeys(search, zones[i])) < search.limit
      BY <1>2, <2>5, <2>z, <3>1
    <3>4. Reported(v, VisibleInFirst(search, zones, n))
      BY <3>2 DEF Reported
    <3> QED BY <2>3, <2>5, <3>3, <3>4 DEF AfterZones
  <2> QED BY <2>3, <2>4, <2>5
<1> QED BY <1>1, <1>2, <1>v DEF AfterZones

(* A search without clusters, over all its zones. *)
LEMMA ZonesReported ==
  ASSUME Searchable, NEW search, IsSearch(search), search.epsilon <= 0,
         NEW zones, Len(zones) \in Nat, \A i \in 1 .. Len(zones) : zones[i] \in Rectangles,
         ZonesApart(search, zones)
  PROVE  AfterZones(search, zones, FindInZones(search, zones), Len(zones))
<1>N. PICK N : N = Len(zones)
  OBVIOUS
<1>1. PICK g : ZoneByZone(g, search, zones) /\ FindInZones(search, zones) = g[Len(zones)]
  BY AllZones
<1>2. AfterZones(search, zones, g[0], 0)
  <2>1. VisibleInFirst(search, zones, 0) = {}
    BY DEF VisibleInFirst
  <2>2. Reported(Blank, VisibleInFirst(search, zones, 0))
    BY <2>1, BlankFacts DEF Reported
  <2>3. g[0] = Blank
    BY <1>1 DEF ZoneByZone
  <2> QED BY <2>2, <2>3, BlankFacts DEF AfterZones
<1> DEFINE Bad == {n \in 0 .. N : ~AfterZones(search, zones, g[n], n)}
<1>3. ASSUME Bad # {} PROVE FALSE
  <2>1. Bad \in SUBSET Nat
    <3>1. 0 .. N \subseteq Nat
      BY <1>N
    <3> QED BY <3>1, Zenon
  <2>2. PICK m \in Bad : \A n \in Bad : m <= n
    BY <1>3, <2>1, LeastNat
  <2>3. m # 0
    BY <1>2, <2>2
  <2>4. m \in 1 .. N /\ m - 1 \in 0 .. N /\ ~(m <= m - 1)
    BY <1>N, <2>3
  <2>5. AfterZones(search, zones, g[m - 1], m - 1)
    BY <2>2, <2>4
  <2>6. g[m] = NextZone(search, g[m - 1], zones[m])
    BY <1>1, <1>N, <2>4 DEF ZoneByZone
  <2>7. AfterZones(search, zones, g[m], m)
    BY <1>N, <2>4, <2>5, <2>6, ZoneAdded
  <2> QED BY <2>2, <2>7
<1>4. N \in 0 .. N
  BY <1>N
<1> QED BY <1>1, <1>3, <1>4, <1>N
-----------------------------------------------------------------------------
(* Rectangles that wrap *)

(* The zones of find_zones, one dimension at a time: B is the bound. *)
Clamp0(B, x) == dimension_max(-2 * B, x)
Clamp1(B, x) == dimension_min(2 * B, x)
Low(B, x)    == dimension_max(-B, Clamp0(B, x))
High(B, x)   == dimension_min(B, Clamp1(B, x))
Beyond0(B, x) == Clamp0(B, x) < -B
Beyond1(B, x) == Clamp1(B, x) > B
From(B, x0, x1) == dimension_max(High(B, x1), Clamp0(B, x0) + 2 * B)
Upto(B, x0, x1) == dimension_min(Low(B, x0), Clamp1(B, x1) - 2 * B)

Between(x, x0, x1) == x0 <= x /\ x < x1

(* The edges of the zones are numbers. *)
LEMMA EdgesTyped ==
  ASSUME NEW B \in Nat, NEW x0 \in Int, NEW x1 \in Int
  PROVE  /\ Low(B, x0) \in Int /\ High(B, x1) \in Int
         /\ From(B, x0, x1) \in Int /\ Upto(B, x0, x1) \in Int
  BY DEF Low, High, From, Upto, Clamp0, Clamp1, dimension_min, dimension_max

(* Where a coordinate between the bounds lies. *)
LEMMA Places ==
  ASSUME NEW B \in Nat \ {0}, NEW x0 \in Int, NEW x1 \in Int, NEW x \in Int, Between(x, -B, B)
  PROVE  /\ Between(x, Low(B, x0), High(B, x1)) <=> Between(x, x0, x1)
         /\ ~(Between(x, x0, x1) /\ Between(x, From(B, x0, x1), B))
         /\ ~(Between(x, x0, x1) /\ Between(x, -B, Upto(B, x0, x1)))
         /\ ~(/\ Beyond0(B, x0) /\ Between(x, From(B, x0, x1), B)
              /\ Beyond1(B, x1) /\ Between(x, -B, Upto(B, x0, x1)))
<1>1. Between(x, Low(B, x0), High(B, x1)) <=> Between(x, x0, x1)
  BY DEF Between, Low, High, Clamp0, Clamp1, dimension_min, dimension_max
<1>2. ~(Between(x, x0, x1) /\ Between(x, From(B, x0, x1), B))
  BY DEF Between, High, From, Clamp0, Clamp1, dimension_min, dimension_max
<1>3. ~(Between(x, x0, x1) /\ Between(x, -B, Upto(B, x0, x1)))
  BY DEF Between, Low, Upto, Clamp0, Clamp1, dimension_min, dimension_max
<1>4. ~(/\ Beyond0(B, x0) /\ Between(x, From(B, x0, x1), B)
        /\ Beyond1(B, x1) /\ Between(x, -B, Upto(B, x0, x1)))
  BY DEF Between, Low, Upto, Clamp0, Clamp1, Beyond0, Beyond1, dimension_min, dimension_max
<1> QED BY <1>1, <1>2, <1>3, <1>4

(* What is over an edge comes back on the other side. *)
LEMMA ComesBack ==
  ASSUME NEW B \in Nat \ {0}, NEW x0 \in Int, NEW x1 \in Int, NEW x \in Int, Between(x, -B, B),
         InReach(B, x0, x1), ~Between(x, x0, x1)
  PROVE  /\ Between(x - 2 * B, x0, x1) <=> Beyond0(B, x0) /\ Between(x, From(B, x0, x1), B)
         /\ Between(x + 2 * B, x0, x1) <=> Beyond1(B, x1) /\ Between(x, -B, Upto(B, x0, x1))
<1>1. Between(x - 2 * B, x0, x1) <=> Beyond0(B, x0) /\ Between(x, From(B, x0, x1), B)
  BY DEF Between, InReach, High, From, Clamp0, Clamp1, Beyond0, dimension_min, dimension_max
<1>2. Between(x + 2 * B, x0, x1) <=> Beyond1(B, x1) /\ Between(x, -B, Upto(B, x0, x1))
  BY DEF Between, InReach, Low, Upto, Clamp0, Clamp1, Beyond1, dimension_min, dimension_max
<1> QED BY <1>1, <1>2

(* When both edges are crossed nothing is left outside. *)
LEMMA BothBeyond ==
  ASSUME NEW B \in Nat \ {0}, NEW x0 \in Int, NEW x1 \in Int, NEW x \in Int, Between(x, -B, B),
         Beyond0(B, x0), Beyond1(B, x1)
  PROVE  Between(x, x0, x1)
  BY DEF Between, Clamp0, Clamp1, Beyond0, Beyond1, dimension_min, dimension_max
-----------------------------------------------------------------------------
(* Sequences of zones *)

(* The positions of a zone inside the layer. *)
Owned(z) == {p \in Point : position_is_in_rect(p, qbounds) /\ position_is_in_rect(p, z)}

(* The zones s, the first of them b and the others of F, share no position *)
(* and own the positions U between them.                                   *)
Tiled(s, b, F, U) ==
    /\ s \in Seq(Rectangles) /\ Len(s) \in Nat \ {0} /\ s[1] = b
    /\ \A i \in 2 .. Len(s) : s[i] \in F
    /\ \A i, j \in 1 .. Len(s) : i # j => Owned(s[i]) \cap Owned(s[j]) = {}
    /\ U = UNION {Owned(s[i]) : i \in 1 .. Len(s)}

Optional(crossed, zone) == IF crossed THEN << zone >> ELSE << >>

(* One zone alone. *)
LEMMA OneZone ==
  ASSUME NEW b \in Rectangles, NEW F
  PROVE  Tiled(<< b >>, b, F, Owned(b))
<1>s. PICK s : s = << b >>
  OBVIOUS
<1>1. s \in Seq(Rectangles) /\ Len(s) = 1 /\ s[1] = b
  BY <1>s, OneElement
<1>2. \A i \in 1 .. Len(s) : i = 1 /\ s[i] = b
  BY <1>1
<1>3. 1 \in 1 .. Len(s) /\ 2 .. Len(s) = {}
  BY <1>1
<1>4. Owned(b) = UNION {Owned(s[i]) : i \in 1 .. Len(s)}
  BY <1>2, <1>3
<1>5. Tiled(s, b, F, Owned(b))
  BY <1>1, <1>2, <1>3, <1>4 DEF Tiled
<1> QED BY <1>5, <1>s

(* The zone z, when it is there, is new. *)
NewZone(s, b, F, U, crossed, z, t, V) ==
    /\ Tiled(s, b, F, U) /\ z \in Rectangles
    /\ crossed => z \in F /\ U \cap Owned(z) = {}
    /\ t = s \o Optional(crossed, z)
    /\ V = U \cup (IF crossed THEN Owned(z) ELSE {})

(* One zone more. *)
LEMMA OneZoneMore ==
  ASSUME NEW s, NEW b, NEW F, NEW U, NEW crossed \in BOOLEAN, NEW z, NEW t, NEW V,
         NewZone(s, b, F, U, crossed, z, t, V)
  PROVE  /\ Tiled(t, b, F, V) /\ Len(s) \in Nat /\ Len(t) \in Nat
         /\ Len(t) = IF crossed THEN Len(s) + 1 ELSE Len(s)
<1>0. /\ s \in Seq(Rectangles) /\ Len(s) \in Nat \ {0} /\ s[1] = b
      /\ \A i \in 2 .. Len(s) : s[i] \in F
      /\ \A i, j \in 1 .. Len(s) : i # j => Owned(s[i]) \cap Owned(s[j]) = {}
      /\ U = UNION {Owned(s[i]) : i \in 1 .. Len(s)}
      /\ z \in Rectangles /\ (crossed => z \in F /\ U \cap Owned(z) = {})
  BY DEF NewZone, Tiled
<1>1. CASE ~crossed
  <2>1. t = s /\ V = U
    BY <1>0, <1>1 DEF NewZone, Optional
  <2> QED BY <1>0, <1>1, <2>1 DEF NewZone
<1>2. CASE crossed
  <2>1. t = Append(s, z) /\ V = U \cup Owned(z)
    <3>1. t = s \o << z >>
      BY <1>2 DEF NewZone, Optional
    <3>2. s \o << z >> = Append(s, z)
      BY <1>0, AppendIsConcat
    <3> QED BY <1>2, <3>1, <3>2 DEF NewZone
  <2>2. /\ t \in Seq(Rectangles) /\ Len(t) = Len(s) + 1
        /\ \A i \in 1 .. Len(s) : t[i] = s[i]
        /\ t[Len(s) + 1] = z
    BY <1>0, <2>1, Appended
  <2>n. PICK n : n = Len(s)
    OBVIOUS
  <2>3. n \in Nat \ {0} /\ Len(t) = n + 1 /\ 1 .. n + 1 = (1 .. n) \cup {n + 1} /\ 1 \in 1 .. n
    BY <1>0, <2>2, <2>n
  <2>4. t[1] = b
    BY <1>0, <2>2, <2>3, <2>n
  <2>5. \A i \in 2 .. Len(t) : t[i] \in F
    <3> TAKE i \in 2 .. Len(t)
    <3>1. CASE i = n + 1
      BY <1>0, <1>2, <2>2, <2>n, <3>1
    <3>2. CASE i # n + 1
      <4>1. i \in 2 .. n /\ i \in 1 .. n
        BY <2>3, <3>2
      <4> QED BY <1>0, <2>2, <2>n, <4>1
    <3> QED BY <3>1, <3>2
  <2>6. \A i \in 1 .. n : Owned(t[i]) = Owned(s[i]) /\ Owned(s[i]) \subseteq U
    BY <1>0, <2>2, <2>n
  <2>7. Owned(t[n + 1]) = Owned(z)
    BY <2>2, <2>n
  <2>8. V = UNION {Owned(t[i]) : i \in 1 .. n + 1}
    <3>1. \A p : p \in V => \E i \in 1 .. n + 1 : p \in Owned(t[i])
      BY <1>0, <2>1, <2>3, <2>6, <2>7, <2>n
    <3>2. \A i \in 1 .. n + 1 : Owned(t[i]) \subseteq V
      BY <2>1, <2>3, <2>6, <2>7
    <3> QED BY <3>1, <3>2
  <2>9. ASSUME NEW i \in 1 .. n + 1, NEW j \in 1 .. n + 1, i # j
        PROVE  Owned(t[i]) \cap Owned(t[j]) = {}
    <3>1. CASE i \in 1 .. n /\ j \in 1 .. n
      BY <1>0, <2>6, <2>9, <2>n, <3>1
    <3>2. CASE i = n + 1 /\ j \in 1 .. n
      BY <1>0, <1>2, <2>6, <2>7, <3>2
    <3>3. CASE i \in 1 .. n /\ j = n + 1
      BY <1>0, <1>2, <2>6, <2>7, <3>3
    <3> QED BY <2>3, <2>9, <3>1, <3>2, <3>3
  <2> QED BY <1>2, <2>2, <2>3, <2>4, <2>5, <2>8, <2>9, <2>n DEF Tiled
<1> QED BY <1>1, <1>2
-----------------------------------------------------------------------------
(* The zones of find_zones *)

FirstZone(r) == Rect(Low(LatBound, r.edge0.latitude), Low(LonBound, r.edge0.longitude),
                     High(LatBound, r.edge1.latitude), High(LonBound, r.edge1.longitude))
(* Over the lower latitude, the lower longitude, the upper ones. *)
TopZone(r) == Rect(From(LatBound, r.edge0.latitude, r.edge1.latitude), Low(LonBound, r.edge0.longitude),
                   LatBound, High(LonBound, r.edge1.longitude))
RightZone(r) == Rect(Low(LatBound, r.edge0.latitude), From(LonBound, r.edge0.longitude, r.edge1.longitude),
                     High(LatBound, r.edge1.latitude), LonBound)
BottomZone(r) == Rect(-LatBound, Low(LonBound, r.edge0.longitude),
                      Upto(LatBound, r.edge0.latitude, r.edge1.latitude), High(LonBound, r.edge1.longitude))
LeftZone(r) == Rect(Low(LatBound, r.edge0.latitude), -LonBound,
                    High(LatBound, r.edge1.latitude), Upto(LonBound, r.edge0.longitude, r.edge1.longitude))

Under0(r) == Beyond0(LatBound, r.edge0.latitude)
Left0(r)  == Beyond0(LonBound, r.edge0.longitude)
Over1(r)  == Beyond1(LatBound, r.edge1.latitude)
Right1(r) == Beyond1(LonBound, r.edge1.longitude)

FiveZones(r) == (((<< FirstZone(r) >> \o Optional(Under0(r), TopZone(r)))
                  \o Optional(Left0(r), RightZone(r)))
                 \o Optional(Over1(r), BottomZone(r)))
                \o Optional(Right1(r), LeftZone(r))

(* The corners of the zones. *)
LEMMA ZoneCorners ==
  ASSUME NEW r \in Rectangles
  PROVE  LET a0 == r.edge0.latitude  a1 == r.edge1.latitude
             o0 == r.edge0.longitude o1 == r.edge1.longitude
         IN  /\ a0 \in Int /\ a1 \in Int /\ o0 \in Int /\ o1 \in Int
             /\ FirstZone(r) \in Rectangles /\ TopZone(r) \in Rectangles /\ RightZone(r) \in Rectangles
             /\ BottomZone(r) \in Rectangles /\ LeftZone(r) \in Rectangles
             /\ Corners(FirstZone(r), Low(LatBound, a0), Low(LonBound, o0), High(LatBound, a1), High(LonBound, o1))
             /\ Corners(TopZone(r), From(LatBound, a0, a1), Low(LonBound, o0), LatBound, High(LonBound, o1))
             /\ Corners(RightZone(r), Low(LatBound, a0), From(LonBound, o0, o1), High(LatBound, a1), LonBound)
             /\ Corners(BottomZone(r), -LatBound, Low(LonBound, o0), Upto(LatBound, a0, a1), High(LonBound, o1))
             /\ Corners(LeftZone(r), Low(LatBound, a0), -LonBound, High(LatBound, a1), Upto(LonBound, o0, o1))
<1> DEFINE a0 == r.edge0.latitude
           a1 == r.edge1.latitude
           o0 == r.edge0.longitude
           o1 == r.edge1.longitude
<1>1. a0 \in Int /\ a1 \in Int /\ o0 \in Int /\ o1 \in Int
  BY DEF Rectangles, Point
<1>2. LatBound \in Nat /\ LonBound \in Nat /\ -LatBound \in Int /\ -LonBound \in Int
  BY TreeAssumption
<1> HIDE DEF a0, a1, o0, o1
<1>3. /\ Low(LatBound, a0) \in Int /\ High(LatBound, a1) \in Int
      /\ From(LatBound, a0, a1) \in Int /\ Upto(LatBound, a0, a1) \in Int
      /\ Low(LonBound, o0) \in Int /\ High(LonBound, o1) \in Int
      /\ From(LonBound, o0, o1) \in Int /\ Upto(LonBound, o0, o1) \in Int
  BY <1>1, <1>2, EdgesTyped
<1>4. \A a, b, c, d \in Int : Rect(a, b, c, d) \in Rectangles /\ Corners(Rect(a, b, c, d), a, b, c, d)
  BY RectFacts DEF Rectangles, Corners
<1>5. LatBound \in Int /\ LonBound \in Int
  BY <1>2
<1>6. FirstZone(r) \in Rectangles
      /\ Corners(FirstZone(r), Low(LatBound, a0), Low(LonBound, o0), High(LatBound, a1), High(LonBound, o1))
  BY <1>3, <1>4 DEF FirstZone, a0, a1, o0, o1
<1>7. TopZone(r) \in Rectangles
      /\ Corners(TopZone(r), From(LatBound, a0, a1), Low(LonBound, o0), LatBound, High(LonBound, o1))
  BY <1>3, <1>4, <1>5 DEF TopZone, a0, a1, o0, o1
<1>8. RightZone(r) \in Rectangles
      /\ Corners(RightZone(r), Low(LatBound, a0), From(LonBound, o0, o1), High(LatBound, a1), LonBound)
  BY <1>3, <1>4, <1>5 DEF RightZone, a0, a1, o0, o1
<1>9. BottomZone(r) \in Rectangles
      /\ Corners(BottomZone(r), -LatBound, Low(LonBound, o0), Upto(LatBound, a0, a1), High(LonBound, o1))
  BY <1>2, <1>3, <1>4 DEF BottomZone, a0, a1, o0, o1
<1>10. LeftZone(r) \in Rectangles
      /\ Corners(LeftZone(r), Low(LatBound, a0), -LonBound, High(LatBound, a1), Upto(LonBound, o0, o1))
  BY <1>2, <1>3, <1>4 DEF LeftZone, a0, a1, o0, o1
<1> QED BY <1>1, <1>6, <1>7, <1>8, <1>9, <1>10 DEF a0, a1, o0, o1

(* What find_zones returns. *)
LEMMA ZonesFound ==
  ASSUME NEW r \in Rectangles
  PROVE  find_zones(r) = IF Len(FiveZones(r)) > 4 THEN << FirstZone(r) >> ELSE FiveZones(r)
<1> DEFINE lat0 == dimension_max(-2 * LatBound, r.edge0.latitude)
           lon0 == dimension_max(-2 * LonBound, r.edge0.longitude)
           lat1 == dimension_min(2 * LatBound, r.edge1.latitude)
           lon1 == dimension_min(2 * LonBound, r.edge1.longitude)
           b == Rect(dimension_max(-LatBound, lat0), dimension_max(-LonBound, lon0),
                     dimension_min(LatBound, lat1), dimension_min(LonBound, lon1))
           z2 == Rect(dimension_max(b.edge1.latitude, lat0 + 2 * LatBound), b.edge0.longitude,
                      LatBound, b.edge1.longitude)
           z3 == Rect(b.edge0.latitude, dimension_max(b.edge1.longitude, lon0 + 2 * LonBound),
                      b.edge1.latitude, LonBound)
           z4 == Rect(-LatBound, b.edge0.longitude,
                      dimension_min(b.edge0.latitude, lat1 - 2 * LatBound), b.edge1.longitude)
           z5 == Rect(b.edge0.latitude, -LonBound,
                      b.edge1.latitude, dimension_min(b.edge0.longitude, lon1 - 2 * LonBound))
           zones == << b >> \o Optional(lat0 < -LatBound, z2) \o Optional(lon0 < -LonBound, z3)
                            \o Optional(lat1 > LatBound, z4) \o Optional(lon1 > LonBound, z5)
<1>1. find_zones(r) = IF Len(zones) > 4 THEN << b >> ELSE zones
  BY DEF find_zones, Optional
<1>2. b = FirstZone(r)
  BY DEF FirstZone, Low, High, Clamp0, Clamp1
<1>3. /\ b.edge0.latitude = Low(LatBound, r.edge0.latitude)
      /\ b.edge0.longitude = Low(LonBound, r.edge0.longitude)
      /\ b.edge1.latitude = High(LatBound, r.edge1.latitude)
      /\ b.edge1.longitude = High(LonBound, r.edge1.longitude)
  <2> HIDE DEF b
  <2> QED BY <1>2, ZoneCorners DEF Corners
<1> HIDE DEF b
<1>4. z2 = TopZone(r)
  BY <1>3 DEF TopZone, From, Clamp0
<1>5. z3 = RightZone(r)
  BY <1>3 DEF RightZone, From, Clamp0
<1>6. z4 = BottomZone(r)
  BY <1>3 DEF BottomZone, Upto, Clamp1
<1>7. z5 = LeftZone(r)
  BY <1>3 DEF LeftZone, Upto, Clamp1
<1>8. /\ (lat0 < -LatBound) = Under0(r) /\ (lon0 < -LonBound) = Left0(r)
      /\ (lat1 > LatBound) = Over1(r) /\ (lon1 > LonBound) = Right1(r)
  BY DEF Under0, Left0, Over1, Right1, Beyond0, Beyond1, Clamp0, Clamp1
<1> HIDE DEF z2, z3, z4, z5, lat0, lat1, lon0, lon1
<1>9. zones = FiveZones(r)
  BY <1>2, <1>4, <1>5, <1>6, <1>7, <1>8 DEF FiveZones
<1> HIDE DEF zones
<1> QED BY <1>1, <1>2, <1>9
-----------------------------------------------------------------------------
(* The positions of the zones *)

LatitudeIn(r, p)  == Between(p.latitude, r.edge0.latitude, r.edge1.latitude)
LongitudeIn(r, p) == Between(p.longitude, r.edge0.longitude, r.edge1.longitude)
AtTop(r, p)    == Between(p.latitude, From(LatBound, r.edge0.latitude, r.edge1.latitude), LatBound)
AtBottom(r, p) == Between(p.latitude, -LatBound, Upto(LatBound, r.edge0.latitude, r.edge1.latitude))
AtRight(r, p)  == Between(p.longitude, From(LonBound, r.edge0.longitude, r.edge1.longitude), LonBound)
AtLeft(r, p)   == Between(p.longitude, -LonBound, Upto(LonBound, r.edge0.longitude, r.edge1.longitude))

(* A position of the layer. *)
Inside(p) == p \in Point /\ position_is_in_rect(p, qbounds)

(* The coordinates of a position of the layer are between the bounds. *)
LEMMA InsideFacts ==
  ASSUME NEW p, Inside(p)
  PROVE  /\ p.latitude \in Int /\ p.longitude \in Int
         /\ Between(p.latitude, -LatBound, LatBound) /\ Between(p.longitude, -LonBound, LonBound)
<1>1. p.latitude \in Int /\ p.longitude \in Int
  BY DEF Inside, Point
<1>2. LatBound \in Nat /\ LonBound \in Nat
  BY TreeAssumption
<1> DEFINE a == -LatBound
           b == -LonBound
<1>3. a \in Int /\ b \in Int /\ LatBound \in Int /\ LonBound \in Int
  BY <1>2
<1>4. qbounds = Rect(a, b, LatBound, LonBound)
  BY DEF qbounds
<1> HIDE DEF a, b
<1>5. /\ qbounds.edge0.latitude = a /\ qbounds.edge0.longitude = b
      /\ qbounds.edge1.latitude = LatBound /\ qbounds.edge1.longitude = LonBound
  BY <1>3, <1>4 DEF Rect
<1>6. Between(p.latitude, a, LatBound) /\ Between(p.longitude, b, LonBound)
  BY <1>1, <1>3, <1>5 DEF Inside, position_is_in_rect, Between
<1> QED BY <1>1, <1>6 DEF a, b

(* A position and the corners of a rectangle. *)
LEMMA AtCorners ==
  ASSUME NEW p, Inside(p), NEW z, NEW a \in Int, NEW b \in Int, NEW c \in Int, NEW d \in Int,
         Corners(z, a, b, c, d)
  PROVE  position_is_in_rect(p, z) <=> Between(p.latitude, a, c) /\ Between(p.longitude, b, d)
<1>1. p.latitude \in Int /\ p.longitude \in Int
  BY InsideFacts
<1> QED BY <1>1 DEF position_is_in_rect, Between, Corners

(* The positions of the layer that are in each zone. *)
LEMMA ZonePositions ==
  ASSUME NEW r \in Rectangles, NEW p, Inside(p)
  PROVE  /\ position_is_in_rect(p, FirstZone(r)) <=> LatitudeIn(r, p) /\ LongitudeIn(r, p)
         /\ position_is_in_rect(p, TopZone(r)) <=> AtTop(r, p) /\ LongitudeIn(r, p)
         /\ position_is_in_rect(p, RightZone(r)) <=> LatitudeIn(r, p) /\ AtRight(r, p)
         /\ position_is_in_rect(p, BottomZone(r)) <=> AtBottom(r, p) /\ LongitudeIn(r, p)
         /\ position_is_in_rect(p, LeftZone(r)) <=> LatitudeIn(r, p) /\ AtLeft(r, p)
<1> DEFINE a0 == r.edge0.latitude
           a1 == r.edge1.latitude
           o0 == r.edge0.longitude
           o1 == r.edge1.longitude
<1>1. a0 \in Int /\ a1 \in Int /\ o0 \in Int /\ o1 \in Int
  BY ZoneCorners
<1>2. /\ LatBound \in Nat \ {0} /\ LonBound \in Nat \ {0} /\ LatBound \in Nat /\ LonBound \in Nat
      /\ LatBound \in Int /\ LonBound \in Int
      /\ -LatBound \in Int /\ -LonBound \in Int
  BY TreeAssumption
<1>3. /\ p.latitude \in Int /\ p.longitude \in Int
      /\ Between(p.latitude, -LatBound, LatBound) /\ Between(p.longitude, -LonBound, LonBound)
  BY InsideFacts
<1>c. /\ Corners(FirstZone(r), Low(LatBound, a0), Low(LonBound, o0), High(LatBound, a1), High(LonBound, o1))
      /\ Corners(TopZone(r), From(LatBound, a0, a1), Low(LonBound, o0), LatBound, High(LonBound, o1))
      /\ Corners(RightZone(r), Low(LatBound, a0), From(LonBound, o0, o1), High(LatBound, a1), LonBound)
      /\ Corners(BottomZone(r), -LatBound, Low(LonBound, o0), Upto(LatBound, a0, a1), High(LonBound, o1))
      /\ Corners(LeftZone(r), Low(LatBound, a0), -LonBound, High(LatBound, a1), Upto(LonBound, o0, o1))
  BY ZoneCorners
<1>e. /\ LatitudeIn(r, p) <=> Between(p.latitude, a0, a1)
      /\ LongitudeIn(r, p) <=> Between(p.longitude, o0, o1)
      /\ AtTop(r, p) <=> Between(p.latitude, From(LatBound, a0, a1), LatBound)
      /\ AtBottom(r, p) <=> Between(p.latitude, -LatBound, Upto(LatBound, a0, a1))
      /\ AtRight(r, p) <=> Between(p.longitude, From(LonBound, o0, o1), LonBound)
      /\ AtLeft(r, p) <=> Between(p.longitude, -LonBound, Upto(LonBound, o0, o1))
  BY DEF LatitudeIn, LongitudeIn, AtTop, AtBottom, AtRight, AtLeft
<1> HIDE DEF a0, a1, o0, o1
<1>4. /\ Between(p.latitude, Low(LatBound, a0), High(LatBound, a1)) <=> LatitudeIn(r, p)
      /\ Between(p.longitude, Low(LonBound, o0), High(LonBound, o1)) <=> LongitudeIn(r, p)
  BY <1>1, <1>2, <1>3, <1>e, Places
<1>5. /\ Low(LatBound, a0) \in Int /\ High(LatBound, a1) \in Int
      /\ From(LatBound, a0, a1) \in Int /\ Upto(LatBound, a0, a1) \in Int
      /\ Low(LonBound, o0) \in Int /\ High(LonBound, o1) \in Int
      /\ From(LonBound, o0, o1) \in Int /\ Upto(LonBound, o0, o1) \in Int
  BY <1>1, <1>2, EdgesTyped
<1>6. position_is_in_rect(p, FirstZone(r)) <=> LatitudeIn(r, p) /\ LongitudeIn(r, p)
  BY <1>c, <1>4, <1>5, AtCorners
<1>7. position_is_in_rect(p, TopZone(r)) <=> AtTop(r, p) /\ LongitudeIn(r, p)
  BY <1>c, <1>e, <1>2, <1>4, <1>5, AtCorners
<1>8. position_is_in_rect(p, RightZone(r)) <=> LatitudeIn(r, p) /\ AtRight(r, p)
  BY <1>c, <1>e, <1>2, <1>4, <1>5, AtCorners
<1>9. position_is_in_rect(p, BottomZone(r)) <=> AtBottom(r, p) /\ LongitudeIn(r, p)
  BY <1>c, <1>e, <1>2, <1>4, <1>5, AtCorners
<1>10. position_is_in_rect(p, LeftZone(r)) <=> LatitudeIn(r, p) /\ AtLeft(r, p)
  BY <1>c, <1>e, <1>2, <1>4, <1>5, AtCorners
<1> QED BY <1>6, <1>7, <1>8, <1>9, <1>10

(* No two zones share a position. *)
LEMMA ZonesShareNothing ==
  ASSUME NEW r \in Rectangles, NEW p, Inside(p)
  PROVE  /\ ~(LatitudeIn(r, p) /\ AtTop(r, p)) /\ ~(LatitudeIn(r, p) /\ AtBottom(r, p))
         /\ ~(LongitudeIn(r, p) /\ AtRight(r, p)) /\ ~(LongitudeIn(r, p) /\ AtLeft(r, p))
         /\ ~(Under0(r) /\ AtTop(r, p) /\ Over1(r) /\ AtBottom(r, p))
         /\ ~(Left0(r) /\ AtRight(r, p) /\ Right1(r) /\ AtLeft(r, p))
         /\ Under0(r) /\ Over1(r) => LatitudeIn(r, p)
         /\ Left0(r) /\ Right1(r) => LongitudeIn(r, p)
<1>1. /\ r.edge0.latitude \in Int /\ r.edge1.latitude \in Int
      /\ r.edge0.longitude \in Int /\ r.edge1.longitude \in Int
  BY ZoneCorners
<1>2. LatBound \in Nat \ {0} /\ LonBound \in Nat \ {0}
  BY TreeAssumption
<1>3. /\ p.latitude \in Int /\ p.longitude \in Int
      /\ Between(p.latitude, -LatBound, LatBound) /\ Between(p.longitude, -LonBound, LonBound)
  BY InsideFacts
<1>4. /\ ~(LatitudeIn(r, p) /\ AtTop(r, p)) /\ ~(LatitudeIn(r, p) /\ AtBottom(r, p))
      /\ ~(Under0(r) /\ AtTop(r, p) /\ Over1(r) /\ AtBottom(r, p))
  BY <1>1, <1>2, <1>3, Places DEF LatitudeIn, AtTop, AtBottom, Under0, Over1
<1>5. /\ ~(LongitudeIn(r, p) /\ AtRight(r, p)) /\ ~(LongitudeIn(r, p) /\ AtLeft(r, p))
      /\ ~(Left0(r) /\ AtRight(r, p) /\ Right1(r) /\ AtLeft(r, p))
  BY <1>1, <1>2, <1>3, Places DEF LongitudeIn, AtRight, AtLeft, Left0, Right1
<1>6. Under0(r) /\ Over1(r) => LatitudeIn(r, p)
  BY <1>1, <1>2, <1>3, BothBeyond DEF LatitudeIn, Under0, Over1
<1>7. Left0(r) /\ Right1(r) => LongitudeIn(r, p)
  BY <1>1, <1>2, <1>3, BothBeyond DEF LongitudeIn, Left0, Right1
<1> QED BY <1>4, <1>5, <1>6, <1>7

(* The positions that the zones own. *)
Covered(r, p) == \/ LatitudeIn(r, p) /\ LongitudeIn(r, p)
                 \/ Under0(r) /\ AtTop(r, p) /\ LongitudeIn(r, p)
                 \/ Left0(r) /\ LatitudeIn(r, p) /\ AtRight(r, p)
                 \/ Over1(r) /\ AtBottom(r, p) /\ LongitudeIn(r, p)
                 \/ Right1(r) /\ LatitudeIn(r, p) /\ AtLeft(r, p)

(* The zones of find_zones share no position and own those. *)
LEMMA ZonesTiled ==
  ASSUME NEW r \in Rectangles, NEW F,
         Under0(r) => TopZone(r) \in F, Left0(r) => RightZone(r) \in F,
         Over1(r) => BottomZone(r) \in F, Right1(r) => LeftZone(r) \in F
  PROVE  Tiled(find_zones(r), FirstZone(r), F, {p \in Point : Inside(p) /\ Covered(r, p)})
<1> DEFINE b == FirstZone(r)
           s1 == << b >>
           s2 == s1 \o Optional(Under0(r), TopZone(r))
           s3 == s2 \o Optional(Left0(r), RightZone(r))
           s4 == s3 \o Optional(Over1(r), BottomZone(r))
           s5 == s4 \o Optional(Right1(r), LeftZone(r))
           U1 == Owned(b)
           U2 == U1 \cup (IF Under0(r) THEN Owned(TopZone(r)) ELSE {})
           U3 == U2 \cup (IF Left0(r) THEN Owned(RightZone(r)) ELSE {})
           U4 == U3 \cup (IF Over1(r) THEN Owned(BottomZone(r)) ELSE {})
           U5 == U4 \cup (IF Right1(r) THEN Owned(LeftZone(r)) ELSE {})
           C == {p \in Point : Inside(p) /\ Covered(r, p)}
<1>1. /\ FirstZone(r) \in Rectangles /\ TopZone(r) \in Rectangles /\ RightZone(r) \in Rectangles
      /\ BottomZone(r) \in Rectangles /\ LeftZone(r) \in Rectangles
  BY ZoneCorners
<1>2. \A p, z : p \in Owned(z) <=> Inside(p) /\ position_is_in_rect(p, z)
  BY DEF Owned, Inside
<1>3. \A p : /\ p \in Owned(FirstZone(r)) <=> Inside(p) /\ LatitudeIn(r, p) /\ LongitudeIn(r, p)
             /\ p \in Owned(TopZone(r)) <=> Inside(p) /\ AtTop(r, p) /\ LongitudeIn(r, p)
             /\ p \in Owned(RightZone(r)) <=> Inside(p) /\ LatitudeIn(r, p) /\ AtRight(r, p)
             /\ p \in Owned(BottomZone(r)) <=> Inside(p) /\ AtBottom(r, p) /\ LongitudeIn(r, p)
             /\ p \in Owned(LeftZone(r)) <=> Inside(p) /\ LatitudeIn(r, p) /\ AtLeft(r, p)
  BY <1>2, ZonePositions
<1>4. Tiled(s1, b, F, U1) /\ Len(s1) = 1
  BY <1>1, OneZone
<1>5. /\ Under0(r) \in BOOLEAN /\ Left0(r) \in BOOLEAN /\ Over1(r) \in BOOLEAN /\ Right1(r) \in BOOLEAN
  BY DEF Under0, Left0, Over1, Right1, Beyond0, Beyond1
<1>6. /\ Under0(r) => U1 \cap Owned(TopZone(r)) = {}
      /\ Left0(r) => U2 \cap Owned(RightZone(r)) = {}
      /\ Over1(r) => U3 \cap Owned(BottomZone(r)) = {}
      /\ Right1(r) => U4 \cap Owned(LeftZone(r)) = {}
  <2>1. Under0(r) => U1 \cap Owned(TopZone(r)) = {}
    BY <1>3, ZonesShareNothing
  <2>2. Left0(r) => U2 \cap Owned(RightZone(r)) = {}
    BY <1>3, ZonesShareNothing
  <2>3. Over1(r) => U3 \cap Owned(BottomZone(r)) = {}
    BY <1>3, ZonesShareNothing
  <2>4. Right1(r) => U4 \cap Owned(LeftZone(r)) = {}
    BY <1>3, ZonesShareNothing
  <2> QED BY <2>1, <2>2, <2>3, <2>4
<1>7. U5 = C
  <2>1. \A p : p \in U5 <=> p \in C
    BY <1>3 DEF Covered, Inside
  <2> HIDE DEF U5, C
  <2> QED BY <2>1
<1>8. Under0(r) /\ Left0(r) /\ Over1(r) /\ Right1(r) => U1 = C
  <2>1. Under0(r) /\ Left0(r) /\ Over1(r) /\ Right1(r) => \A p : p \in U1 <=> p \in C
    BY <1>3, ZonesShareNothing DEF Covered, Inside
  <2> HIDE DEF U1, C
  <2> QED BY <2>1
<1>9. FiveZones(r) = s5
  BY DEF FiveZones
<1> HIDE DEF s1, b, U1
<1>10. NewZone(s1, b, F, U1, Under0(r), TopZone(r), s2, U2)
  BY <1>1, <1>4, <1>6 DEF NewZone
<1>11. /\ Tiled(s2, b, F, U2) /\ Len(s2) \in Nat
       /\ Len(s2) = IF Under0(r) THEN Len(s1) + 1 ELSE Len(s1)
  <2> HIDE DEF s2, U2
  <2> QED BY <1>5, <1>10, OneZoneMore
<1> HIDE DEF s2, U2
<1>12. NewZone(s2, b, F, U2, Left0(r), RightZone(r), s3, U3)
  BY <1>1, <1>6, <1>11 DEF NewZone
<1>13. /\ Tiled(s3, b, F, U3) /\ Len(s3) \in Nat
       /\ Len(s3) = IF Left0(r) THEN Len(s2) + 1 ELSE Len(s2)
  <2> HIDE DEF s3, U3
  <2> QED BY <1>5, <1>12, OneZoneMore
<1> HIDE DEF s3, U3
<1>14. NewZone(s3, b, F, U3, Over1(r), BottomZone(r), s4, U4)
  BY <1>1, <1>6, <1>13 DEF NewZone
<1>15. /\ Tiled(s4, b, F, U4) /\ Len(s4) \in Nat
       /\ Len(s4) = IF Over1(r) THEN Len(s3) + 1 ELSE Len(s3)
  <2> HIDE DEF s4, U4
  <2> QED BY <1>5, <1>14, OneZoneMore
<1> HIDE DEF s4, U4
<1>16. NewZone(s4, b, F, U4, Right1(r), LeftZone(r), s5, U5)
  BY <1>1, <1>6, <1>15 DEF NewZone
<1>17. /\ Tiled(s5, b, F, U5) /\ Len(s5) \in Nat
       /\ Len(s5) = IF Right1(r) THEN Len(s4) + 1 ELSE Len(s4)
  <2> HIDE DEF s5, U5
  <2> QED BY <1>5, <1>16, OneZoneMore
<1> HIDE DEF s5, U5, C
<1>18. CASE Len(s5) > 4
  <2>1. Under0(r) /\ Left0(r) /\ Over1(r) /\ Right1(r)
    BY <1>4, <1>11, <1>13, <1>15, <1>17, <1>18
  <2>2. find_zones(r) = s1
    BY <1>9, <1>18, ZonesFound DEF s1, b
  <2> QED BY <1>4, <1>8, <2>1, <2>2 DEF b, C
<1>19. CASE ~(Len(s5) > 4)
  <2>1. find_zones(r) = s5
    BY <1>9, <1>19, ZonesFound
  <2> QED BY <1>7, <1>17, <2>1 DEF b, C
<1> QED BY <1>18, <1>19
-----------------------------------------------------------------------------
(* in_rect *)

(* The zones own what the rectangle holds, as it wraps. *)
LEMMA CoveredIsWrapped ==
  ASSUME NEW r \in Rectangles, WithinReach(r), NEW p, Inside(p)
  PROVE  Covered(r, p) <=> InWrapped(p, r)
<1> DEFINE a0 == r.edge0.latitude
           a1 == r.edge1.latitude
           o0 == r.edge0.longitude
           o1 == r.edge1.longitude
           x == p.latitude
           y == p.longitude
           DownIn  == Between(x - 2 * LatBound, a0, a1)
           UpIn    == Between(x + 2 * LatBound, a0, a1)
           BackIn  == Between(y - 2 * LonBound, o0, o1)
           ForthIn == Between(y + 2 * LonBound, o0, o1)
<1>1. a0 \in Int /\ a1 \in Int /\ o0 \in Int /\ o1 \in Int
  BY ZoneCorners
<1>2. LatBound \in Nat \ {0} /\ LonBound \in Nat \ {0}
  BY TreeAssumption
<1>3. /\ x \in Int /\ y \in Int
      /\ Between(x, -LatBound, LatBound) /\ Between(y, -LonBound, LonBound)
  BY InsideFacts
<1>4. ~LatitudeIn(r, p) => /\ DownIn <=> Under0(r) /\ AtTop(r, p)
                           /\ UpIn <=> Over1(r) /\ AtBottom(r, p)
  BY <1>1, <1>2, <1>3, ComesBack DEF WithinReach, LatitudeIn, Under0, Over1, AtTop, AtBottom
<1>5. ~LongitudeIn(r, p) => /\ BackIn <=> Left0(r) /\ AtRight(r, p)
                            /\ ForthIn <=> Right1(r) /\ AtLeft(r, p)
  BY <1>1, <1>2, <1>3, ComesBack DEF WithinReach, LongitudeIn, Left0, Right1, AtRight, AtLeft
<1>6. position_is_in_rect(p, r) <=> LatitudeIn(r, p) /\ LongitudeIn(r, p)
  BY <1>1, <1>3 DEF position_is_in_rect, LatitudeIn, LongitudeIn, Between
<1>7. /\ position_is_in_rect(Shifted(p, -2 * LatBound, 0), r) <=> DownIn /\ LongitudeIn(r, p)
      /\ position_is_in_rect(Shifted(p, 2 * LatBound, 0), r) <=> UpIn /\ LongitudeIn(r, p)
      /\ position_is_in_rect(Shifted(p, 0, -2 * LonBound), r) <=> LatitudeIn(r, p) /\ BackIn
      /\ position_is_in_rect(Shifted(p, 0, 2 * LonBound), r) <=> LatitudeIn(r, p) /\ ForthIn
  <2>1. \A u, v \in Int : position_is_in_rect(Shifted(p, u, v), r)
                            <=> Between(x + u, a0, a1) /\ Between(y + v, o0, o1)
    BY <1>1, <1>3 DEF position_is_in_rect, Shifted, Between
  <2>2. /\ -2 * LatBound \in Int /\ 2 * LatBound \in Int /\ -2 * LonBound \in Int /\ 2 * LonBound \in Int
        /\ 0 \in Int /\ x + 0 = x /\ y + 0 = y
        /\ x + (-2 * LatBound) = x - 2 * LatBound /\ y + (-2 * LonBound) = y - 2 * LonBound
    BY <1>2, <1>3
  <2>3. LatitudeIn(r, p) = Between(x, a0, a1) /\ LongitudeIn(r, p) = Between(y, o0, o1)
    BY DEF LatitudeIn, LongitudeIn
  <2> QED BY <2>1, <2>2, <2>3
<1>8. InWrapped(p, r) <=> \/ position_is_in_rect(p, r)
                          \/ position_is_in_rect(Shifted(p, -2 * LatBound, 0), r)
                          \/ position_is_in_rect(Shifted(p, 2 * LatBound, 0), r)
                          \/ position_is_in_rect(Shifted(p, 0, -2 * LonBound), r)
                          \/ position_is_in_rect(Shifted(p, 0, 2 * LonBound), r)
  <2>1. -2 * LatBound = (-2) * LatBound /\ -2 * LonBound = (-2) * LonBound
    BY <1>2
  <2> QED BY <2>1 DEF InWrapped
<1> HIDE DEF DownIn, UpIn, BackIn, ForthIn
<1> QED BY <1>4, <1>5, <1>6, <1>7, <1>8 DEF Covered

(* A record with a slot is in the layer, and in a zone when its position   *)
(* is.                                                                     *)
LEMMA VisibleInRect ==
  ASSUME Searchable, NEW search, search.near = FALSE, NEW zone \in Rectangles, NEW k \in Key
  PROVE  /\ HasSlot(k) => Inside(PositionOf(k))
         /\ Visible(search, zone, k) <=> k \in Listed /\ position_is_in_rect(PositionOf(k), zone)
<1>1. Visible(search, zone, k) => k \in Listed /\ position_is_in_rect(PositionOf(k), zone)
  BY SlotFacts DEF Visible, Matches, Listed, Located
<1>2. ASSUME HasSlot(k)
      PROVE  /\ Inside(PositionOf(k))
             /\ k \in Listed /\ position_is_in_rect(PositionOf(k), zone) => Visible(search, zone, k)
  <2> DEFINE p == PositionOf(k)
             b == tree.slot[k]
  <2>1. p \in Point /\ b \in DOMAIN tree.buckets /\ position_is_in_rect(p, b)
    BY <1>2 DEF Searchable
  <2>2. IsNode(b) /\ IsNode(qbounds) /\ In(b, qbounds)
    BY <2>1, RootFacts DEF Searchable, Shape
  <2>3. position_is_in_rect(p, qbounds)
    BY <2>1, <2>2, Positions
  <2>4. p.latitude \in Int /\ p.longitude \in Int
    BY <2>1 DEF Point
  <2>5. /\ zone.edge0.latitude \in Int /\ zone.edge0.longitude \in Int
        /\ zone.edge1.latitude \in Int /\ zone.edge1.longitude \in Int
    BY DEF Rectangles, Point
  <2>6. position_is_in_rect(p, zone) => rectangle2d_intersect(b, zone)
    <3> HIDE DEF p, b
    <3> QED BY <2>1, <2>2, <2>4, <2>5, NodeFacts DEF position_is_in_rect, rectangle2d_intersect
  <2>7. Matches(search, zone, Slot(k, p)) <=> position_is_in_rect(p, zone)
    BY SlotFacts DEF Matches
  <2> QED BY <1>2, <2>1, <2>3, <2>6, <2>7 DEF Visible, Inside, Listed
<1> QED BY <1>1, <1>2 DEF Listed, Located

(* An in_rect search is exact when its zones share no record. *)
LEMMA RectReply ==
  ASSUME Searchable, NEW search, IsSearch(search), search.near = FALSE, search.epsilon <= 0,
         NEW zones, Len(zones) \in Nat, \A i \in 1 .. Len(zones) : zones[i] \in Rectangles,
         ZonesApart(search, zones), NEW keys, keys = VisibleInFirst(search, zones, Len(zones))
  PROVE  LET reply == FindInZones(search, zones)
         IN  IF reply.ret = 0 THEN Reported(reply, keys) /\ reply.clusters = << >>
                              ELSE Cardinality(keys) >= search.limit
<1>r. PICK reply : reply = FindInZones(search, zones)
  OBVIOUS
<1>1. AfterZones(search, zones, reply, Len(zones))
  BY <1>r, ZonesReported
<1>2. keys = VisibleInFirst(search, zones, Len(zones))
  OBVIOUS
<1>3. CASE reply.ret = 0 /\ reply.clusters = << >> /\ Reported(reply, keys)
  BY <1>3, <1>r
<1>4. CASE reply.ret = 1 /\ \E i \in 1 .. Len(zones) : Overflown(search, zones[i])
  <2>1. PICK i \in 1 .. Len(zones) : Overflown(search, zones[i])
    BY <1>4
  <2> DEFINE V == VisibleKeys(search, zones[i])
  <2>2. Cardinality(V) > search.limit
    BY <2>1 DEF Overflown
  <2>3. V \subseteq keys /\ keys \subseteq Key
    BY DEF VisibleKeys, VisibleInFirst
  <2>4. IsFiniteSet(Key)
    BY TreeAssumption
  <2> HIDE DEF V
  <2>5. IsFiniteSet(keys) /\ IsFiniteSet(V)
    BY <2>3, <2>4, FS_Subset
  <2>6. Cardinality(V) <= Cardinality(keys) /\ Cardinality(V) \in Nat /\ Cardinality(keys) \in Nat
    BY <2>3, <2>5, FS_Subset, FS_CardinalityType
  <2>7. search.limit \in Nat
    BY DEF IsSearch
  <2>8. Cardinality(keys) >= search.limit
    BY <2>2, <2>6, <2>7
  <2> QED BY <1>4, <1>r, <2>8
<1> QED BY <1>1, <1>2, <1>3, <1>4 DEF AfterZones

(* The searches of an in_rect request. *)
RectSearch(limit, epsilon) == [near |-> FALSE, limit |-> limit, epsilon |-> epsilon]

(* They are searches. *)
LEMMA RectSearchFacts ==
  ASSUME NEW limit \in Nat \ {0}, NEW epsilon \in Int
  PROVE  /\ IsSearch(RectSearch(limit, epsilon))
         /\ RectSearch(limit, epsilon).near = FALSE
         /\ RectSearch(limit, epsilon).limit = limit
         /\ RectSearch(limit, epsilon).epsilon = epsilon
  BY DEF RectSearch, IsSearch

(* What a request makes of the client's rectangle. *)
LEMMA RequestRectangles ==
  ASSUME NEW query \in Rectangles
  PROVE  untangle_rect(query) \in Rectangles /\ UnwrapLatitude(untangle_rect(query)) \in Rectangles
<1>1. /\ query.edge0.latitude \in Int /\ query.edge0.longitude \in Int
      /\ query.edge1.latitude \in Int /\ query.edge1.longitude \in Int
  BY DEF Rectangles, Point
<1>2. /\ dimension_min(query.edge0.longitude, query.edge1.longitude) \in Int
      /\ dimension_max(query.edge0.longitude, query.edge1.longitude) \in Int
  BY <1>1 DEF dimension_min, dimension_max
<1>3. untangle_rect(query) \in Rectangles
  <2> DEFINE o0 == dimension_min(query.edge0.longitude, query.edge1.longitude)
             o1 == dimension_max(query.edge0.longitude, query.edge1.longitude)
             a0 == query.edge0.latitude
             a1 == query.edge1.latitude
  <2>1. untangle_rect(query) = Rect(a0, o0, a1, o1)
    BY DEF untangle_rect
  <2>2. a0 \in Int /\ o0 \in Int /\ a1 \in Int /\ o1 \in Int
    BY <1>1, <1>2
  <2> HIDE DEF o0, o1, a0, a1
  <2> QED BY <2>1, <2>2 DEF Rect, Rectangles, Point
<1>4. ASSUME NEW r \in Rectangles PROVE UnwrapLatitude(r) \in Rectangles
  <2>1. LatBound \in Nat
    BY TreeAssumption
  <2>2. r.edge1.latitude + 2 * LatBound \in Int
    BY <2>1 DEF Rectangles, Point
  <2> DEFINE a == r.edge1.latitude + 2 * LatBound
  <2>3. UnwrapLatitude(r) = IF r.edge0.latitude > r.edge1.latitude
                            THEN [r EXCEPT !.edge1.latitude = a] ELSE r
    BY DEF UnwrapLatitude
  <2>4. a \in Int
    BY <2>2
  <2> HIDE DEF a
  <2>5. [r EXCEPT !.edge1.latitude = a] \in Rectangles
    BY <2>4 DEF Rectangles, Point
  <2> QED BY <2>3, <2>5
<1> QED BY <1>3, <1>4

(* A single zone shows the listed records in it. *)
LEMMA OneZoneFacts ==
  ASSUME Searchable, NEW search, search.near = FALSE, NEW rect \in Rectangles, NEW s, s = << rect >>
  PROVE  /\ Len(s) \in Nat /\ \A i \in 1 .. Len(s) : s[i] \in Rectangles
         /\ ZonesApart(search, s)
         /\ {k \in Listed : position_is_in_rect(PositionOf(k), rect)} = VisibleInFirst(search, s, Len(s))
<1>1. Len(s) = 1 /\ s[1] = rect
  BY OneElement
<1>2. \A i \in 1 .. Len(s) : i = 1 /\ s[i] = rect
  BY <1>1
<1>3. ZonesApart(search, s)
  BY <1>2 DEF ZonesApart
<1> DEFINE keys == {k \in Listed : position_is_in_rect(PositionOf(k), rect)}
<1>4. keys = {k \in Key : \E i \in 1 .. Len(s) : Visible(search, s[i], k)}
  <2>1. \A k \in Key : k \in keys <=> Visible(search, rect, k)
    BY VisibleInRect
  <2>2. keys \subseteq Key /\ 1 \in 1 .. Len(s)
    BY <1>1 DEF Listed, Located
  <2> HIDE DEF keys
  <2> QED BY <1>2, <2>1, <2>2
<1>5. Len(s) \in Nat /\ \A i \in 1 .. Len(s) : s[i] \in Rectangles
  BY <1>1, <1>2
<1> QED BY <1>3, <1>4, <1>5 DEF VisibleInFirst

(* The zones of a rectangle that wraps share no record, and show the       *)
(* listed records of the rectangle.                                        *)
LEMMA WrappedZones ==
  ASSUME Searchable, NEW search, search.near = FALSE, NEW rect \in Rectangles, WithinReach(rect),
         NEW s, s = find_zones(rect)
  PROVE  /\ Len(s) \in Nat /\ \A i \in 1 .. Len(s) : s[i] \in Rectangles
         /\ ZonesApart(search, s)
         /\ {k \in Listed : InWrapped(PositionOf(k), rect)} = VisibleInFirst(search, s, Len(s))
<1> DEFINE U == {p \in Point : Inside(p) /\ Covered(rect, p)}
           keys == {k \in Listed : InWrapped(PositionOf(k), rect)}
<1>1. Tiled(s, FirstZone(rect), Rectangles, U)
  BY ZoneCorners, ZonesTiled
<1> HIDE DEF U
<1>2. /\ s \in Seq(Rectangles) /\ Len(s) \in Nat
      /\ \A i, j \in 1 .. Len(s) : i # j => Owned(s[i]) \cap Owned(s[j]) = {}
      /\ U = UNION {Owned(s[i]) : i \in 1 .. Len(s)}
  BY <1>1 DEF Tiled
<1>3. \A i \in 1 .. Len(s) : s[i] \in Rectangles
  BY <1>2
<1>4. ASSUME NEW k \in Key, NEW i \in 1 .. Len(s)
      PROVE  Visible(search, s[i], k) <=> k \in Listed /\ PositionOf(k) \in Owned(s[i])
  <2>1. s[i] \in Rectangles
    BY <1>3
  <2> QED BY <2>1, VisibleInRect DEF Owned, Inside, Listed, Located
<1>5. ZonesApart(search, s)
  <2> SUFFICES ASSUME NEW i \in 1 .. Len(s), NEW j \in 1 .. Len(s), i # j,
                      NEW k \in Key, Visible(search, s[i], k), Visible(search, s[j], k)
               PROVE  FALSE
    BY DEF ZonesApart, VisibleKeys
  <2>1. PositionOf(k) \in Owned(s[i]) /\ PositionOf(k) \in Owned(s[j])
    BY <1>4
  <2> QED BY <1>2, <2>1
<1>6. keys = {k \in Key : \E i \in 1 .. Len(s) : Visible(search, s[i], k)}
  <2>1. ASSUME NEW k \in Key, k \in Listed
        PROVE  InWrapped(PositionOf(k), rect) <=> \E i \in 1 .. Len(s) : Visible(search, s[i], k)
    <3>p. PICK p : p = PositionOf(k)
      OBVIOUS
    <3>1. Inside(p)
      <4>1. rect \in Rectangles
        OBVIOUS
      <4> QED BY <2>1, <3>p, <4>1, VisibleInRect DEF Listed, Located
    <3>2. InWrapped(p, rect) <=> p \in U
      BY <3>1, CoveredIsWrapped DEF U, Inside
    <3>3. p \in U <=> \E i \in 1 .. Len(s) : p \in Owned(s[i])
      BY <1>2
    <3> QED BY <1>4, <2>1, <3>2, <3>3, <3>p
  <2>2. \A k \in Key, i \in 1 .. Len(s) : Visible(search, s[i], k) => k \in Listed
    BY <1>4
  <2> QED BY <2>1, <2>2 DEF Listed, Located
<1> QED BY <1>2, <1>3, <1>5, <1>6 DEF VisibleInFirst

(* Whatever splits and merges made of the tree, an in_rect search reports  *)
(* each listed record of the rectangle once, also of the parts that wrap   *)
(* around (find_zones), and no other.                                      *)
THEOREM RectanglesAreExact == ASSUME QueriesInReach PROVE SearchSpec => []InRectExact
<1>1. ASSUME TreeInv PROVE InRectExact
  <2>1. Searchable
    BY <1>1, TreeSearchable
  <2>2. ASSUME NEW query \in InRectQueries, NEW limit \in Limits, NEW flat \in BOOLEAN
        PROVE  LET reply == find_in_rect(flat, query, limit, -1)
                   keys  == Expected(flat, query)
               IN  IF reply.ret = 0 THEN Reported(reply, keys) /\ reply.clusters = << >>
                                    ELSE Cardinality(keys) >= limit
    <3> DEFINE search == RectSearch(limit, -1)
               rect == untangle_rect(query)
               wide == UnwrapLatitude(rect)
    <3>1. limit \in Nat \ {0} /\ -1 \in Int /\ -1 <= 0
      BY QueriesAssumption
    <3>2. IsSearch(search) /\ search.near = FALSE /\ search.limit = limit /\ search.epsilon <= 0
      <4>1. search.epsilon = -1 /\ IsSearch(search) /\ search.near = FALSE /\ search.limit = limit
        <5> DEFINE e == -1
        <5>1. e \in Int /\ search = RectSearch(limit, e)
          BY <3>1
        <5> HIDE DEF e, search
        <5>2. search.epsilon = e /\ IsSearch(search) /\ search.near = FALSE /\ search.limit = limit
          BY <3>1, <5>1, RectSearchFacts
        <5> QED BY <5>2 DEF e
      <4> HIDE DEF search
      <4> QED BY <3>1, <4>1
    <3>3. query \in Rectangles /\ WithinReach(wide)
      BY DEF QueriesInReach
    <3>4. rect \in Rectangles /\ wide \in Rectangles
      BY <3>3, RequestRectangles
    <3>5. find_in_rect(flat, query, limit, -1)
            = FindInZones(search, IF flat THEN << rect >> ELSE find_zones(wide))
      BY DEF find_in_rect, RectSearch
    <3>6. Expected(flat, query) = {k \in Listed : IF flat THEN position_is_in_rect(PositionOf(k), rect)
                                                           ELSE InWrapped(PositionOf(k), wide)}
      BY DEF Expected, InRequest
    <3> HIDE DEF search, rect, wide
    <3>7. CASE flat
      <4>1. find_in_rect(flat, query, limit, -1) = FindInZones(search, << rect >>)
        BY <3>5, <3>7
      <4>2. Expected(flat, query) = {k \in Listed : position_is_in_rect(PositionOf(k), rect)}
        BY <3>6, <3>7
      <4>s. PICK s : s = << rect >>
        OBVIOUS
      <4>3. /\ Len(s) \in Nat /\ \A i \in 1 .. Len(s) : s[i] \in Rectangles
            /\ ZonesApart(search, s)
            /\ Expected(flat, query) = VisibleInFirst(search, s, Len(s))
        BY <2>1, <3>2, <3>4, <4>2, <4>s, OneZoneFacts
      <4> QED BY <2>1, <3>2, <4>1, <4>3, <4>s, RectReply
    <3>8. CASE ~flat
      <4>1. find_in_rect(flat, query, limit, -1) = FindInZones(search, find_zones(wide))
        BY <3>5, <3>8
      <4>2. Expected(flat, query) = {k \in Listed : InWrapped(PositionOf(k), wide)}
        BY <3>6, <3>8
      <4>s. PICK s : s = find_zones(wide)
        OBVIOUS
      <4>3. /\ Len(s) \in Nat /\ \A i \in 1 .. Len(s) : s[i] \in Rectangles
            /\ ZonesApart(search, s)
            /\ Expected(flat, query) = VisibleInFirst(search, s, Len(s))
        BY <2>1, <3>2, <3>3, <3>4, <4>2, <4>s, WrappedZones
      <4> QED BY <2>1, <3>2, <4>1, <4>3, <4>s, RectReply
    <3> QED BY <3>7, <3>8
  <2> QED BY <2>2 DEF InRectExact
<1> QED BY <1>1, SearchedTree, PTL
-----------------------------------------------------------------------------
(* Clusters *)

(* With a single zone there is a single walk. *)
LEMMA SingleWalk ==
  ASSUME NEW search, NEW zone
  PROVE  FindInZones(search, << zone >>) = FindInZone(search, Blank, zone)
<1>s. PICK s : s = << zone >>
  OBVIOUS
<1>1. Len(s) = 1 /\ s[1] = zone
  BY <1>s
<1>2. PICK g : ZoneByZone(g, search, s) /\ FindInZones(search, s) = g[Len(s)]
  BY <1>1, AllZones
<1>3. 1 \in 1 .. Len(s) /\ 1 - 1 = 0
  BY <1>1
<1>4. g[0] = Blank /\ g[1] = NextZone(search, g[1 - 1], s[1])
  BY <1>2, <1>3 DEF ZoneByZone
<1> QED BY <1>1, <1>2, <1>3, <1>4, <1>s, BlankFacts DEF NextZone

(* The records of a quad are those in the buckets below it. *)
LEMMA RecordsOfQuad ==
  ASSUME Searchable, NEW q \in tree.quads
  PROVE  /\ \A k \in Located : position_is_in_rect(PositionOf(k), q) <=> In(tree.slot[k], q)
         /\ {k \in Located : position_is_in_rect(PositionOf(k), q)} = KeysBelow(tree.slot, q)
<1>1. ASSUME NEW k \in Located PROVE position_is_in_rect(PositionOf(k), q) <=> In(tree.slot[k], q)
  <2>1. /\ tree.slot[k] \in DOMAIN tree.buckets /\ PositionOf(k) \in Point
        /\ position_is_in_rect(PositionOf(k), tree.slot[k])
    BY DEF Located, Searchable
  <2>2. IsNode(tree.slot[k]) /\ IsNode(q) /\ (In(tree.slot[k], q) <=> ~Apart(tree.slot[k], q))
    BY <2>1, BucketAndNode
  <2> QED BY <2>1, <2>2, Positions
<1>2. {k \in Located : position_is_in_rect(PositionOf(k), q)} = KeysBelow(tree.slot, q)
  BY <1>1 DEF Located, KeysBelow, HasSlot
<1> QED BY <1>1, <1>2

(* What a walk with clusters reports when it is not cut short. *)
Clustered(search, rect, reply) ==
    /\ \A i \in 1 .. Len(reply.clusters) :
          /\ reply.clusters[i].cell \in tree.quads
          /\ reply.clusters[i].children = Cardinality(KeysBelow(tree.slot, reply.clusters[i].cell))
          /\ Height(reply.clusters[i].cell) < search.epsilon
    /\ \A i, j \in 1 .. Len(reply.clusters) : i # j => Apart(reply.clusters[i].cell, reply.clusters[j].cell)
    /\ \A k \in Key : reply.found[k] = IF Visible(search, rect, k) /\ ~Beneath(CellsOf(reply), k) THEN 1 ELSE 0

(* The single walk of a flat layer. *)
LEMMA ClustersReply ==
  ASSUME Searchable, NEW search, IsSearch(search), NEW rect \in Rectangles,
         NEW reply, reply = FindInZones(search, << rect >>), reply.ret = 0
  PROVE  Clustered(search, rect, reply) /\ Len(reply.clusters) \in Nat
         /\ DOMAIN reply.clusters = 1 .. Len(reply.clusters)
<1>1. reply = FindInZone(search, Blank, rect)
  BY SingleWalk
<1>2. \/ /\ \E P : Walking(search, rect, Blank, reply, {}, P)
         /\ reply.stack = << >>
      \/ reply \in WalkState /\ reply.ret = 1 /\ Overflown(search, rect)
  BY <1>1, BlankFacts, ZoneWalked
<1>3. reply.stack = << >> /\ \E P : Walking(search, rect, Blank, reply, {}, P)
  BY <1>2
<1>4. PICK P : Walking(search, rect, Blank, reply, {}, P)
  BY <1>3
<1>5. /\ reply \in WalkState /\ Placed(search, reply, {}, P)
      /\ Tallied(search, Blank, reply, Seen(search, rect, CellsOf(reply), {}))
  BY <1>3, <1>4, NothingPending
<1> DEFINE T == [cell : tree.quads, children : Nat]
           c == reply.clusters
<1>6. c \in Seq(T)
  BY <1>5, StateParts
<1> HIDE DEF T, c
<1>7. Len(c) \in Nat /\ DOMAIN c = 1 .. Len(c) /\ \A i \in 1 .. Len(c) : c[i] \in T
  BY <1>6
<1>8. \A i \in 1 .. Len(c) : c[i].cell \in tree.quads
  BY <1>7 DEF T
<1>9. /\ \A i, j \in 1 .. Len(c) : i # j => Apart(c[i].cell, c[j].cell)
      /\ \A i \in 1 .. Len(c) : c[i].children = tree.sub_slots[c[i].cell] /\ Height(c[i].cell) < search.epsilon
  BY <1>5 DEF Placed, c
<1>10. \A q \in tree.quads : tree.sub_slots[q] = Cardinality(KeysBelow(tree.slot, q))
  BY DEF Searchable
<1>11. ASSUME NEW k \in Key
       PROVE  reply.found[k] = IF Visible(search, rect, k) /\ ~Beneath(CellsOf(reply), k) THEN 1 ELSE 0
  <2>1. k \in Seen(search, rect, CellsOf(reply), {}) <=> Visible(search, rect, k) /\ ~Beneath(CellsOf(reply), k)
    BY DEF Seen, Beneath
  <2>2. Blank.found[k] = 0
    BY BlankFacts
  <2> QED BY <1>5, <2>1, <2>2 DEF Tallied
<1> QED BY <1>7, <1>8, <1>9, <1>10, <1>11 DEF Clustered, c

(***************************************************************************)
(* A zone of several: its walk does what it would do by itself, with the   *)
(* clusters of the earlier zones in front.                                 *)
(***************************************************************************)
Groups == Seq([cell : tree.quads, children : Nat])

Ahead(c0, u, w) ==
    /\ u \in WalkState /\ w \in WalkState
    /\ w.ret = u.ret /\ w.limit = u.limit /\ w.stack = u.stack /\ w.found = u.found
    /\ w.clusters = c0 \o u.clusters

(* Sequences one behind the other. *)
LEMMA Joined ==
  ASSUME NEW S, NEW s \in Seq(S), NEW t \in Seq(S), NEW j, j = s \o t
  PROVE  /\ Len(s) \in Nat /\ Len(t) \in Nat /\ j \in Seq(S) /\ Len(j) = Len(s) + Len(t)
         /\ \A i \in 1 .. Len(s) : j[i] = s[i]
         /\ \A i \in 1 .. Len(t) : j[Len(s) + i] = t[i]
         /\ \A i \in 1 .. Len(j) : i \in 1 .. Len(s) \/ i - Len(s) \in 1 .. Len(t)
<1>1. Len(s) \in Nat /\ Len(t) \in Nat /\ j \in Seq(S) /\ Len(j) = Len(s) + Len(t)
  OBVIOUS
<1>2. \A i \in 1 .. Len(s) + Len(t) : j[i] = IF i <= Len(s) THEN s[i] ELSE t[i - Len(s)]
  OBVIOUS
<1>3. \A i \in 1 .. Len(s) : j[i] = s[i]
  BY <1>1, <1>2
<1>4. ASSUME NEW i \in 1 .. Len(t) PROVE j[Len(s) + i] = t[i]
  <2>1. Len(s) + i \in 1 .. Len(s) + Len(t) /\ ~(Len(s) + i <= Len(s)) /\ Len(s) + i - Len(s) = i
    BY <1>1
  <2> QED BY <1>2, <2>1
<1> QED BY <1>1, <1>3, <1>4

Associative(r, s, e) == Append(r \o s, e) = r \o Append(s, e)

(* One more element behind. *)
LEMMA JoinedAppended ==
  ASSUME NEW S, NEW r \in Seq(S), NEW s \in Seq(S), NEW e \in S
  PROVE  Associative(r, s, e)
<1>t. PICK t : t = Append(s, e)
  OBVIOUS
<1>j. PICK j : j = r \o s
  OBVIOUS
<1>a. PICK a : a = Append(j, e)
  OBVIOUS
<1>b. PICK b : b = r \o t
  OBVIOUS
<1>1. /\ Len(s) \in Nat /\ t \in Seq(S) /\ Len(t) = Len(s) + 1
      /\ \A i \in 1 .. Len(s) : t[i] = s[i]
      /\ t[Len(s) + 1] = e
  BY <1>t, Appended
<1>2. /\ Len(r) \in Nat /\ j \in Seq(S) /\ Len(j) = Len(r) + Len(s)
      /\ \A i \in 1 .. Len(r) : j[i] = r[i]
      /\ \A i \in 1 .. Len(s) : j[Len(r) + i] = s[i]
  BY <1>j, Joined
<1>3. /\ a \in Seq(S) /\ Len(a) = Len(j) + 1
      /\ \A i \in 1 .. Len(j) : a[i] = j[i]
      /\ a[Len(j) + 1] = e
  BY <1>2, <1>a, Appended
<1>4. /\ b \in Seq(S) /\ Len(b) = Len(r) + Len(t)
      /\ \A i \in 1 .. Len(r) : b[i] = r[i]
      /\ \A i \in 1 .. Len(t) : b[Len(r) + i] = t[i]
  <2>1. t \in Seq(S)
    BY <1>1
  <2> QED BY <1>b, <2>1, Joined
<1>5. Len(a) = Len(b) /\ Len(b) = Len(r) + Len(s) + 1
  BY <1>1, <1>2, <1>3, <1>4
<1>6. ASSUME NEW i \in 1 .. Len(b) PROVE a[i] = b[i]
  <2>1. CASE i \in 1 .. Len(r)
    <3>1. i \in 1 .. Len(j)
      BY <1>1, <1>2, <2>1
    <3> QED BY <1>2, <1>3, <1>4, <2>1, <3>1
  <2>2. CASE i - Len(r) \in 1 .. Len(s)
    <3>k. PICK k \in 1 .. Len(s) : i = Len(r) + k
      <4>1. i = Len(r) + (i - Len(r))
        BY <1>2
      <4> QED BY <2>2, <4>1
    <3>1. i \in 1 .. Len(j) /\ k \in 1 .. Len(t)
      BY <1>1, <1>2, <3>k
    <3> QED BY <1>1, <1>2, <1>3, <1>4, <3>1, <3>k
  <2>3. CASE i = Len(r) + Len(s) + 1
    <3>1. Len(s) + 1 \in 1 .. Len(t) /\ i = Len(r) + (Len(s) + 1) /\ i = Len(j) + 1
      BY <1>1, <1>2, <2>3
    <3>2. b[Len(r) + (Len(s) + 1)] = t[Len(s) + 1]
      BY <1>4, <3>1
    <3> QED BY <1>1, <1>3, <3>1, <3>2
  <2>l. PICK m \in Nat : m = Len(r)
    BY <1>2
  <2>n. PICK n \in Nat : n = Len(s)
    BY <1>1
  <2>4. i \in 1 .. m \/ i - m \in 1 .. n \/ i = m + n + 1
    BY <1>5, <2>l, <2>n
  <2> QED BY <2>1, <2>2, <2>3, <2>4, <2>l, <2>n
<1>7. a = b
  <2>1. a = [i \in 1 .. Len(a) |-> a[i]] /\ b = [i \in 1 .. Len(b) |-> b[i]]
    BY <1>3, <1>4
  <2> QED BY <1>5, <1>6, <2>1
<1> QED BY <1>7, <1>a, <1>b, <1>j, <1>t DEF Associative

(* What a cluster does to a walk. *)
LEMMA ClusterFields ==
  ASSUME Searchable, NEW w \in WalkState, NEW q \in tree.quads
  PROVE  LET v == VisitCluster(w, q)
             e == [cell |-> q, children |-> tree.sub_slots[q]]
         IN  /\ e \in [cell : tree.quads, children : Nat]
             /\ v \in WalkState /\ v.ret = (IF w.limit <= 1 THEN 1 ELSE 0) /\ v.limit = w.limit - 1
             /\ v.stack = w.stack /\ v.found = w.found /\ v.clusters = Append(w.clusters, e)
<1> DEFINE e == [cell |-> q, children |-> tree.sub_slots[q]]
           s == w.clusters
           ret == IF w.limit <= 1 THEN 1 ELSE 0
           limit == w.limit - 1
<1>1. e \in [cell : tree.quads, children : Nat]
  <2>1. tree.sub_slots[q] = Cardinality(KeysBelow(tree.slot, q)) /\ Cardinality(KeysBelow(tree.slot, q)) \in Nat
    BY KeysFinite DEF Searchable
  <2> QED BY <2>1
<1>2. w.limit \in Int /\ s \in Groups
  BY StateParts DEF Groups
<1>t. PICK t : t = Append(s, e)
  OBVIOUS
<1>v. PICK v : v = [w EXCEPT !.ret = ret, !.limit = limit, !.clusters = t]
  OBVIOUS
<1>0. VisitCluster(w, q) = v
  BY <1>t, <1>v DEF VisitCluster
<1>3. t \in Groups
  <2> HIDE DEF e, s
  <2> QED BY <1>1, <1>2, <1>t, Appended DEF Groups
<1>4. ret \in {0, 1} /\ limit \in Int
  BY <1>2
<1>5. RenewedClusters(w, v, ret, limit, t)
  BY <1>3, <1>4, <1>v DEF RenewedClusters, Groups
<1> HIDE DEF ret, limit, e
<1>6. /\ v \in WalkState /\ v.ret = ret /\ v.limit = limit
      /\ v.stack = w.stack /\ v.clusters = t /\ v.found = w.found
  BY <1>5, WithClusters
<1> QED BY <1>0, <1>1, <1>6, <1>t DEF ret, limit, e

HitsAdded(search, hits, n, w, v) ==
    /\ v \in WalkState /\ v.ret = (IF Overflows(search, n, w.limit) THEN 1 ELSE 0)
    /\ v.limit = w.limit - n /\ v.stack = w.stack /\ v.clusters = w.clusters
    /\ v.found = [k \in Key |-> w.found[k] + IF \E s \in hits : s.key = k THEN 1 ELSE 0]

(* What a bucket does to a walk. *)
LEMMA BucketFields ==
  ASSUME Searchable, NEW search, NEW zone, NEW w \in WalkState, NEW b \in DOMAIN tree.buckets,
         rectangle2d_intersect(b, zone), NEW hits,
         hits = {s \in tree.buckets[b].slots : s.key \notin unlisted /\ Matches(search, zone, s)},
         NEW n, n = Cardinality(hits), NEW v, v = VisitBucket(search, zone, w, b)
  PROVE  HitsAdded(search, hits, n, w, v)
<1>f. PICK f : f = [k \in Key |-> w.found[k] + IF \E s \in hits : s.key = k THEN 1 ELSE 0]
  OBVIOUS
<1>v. v = [w EXCEPT !.ret = IF Overflows(search, n, w.limit) THEN 1 ELSE 0,
                    !.limit = @ - n, !.found = f]
  <2>1. v = [w EXCEPT !.ret = IF Overflows(search, n, w.limit) THEN 1 ELSE 0,
                      !.limit = @ - n,
                      !.found = [k \in Key |-> @[k] + IF \E s \in hits : s.key = k THEN 1 ELSE 0]]
    BY DEF VisitBucket
  <2> QED BY <1>f, <2>1
<1>1. w.limit \in Int /\ w.found \in [Key -> Nat]
  BY StateParts
<1>2. n \in Nat
  <2> DEFINE H == {k \in KeysAt(tree.slot, b) : Visible(search, zone, k)}
  <2>1. Cardinality(H) \in Nat /\ n = Cardinality(H)
    BY HitsOfBucket
  <2> QED BY <2>1
<1>3. f \in [Key -> Nat]
  <2>1. \A k \in Key : w.found[k] \in Nat
    BY <1>1
  <2> QED BY <1>f, <2>1
<1> DEFINE ret == IF Overflows(search, n, w.limit) THEN 1 ELSE 0
           limit == w.limit - n
<1>4. ret \in {0, 1} /\ limit \in Int
  BY <1>1, <1>2
<1>5. RenewedFound(w, v, ret, limit, f)
  BY <1>3, <1>4, <1>v DEF RenewedFound
<1> HIDE DEF ret, limit
<1>6. /\ v \in WalkState /\ v.ret = ret /\ v.limit = limit
      /\ v.stack = w.stack /\ v.clusters = w.clusters /\ v.found = f
  BY <1>5, WithFound
<1> QED BY <1>6, <1>f DEF HitsAdded, ret, limit

(* A child is dealt with in the same way. *)
LEMMA ChildAhead ==
  ASSUME Searchable, NEW search, NEW zone, NEW allowed, NEW c0 \in Groups,
         NEW u, NEW w, Ahead(c0, u, w), NEW c \in Nodes
  PROVE  Ahead(c0, VisitChild(search, zone, allowed, u, c), VisitChild(search, zone, allowed, w, c))
<1>1. /\ u \in WalkState /\ w \in WalkState /\ w.ret = u.ret /\ w.limit = u.limit
      /\ w.stack = u.stack /\ w.found = u.found /\ w.clusters = c0 \o u.clusters
  BY DEF Ahead
<1>2. CASE u.ret # 0 \/ ~rectangle2d_intersect(c, zone)
  <2>1. VisitChild(search, zone, allowed, u, c) = u /\ VisitChild(search, zone, allowed, w, c) = w
    BY <1>1, <1>2 DEF VisitChild
  <2> QED BY <2>1
<1>3. CASE u.ret = 0 /\ rectangle2d_intersect(c, zone) /\ IsCluster(search, c, allowed)
  <2>1. c \in tree.quads
    BY <1>3 DEF IsCluster
  <2>a. PICK a : a = VisitCluster(u, c)
    OBVIOUS
  <2>b. PICK b : b = VisitCluster(w, c)
    OBVIOUS
  <2>2. VisitChild(search, zone, allowed, u, c) = a /\ VisitChild(search, zone, allowed, w, c) = b
    <3>1. c \notin DOMAIN tree.buckets /\ w.ret = 0
      BY <1>1, <1>3, <2>1 DEF Searchable, Shape
    <3>2. VisitChild(search, zone, allowed, u, c) = a
      BY <1>3, <2>a, <3>1 DEF VisitChild
    <3>3. VisitChild(search, zone, allowed, w, c) = b
      BY <1>3, <2>b, <3>1 DEF VisitChild
    <3> QED BY <3>2, <3>3
  <2> DEFINE T == [cell : tree.quads, children : Nat]
  <2>e. PICK e : e = [cell |-> c, children |-> tree.sub_slots[c]]
    OBVIOUS
  <2>3. /\ e \in T
        /\ a \in WalkState /\ a.ret = (IF u.limit <= 1 THEN 1 ELSE 0) /\ a.limit = u.limit - 1
        /\ a.stack = u.stack /\ a.found = u.found /\ a.clusters = Append(u.clusters, e)
    BY <1>1, <2>1, <2>a, <2>e, ClusterFields
  <2>4. /\ b \in WalkState /\ b.ret = (IF w.limit <= 1 THEN 1 ELSE 0) /\ b.limit = w.limit - 1
        /\ b.stack = w.stack /\ b.found = w.found /\ b.clusters = Append(w.clusters, e)
    BY <1>1, <2>1, <2>b, <2>e, ClusterFields
  <2>5. u.clusters \in Seq(T) /\ c0 \in Seq(T)
    BY <1>1, StateParts DEF Groups
  <2> HIDE DEF T
  <2>6. Append(c0 \o u.clusters, e) = c0 \o Append(u.clusters, e)
    <3>s. PICK s : s = u.clusters
      OBVIOUS
    <3>1. s \in Seq(T) /\ c0 \in Seq(T) /\ e \in T
      BY <2>3, <2>5, <3>s
    <3>2. Associative(c0, s, e)
      BY <3>1, JoinedAppended
    <3> QED BY <3>2, <3>s DEF Associative
  <2>7. b.clusters = c0 \o a.clusters
    BY <1>1, <2>3, <2>4, <2>6
  <2>8. b.ret = a.ret /\ b.limit = a.limit /\ b.stack = a.stack /\ b.found = a.found
    BY <1>1, <2>3, <2>4
  <2> QED BY <2>2, <2>3, <2>4, <2>7, <2>8 DEF Ahead
<1>4. CASE /\ u.ret = 0 /\ rectangle2d_intersect(c, zone) /\ ~IsCluster(search, c, allowed)
           /\ c \in DOMAIN tree.buckets
  <2>a. PICK a : a = VisitBucket(search, zone, u, c)
    OBVIOUS
  <2>b. PICK b : b = VisitBucket(search, zone, w, c)
    OBVIOUS
  <2>2. VisitChild(search, zone, allowed, u, c) = a /\ VisitChild(search, zone, allowed, w, c) = b
    BY <1>1, <1>4, <2>a, <2>b DEF VisitChild
  <2>h. PICK hits : hits = {s \in tree.buckets[c].slots :
                               s.key \notin unlisted /\ Matches(search, zone, s)}
    OBVIOUS
  <2>n. PICK n : n = Cardinality(hits)
    OBVIOUS
  <2>3. HitsAdded(search, hits, n, u, a)
    BY <1>1, <1>4, <2>a, <2>h, <2>n, BucketFields
  <2>4. HitsAdded(search, hits, n, w, b)
    BY <1>1, <1>4, <2>b, <2>h, <2>n, BucketFields
  <2>5. b.ret = a.ret /\ b.limit = a.limit /\ b.stack = a.stack /\ b.found = a.found
    BY <1>1, <2>3, <2>4 DEF HitsAdded
  <2>6. b.clusters = c0 \o a.clusters
    BY <1>1, <2>3, <2>4 DEF HitsAdded
  <2> QED BY <2>2, <2>3, <2>4, <2>5, <2>6 DEF Ahead, HitsAdded
<1>5. CASE /\ u.ret = 0 /\ rectangle2d_intersect(c, zone) /\ ~IsCluster(search, c, allowed)
           /\ c \notin DOMAIN tree.buckets
  <2>1. c \in tree.quads
    BY <1>5 DEF Nodes
  <2>t. PICK t : t = Append(u.stack, c)
    OBVIOUS
  <2>a. PICK a : a = [u EXCEPT !.stack = t]
    OBVIOUS
  <2>b. PICK b : b = [w EXCEPT !.stack = t]
    OBVIOUS
  <2>2. VisitChild(search, zone, allowed, u, c) = a /\ VisitChild(search, zone, allowed, w, c) = b
    BY <1>1, <1>5, <2>a, <2>b, <2>t DEF VisitChild
  <2>3. u.stack \in Seq(tree.quads)
    BY <1>1, StateParts
  <2>4. t \in Seq(tree.quads)
    BY <2>1, <2>3, <2>t, Appended
  <2>5. /\ a \in WalkState /\ a.ret = u.ret /\ a.limit = u.limit /\ a.stack = t
        /\ a.clusters = u.clusters /\ a.found = u.found
    BY <1>1, <2>4, <2>a, WithStack
  <2>6. /\ b \in WalkState /\ b.ret = w.ret /\ b.limit = w.limit /\ b.stack = t
        /\ b.clusters = w.clusters /\ b.found = w.found
    BY <1>1, <2>4, <2>b, WithStack
  <2> QED BY <1>1, <2>2, <2>5, <2>6 DEF Ahead
<1>6. IsCluster(search, c, allowed) => c \notin DOMAIN tree.buckets
  BY DEF IsCluster, Searchable, Shape
<1> QED BY <1>2, <1>3, <1>4, <1>5

(* A turn of the loop as well. *)
LEMMA TurnAhead ==
  ASSUME Searchable, NEW search, NEW zone, NEW c0 \in Groups, NEW u, NEW w, Ahead(c0, u, w)
  PROVE  Ahead(c0, Turn(search, zone, u), Turn(search, zone, w))
<1>1. /\ u \in WalkState /\ w \in WalkState /\ w.ret = u.ret /\ w.limit = u.limit
      /\ w.stack = u.stack /\ w.found = u.found /\ w.clusters = c0 \o u.clusters
  BY DEF Ahead
<1>2. CASE u.stack = << >> \/ u.ret # 0
  <2>1. Turn(search, zone, u) = u /\ Turn(search, zone, w) = w
    BY <1>1, <1>2 DEF Turn
  <2> QED BY <2>1
<1>3. CASE ~(u.stack = << >> \/ u.ret # 0)
  <2>t. PICK top : top = Last(u.stack)
    OBVIOUS
  <2>s. PICK rest : rest = Front(u.stack)
    OBVIOUS
  <2>1. u.stack \in Seq(tree.quads)
    BY <1>1, StateParts
  <2>2. rest \in Seq(tree.quads) /\ top \in tree.quads
    BY <1>3, <2>1, <2>s, <2>t, WithoutLast
  <2>a. PICK a : a = [u EXCEPT !.stack = rest]
    OBVIOUS
  <2>b. PICK b : b = [w EXCEPT !.stack = rest]
    OBVIOUS
  <2>3. /\ a \in WalkState /\ a.ret = u.ret /\ a.limit = u.limit /\ a.stack = rest
        /\ a.clusters = u.clusters /\ a.found = u.found
    BY <1>1, <2>2, <2>a, WithStack
  <2>4. /\ b \in WalkState /\ b.ret = w.ret /\ b.limit = w.limit /\ b.stack = rest
        /\ b.clusters = w.clusters /\ b.found = w.found
    BY <1>1, <2>2, <2>b, WithStack
  <2>5. Ahead(c0, a, b)
    BY <1>1, <2>3, <2>4 DEF Ahead
  <2>c. PICK child : child = get_qrects_from_qbounds(top)
    OBVIOUS
  <2>6. child[1] \in Nodes /\ child[2] \in Nodes /\ child[3] \in Nodes /\ child[4] \in Nodes
    <3>1. IsNode(top) /\ Large(top) /\ Children(top) \subseteq Nodes
      BY <2>2 DEF Searchable, Shape, Nodes
    <3>2. PICK m, n, c1, c2, c3, c4 :
              /\ m \in Int /\ n \in Int
              /\ top.edge0.latitude < m /\ top.edge0.longitude < n
              /\ get_qrects_from_qbounds(top) = <<c1, c2, c3, c4>>
              /\ Children(top) = {c1, c2, c3, c4}
              /\ Corners(c1, top.edge0.latitude, n, m, top.edge1.longitude)
              /\ Corners(c2, m, n, top.edge1.latitude, top.edge1.longitude)
              /\ Corners(c3, top.edge0.latitude, top.edge0.longitude, m, n)
              /\ Corners(c4, m, top.edge0.longitude, top.edge1.latitude, n)
      BY <3>1, FourChildren
    <3>3. child[1] = c1 /\ child[2] = c2 /\ child[3] = c3 /\ child[4] = c4
      BY <2>c, <3>2
    <3> QED BY <3>1, <3>2, <3>3
  <2> DEFINE V(x, c) == VisitChild(search, zone, u.limit \div 4, x, c)
  <2>7. /\ Turn(search, zone, u) = V(V(V(V(a, child[1]), child[2]), child[3]), child[4])
        /\ Turn(search, zone, w) = V(V(V(V(b, child[1]), child[2]), child[3]), child[4])
    <3>1. VisitQuad(search, zone, u) = V(V(V(V(a, child[1]), child[2]), child[3]), child[4])
      BY <2>a, <2>c, <2>s, <2>t DEF VisitQuad
    <3>2. VisitQuad(search, zone, w) = V(V(V(V(b, child[1]), child[2]), child[3]), child[4])
      BY <1>1, <2>b, <2>c, <2>s, <2>t DEF VisitQuad
    <3> QED BY <1>1, <1>3, <3>1, <3>2 DEF Turn
  <2>8. \A x, y, c : Ahead(c0, x, y) /\ c \in Nodes => Ahead(c0, V(x, c), V(y, c))
    BY ChildAhead
  <2> HIDE DEF V
  <2>9. Ahead(c0, V(a, child[1]), V(b, child[1]))
    BY <2>5, <2>6, <2>8
  <2>10. Ahead(c0, V(V(a, child[1]), child[2]), V(V(b, child[1]), child[2]))
    BY <2>6, <2>8, <2>9
  <2>11. Ahead(c0, V(V(V(a, child[1]), child[2]), child[3]), V(V(V(b, child[1]), child[2]), child[3]))
    BY <2>6, <2>8, <2>10
  <2>12. Ahead(c0, V(V(V(V(a, child[1]), child[2]), child[3]), child[4]),
                   V(V(V(V(b, child[1]), child[2]), child[3]), child[4]))
    BY <2>6, <2>8, <2>11
  <2> QED BY <2>7, <2>12
<1> QED BY <1>2, <1>3

(* And so does the walk of the zone. *)
LEMMA ZoneAhead ==
  ASSUME Searchable, NEW search, IsSearch(search), NEW zone, NEW w0 \in WalkState, w0.ret = 0
  PROVE  \E u0 \in WalkState :
            /\ u0.ret = 0 /\ u0.clusters = << >> /\ u0.found = w0.found
            /\ Ahead(w0.clusters, FindInZone(search, u0, zone), FindInZone(search, w0, zone))
<1> DEFINE limit == search.limit
           ret == 0
<1>N. PICK N : N = Cardinality(tree.quads)
  OBVIOUS
<1>1. N \in Nat
  BY <1>N, FS_CardinalityType DEF Searchable, Shape
<1>c. PICK c0 : c0 = w0.clusters
  OBVIOUS
<1>2. /\ w0.limit \in Int /\ c0 \in Groups /\ << >> \in Groups
  <2>1. w0.limit \in Int /\ w0.clusters \in Groups
    BY StateParts DEF Groups
  <2>2. << >> \in Groups
    BY DEF Groups
  <2> QED BY <1>c, <2>1, <2>2
<1>e. PICK none : none = << >>
  OBVIOUS
<1>l. PICK l : l = w0.limit
  OBVIOUS
<1>u. PICK u0 : u0 = [w0 EXCEPT !.ret = ret, !.limit = l, !.clusters = none]
  OBVIOUS
<1>3. /\ u0 \in WalkState /\ u0.ret = 0 /\ u0.clusters = << >> /\ u0.found = w0.found
  <2>1. RenewedClusters(w0, u0, ret, l, none)
    BY <1>2, <1>e, <1>l, <1>u DEF RenewedClusters, Groups
  <2>2. /\ u0 \in WalkState /\ u0.ret = ret /\ u0.clusters = none /\ u0.found = w0.found
    BY <2>1, WithClusters
  <2> QED BY <1>e, <2>2
<1>4. PICK g : Turns(g, search, zone, u0) /\ FindInZone(search, u0, zone) = g[N]
  BY <1>1, <1>N, ZoneTurns
<1>5. PICK h : Turns(h, search, zone, w0) /\ FindInZone(search, w0, zone) = h[N]
  BY <1>1, <1>N, ZoneTurns
<1>6. Ahead(c0, g[0], h[0])
  <2>s. PICK s : s = << qbounds >>
    OBVIOUS
  <2>1. s \in Seq(tree.quads)
    <3>1. PICK q : q = qbounds
      OBVIOUS
    <3>2. q \in tree.quads /\ s = << q >>
      BY <2>s, <3>1 DEF Searchable, Shape
    <3> QED BY <3>2, OneElement
  <2>2. limit \in Int
    BY DEF IsSearch
  <2> HIDE DEF limit
  <2>a. PICK a : a = [u0 EXCEPT !.limit = limit, !.stack = s]
    OBVIOUS
  <2>b. PICK b : b = [w0 EXCEPT !.limit = limit, !.stack = s]
    OBVIOUS
  <2>3. /\ a \in WalkState /\ a.ret = u0.ret /\ a.limit = limit /\ a.stack = s
        /\ a.clusters = u0.clusters /\ a.found = u0.found
    <3>1. RenewedLimit(u0, a, limit, s)
      BY <1>3, <2>1, <2>2, <2>a DEF RenewedLimit
    <3> QED BY <3>1, WithLimit
  <2>4. /\ b \in WalkState /\ b.ret = w0.ret /\ b.limit = limit /\ b.stack = s
        /\ b.clusters = w0.clusters /\ b.found = w0.found
    <3>1. RenewedLimit(w0, b, limit, s)
      BY <2>1, <2>2, <2>b DEF RenewedLimit
    <3> QED BY <3>1, WithLimit
  <2>5. c0 \o << >> = c0
    BY <1>2 DEF Groups
  <2>6. Ahead(c0, a, b)
    BY <1>3, <1>c, <2>3, <2>4, <2>5 DEF Ahead
  <2>7. g[0] = a /\ h[0] = b
    BY <1>4, <1>5, <2>a, <2>b, <2>s DEF Turns, Start, limit
  <2> QED BY <2>6, <2>7
<1> DEFINE Bad == {n \in 0 .. N : ~Ahead(c0, g[n], h[n])}
<1>7. ASSUME Bad # {} PROVE FALSE
  <2>1. Bad \in SUBSET Nat
    <3>1. 0 .. N \subseteq Nat
      BY <1>1
    <3> QED BY <3>1, Zenon
  <2>2. PICK m \in Bad : \A n \in Bad : m <= n
    BY <1>7, <2>1, LeastNat
  <2>3. m # 0
    BY <1>6, <2>2
  <2>4. m \in 1 .. N /\ m - 1 \in 0 .. N /\ ~(m <= m - 1)
    BY <1>1, <2>3
  <2>5. Ahead(c0, g[m - 1], h[m - 1])
    BY <2>2, <2>4
  <2>6. g[m] = Turn(search, zone, g[m - 1]) /\ h[m] = Turn(search, zone, h[m - 1])
    BY <1>4, <1>5, <1>N, <2>4 DEF Turns
  <2>7. Ahead(c0, g[m], h[m])
    BY <1>2, <2>5, <2>6, TurnAhead
  <2> QED BY <2>2, <2>7
<1>8. N \in 0 .. N
  BY <1>1
<1>9. Ahead(c0, g[N], h[N])
  BY <1>7, <1>8
<1> QED BY <1>3, <1>4, <1>5, <1>9, <1>c

(* What a search with clusters has found in the first n zones. *)
AfterClusters(search, zones, w, n) ==
    /\ w \in WalkState
    /\ w.ret = 0 =>
         /\ \A i \in 1 .. Len(w.clusters) :
               /\ w.clusters[i].children = tree.sub_slots[w.clusters[i].cell]
               /\ Height(w.clusters[i].cell) < search.epsilon
         /\ \A k \in Key :
               /\ w.found[k] <= IF k \in VisibleInFirst(search, zones, n) THEN 1 ELSE 0
               /\ k \in VisibleInFirst(search, zones, n) => w.found[k] = 1 \/ Beneath(CellsOf(w), k)

(* A zone adds its clusters and its keys. *)
LEMMA ClustersAdded ==
  ASSUME Searchable, NEW search, IsSearch(search), NEW zones, Len(zones) \in Nat,
         \A i \in 1 .. Len(zones) : zones[i] \in Rectangles, ZonesApart(search, zones),
         NEW n \in 1 .. Len(zones), NEW w, AfterClusters(search, zones, w, n - 1)
  PROVE  AfterClusters(search, zones, NextZone(search, w, zones[n]), n)
<1>v. PICK v : v = NextZone(search, w, zones[n])
  OBVIOUS
<1>z. PICK zone : zone = zones[n]
  OBVIOUS
<1>0. w \in WalkState /\ zone \in Rectangles
  BY <1>z DEF AfterClusters
<1>1. CASE w.ret # 0
  <2>1. v = w
    BY <1>1, <1>v DEF NextZone
  <2> QED BY <1>0, <1>1, <1>v, <2>1 DEF AfterClusters
<1>2. CASE w.ret = 0
  <2>1. v = FindInZone(search, w, zone)
    BY <1>2, <1>v, <1>z DEF NextZone
  <2>2. PICK u0 \in WalkState : /\ u0.ret = 0 /\ u0.clusters = << >> /\ u0.found = w.found
                                /\ Ahead(w.clusters, FindInZone(search, u0, zone), v)
    BY <1>0, <1>2, <2>1, ZoneAhead
  <2>u. PICK u : u = FindInZone(search, u0, zone)
    OBVIOUS
  <2>3. /\ u \in WalkState /\ v \in WalkState /\ v.ret = u.ret /\ v.found = u.found
        /\ v.clusters = w.clusters \o u.clusters
    BY <2>2, <2>u DEF Ahead
  <2>4. CASE u.ret # 0
    BY <1>v, <2>3, <2>4 DEF AfterClusters
  <2>5. CASE u.ret = 0
    <3>1. PICK P : Walking(search, zone, u0, u, {}, P) /\ u.stack = << >>
      BY <1>0, <2>2, <2>5, <2>u, ZoneWalked
    <3>2. /\ Placed(search, u, {}, P)
          /\ Tallied(search, u0, u, Seen(search, zone, CellsOf(u), {}))
      BY <3>1, NothingPending
    <3> DEFINE T == [cell : tree.quads, children : Nat]
               s == w.clusters
               t == u.clusters
               j == v.clusters
               V == VisibleInFirst(search, zones, n)
               V0 == VisibleInFirst(search, zones, n - 1)
               Good(e) == e.children = tree.sub_slots[e.cell] /\ Height(e.cell) < search.epsilon
    <3>3. s \in Seq(T) /\ t \in Seq(T) /\ j = s \o t
      BY <1>0, <2>3, StateParts
    <3>4. \A i \in 1 .. Len(s) : Good(s[i])
      BY <1>2 DEF AfterClusters
    <3>5. \A i \in 1 .. Len(t) : Good(t[i])
      BY <3>2 DEF Placed
    <3>6. \A k \in Key : /\ w.found[k] <= IF k \in V0 THEN 1 ELSE 0
                         /\ k \in V0 => w.found[k] = 1 \/ Beneath(CellsOf(w), k)
      BY <1>2 DEF AfterClusters
    <3>7. \A k \in Key : v.found[k] = IF Visible(search, zone, k) /\ ~Beneath(CellsOf(u), k)
                                      THEN w.found[k] + 1 ELSE w.found[k]
      <4>1. \A k \in Key : k \in Seen(search, zone, CellsOf(u), {})
                              <=> Visible(search, zone, k) /\ ~Beneath(CellsOf(u), k)
        BY DEF Seen, Beneath
      <4> QED BY <2>2, <2>3, <3>2, <4>1 DEF Tallied
    <3>8. CellsOf(w) = {s[i].cell : i \in 1 .. Len(s)} /\ CellsOf(u) = {t[i].cell : i \in 1 .. Len(t)}
          /\ CellsOf(v) = {j[i].cell : i \in 1 .. Len(j)}
      BY DEF CellsOf
    <3>9. w.found \in [Key -> Nat]
      BY <1>0, StateParts
    <3> HIDE DEF T, s, t, j, V, V0, Good
    <3>10. /\ Len(s) \in Nat /\ Len(t) \in Nat /\ Len(j) = Len(s) + Len(t)
           /\ \A i \in 1 .. Len(s) : j[i] = s[i]
           /\ \A i \in 1 .. Len(t) : j[Len(s) + i] = t[i]
           /\ \A i \in 1 .. Len(j) : i \in 1 .. Len(s) \/ i - Len(s) \in 1 .. Len(t)
      BY <3>3, Joined
    <3>11. ASSUME NEW i \in 1 .. Len(j) PROVE Good(j[i])
      <4>1. CASE i \in 1 .. Len(s)
        BY <3>4, <3>10, <4>1
      <4>2. CASE i - Len(s) \in 1 .. Len(t)
        <5>1. Len(s) + (i - Len(s)) = i
          BY <3>10
        <5>2. j[Len(s) + (i - Len(s))] = t[i - Len(s)]
          BY <3>10, <4>2
        <5> QED BY <3>5, <4>2, <5>1, <5>2
      <4> QED BY <3>10, <4>1, <4>2
    <3>12. CellsOf(w) \subseteq CellsOf(v) /\ CellsOf(u) \subseteq CellsOf(v)
      <4>1. ASSUME NEW i \in 1 .. Len(s) PROVE s[i].cell \in CellsOf(v)
        <5>1. i \in 1 .. Len(j) /\ j[i] = s[i]
          BY <3>10
        <5> QED BY <3>8, <5>1
      <4>2. ASSUME NEW i \in 1 .. Len(t) PROVE t[i].cell \in CellsOf(v)
        <5>1. Len(s) + i \in 1 .. Len(j) /\ j[Len(s) + i] = t[i]
          BY <3>10
        <5> QED BY <3>8, <5>1
      <4> QED BY <3>8, <4>1, <4>2
    <3>13. \A k : Beneath(CellsOf(w), k) \/ Beneath(CellsOf(u), k) => Beneath(CellsOf(v), k)
      BY <3>12 DEF Beneath
    <3>14. ASSUME NEW k \in Key
           PROVE  /\ v.found[k] <= IF k \in V THEN 1 ELSE 0
                  /\ k \in V => v.found[k] = 1 \/ Beneath(CellsOf(v), k)
      <4>1. 1 .. n = (1 .. n - 1) \cup {n} /\ n \notin 1 .. n - 1 /\ 1 .. n - 1 \subseteq 1 .. Len(zones)
        OBVIOUS
      <4>2. k \in V <=> k \in V0 \/ Visible(search, zone, k)
        BY <1>z, <4>1 DEF V, V0, VisibleInFirst
      <4>3. ~(k \in V0 /\ Visible(search, zone, k))
        <5>1. SUFFICES ASSUME k \in V0, Visible(search, zone, k) PROVE FALSE
          OBVIOUS
        <5>2. PICK i \in 1 .. n - 1 : Visible(search, zones[i], k)
          BY <5>1 DEF V0, VisibleInFirst
        <5>3. k \in VisibleKeys(search, zones[i]) /\ i \in 1 .. Len(zones) /\ i # n
          BY <4>1, <5>2 DEF VisibleKeys
        <5>4. k \in VisibleKeys(search, zones[n])
          BY <1>z, <5>1 DEF VisibleKeys
        <5> QED BY <5>3, <5>4 DEF ZonesApart
      <4>x. PICK x \in Nat : x = w.found[k]
        BY <3>9
      <4>4. x <= (IF k \in V0 THEN 1 ELSE 0) /\ (k \in V0 => x = 1 \/ Beneath(CellsOf(w), k))
        BY <3>6, <4>x
      <4>5. v.found[k] = IF Visible(search, zone, k) /\ ~Beneath(CellsOf(u), k) THEN x + 1 ELSE x
        BY <3>7, <4>x
      <4>6. CASE Visible(search, zone, k)
        <5>1. x = 0
          BY <4>3, <4>4, <4>6
        <5> QED BY <3>13, <4>2, <4>5, <4>6, <5>1
      <4>7. CASE ~Visible(search, zone, k)
        BY <3>13, <4>2, <4>4, <4>5, <4>7
      <4> QED BY <4>6, <4>7
    <3>15. \A i \in 1 .. Len(v.clusters) :
              /\ v.clusters[i].children = tree.sub_slots[v.clusters[i].cell]
              /\ Height(v.clusters[i].cell) < search.epsilon
      BY <3>11 DEF j, Good
    <3> QED BY <1>v, <2>3, <3>14, <3>15 DEF AfterClusters, V
  <2> QED BY <2>4, <2>5
<1> QED BY <1>1, <1>2

(* A search with clusters, over all its zones. *)
LEMMA ClustersReported ==
  ASSUME Searchable, NEW search, IsSearch(search), NEW zones, Len(zones) \in Nat,
         \A i \in 1 .. Len(zones) : zones[i] \in Rectangles, ZonesApart(search, zones)
  PROVE  AfterClusters(search, zones, FindInZones(search, zones), Len(zones))
<1>N. PICK N : N = Len(zones)
  OBVIOUS
<1>1. PICK g : ZoneByZone(g, search, zones) /\ FindInZones(search, zones) = g[Len(zones)]
  BY AllZones
<1>2. AfterClusters(search, zones, g[0], 0)
  <2>1. VisibleInFirst(search, zones, 0) = {}
    BY DEF VisibleInFirst
  <2>2. \A k \in Key : Blank.found[k] <= 0
    BY BlankFacts
  <2>3. g[0] = Blank
    BY <1>1 DEF ZoneByZone
  <2>4. Len(Blank.clusters) = 0 /\ 1 .. 0 = {}
    BY BlankFacts
  <2> QED BY <2>1, <2>2, <2>3, <2>4, BlankFacts DEF AfterClusters
<1> DEFINE Bad == {n \in 0 .. N : ~AfterClusters(search, zones, g[n], n)}
<1>3. ASSUME Bad # {} PROVE FALSE
  <2>1. Bad \in SUBSET Nat
    <3>1. 0 .. N \subseteq Nat
      BY <1>N
    <3> QED BY <3>1, Zenon
  <2>2. PICK m \in Bad : \A n \in Bad : m <= n
    BY <1>3, <2>1, LeastNat
  <2>3. m # 0
    BY <1>2, <2>2
  <2>4. m \in 1 .. N /\ m - 1 \in 0 .. N /\ ~(m <= m - 1)
    BY <1>N, <2>3
  <2>5. AfterClusters(search, zones, g[m - 1], m - 1)
    BY <2>2, <2>4
  <2>6. g[m] = NextZone(search, g[m - 1], zones[m])
    BY <1>1, <1>N, <2>4 DEF ZoneByZone
  <2>7. AfterClusters(search, zones, g[m], m)
    BY <1>N, <2>4, <2>5, <2>6, ClustersAdded
  <2> QED BY <2>2, <2>7
<1>4. N \in 0 .. N
  BY <1>N
<1> QED BY <1>1, <1>3, <1>4, <1>N

(* The clusters of a reply that k is below. *)
ClustersAbove(reply, k) == {i \in 1 .. Len(reply.clusters) : Beneath({reply.clusters[i].cell}, k)}

(* A record is in at most one cluster of a single walk. *)
LEMMA CoveredOnce ==
  ASSUME Searchable, NEW search, search.near = FALSE, NEW rect \in Rectangles,
         NEW reply, Clustered(search, rect, reply), Len(reply.clusters) \in Nat,
         NEW k \in Listed, position_is_in_rect(PositionOf(k), rect)
  PROVE  reply.found[k] + Cardinality(ClustersAbove(reply, k)) = 1
<1> DEFINE n == Len(reply.clusters)
           I == ClustersAbove(reply, k)
<1>0. k \in Key /\ k \in Located /\ HasSlot(k)
  BY DEF Listed, Located
<1>1. /\ \A i \in 1 .. n : reply.clusters[i].cell \in tree.quads
      /\ \A i, j \in 1 .. n : i # j => Apart(reply.clusters[i].cell, reply.clusters[j].cell)
      /\ reply.found[k] = IF Visible(search, rect, k) /\ ~Beneath(CellsOf(reply), k) THEN 1 ELSE 0
  BY <1>0 DEF Clustered
<1>2. Visible(search, rect, k)
  BY <1>0, VisibleInRect
<1>3. Beneath(CellsOf(reply), k) <=> I # {}
  BY <1>0 DEF Beneath, CellsOf, ClustersAbove
<1>4. ASSUME NEW i \in I, NEW j \in I PROVE i = j
  <2> DEFINE b == tree.slot[k]
             p == reply.clusters[i].cell
             q == reply.clusters[j].cell
  <2>1. /\ b \in DOMAIN tree.buckets /\ p \in tree.quads /\ q \in tree.quads
        /\ In(b, p) /\ In(b, q)
    BY <1>0, <1>1 DEF Searchable, Beneath, ClustersAbove
  <2>2. /\ PositionOf(k) \in Point /\ position_is_in_rect(PositionOf(k), p)
        /\ position_is_in_rect(PositionOf(k), q)
    BY <1>0, <2>1, RecordsOfQuad DEF Searchable
  <2>3. IsNode(p) /\ IsNode(q)
    BY <2>1 DEF Searchable, Shape
  <2>4. ~Apart(p, q)
    BY <2>2, <2>3, Positions
  <2> QED BY <1>1, <2>4 DEF ClustersAbove
<1>5. I = {} => Cardinality(I) = 0
  BY FS_EmptySet
<1>6. I # {} => Cardinality(I) = 1
  <2> HIDE DEF I
  <2> SUFFICES ASSUME I # {} PROVE Cardinality(I) = 1
    OBVIOUS
  <2>1. PICK i : i \in I
    OBVIOUS
  <2>2. I = {i}
    BY <1>4, <2>1
  <2> QED BY <2>2, FS_Singleton
<1> HIDE DEF I
<1>7. CASE I = {}
  <2>1. reply.found[k] = 1
    BY <1>1, <1>2, <1>3, <1>7
  <2>2. reply.found[k] + Cardinality(I) = 1
    BY <1>5, <1>7, <2>1
  <2> QED BY <2>2 DEF I
<1>8. CASE I # {}
  <2>1. reply.found[k] = 0
    BY <1>1, <1>3, <1>8
  <2>2. reply.found[k] + Cardinality(I) = 1
    BY <1>6, <1>8, <2>1
  <2> QED BY <2>2 DEF I
<1> QED BY <1>7, <1>8

(* The zones of a rectangle of a request, and what is visible in them. *)
ZonesOf(flat, query) ==
    LET rect == untangle_rect(query)
    IN  IF flat THEN << rect >> ELSE find_zones(UnwrapLatitude(rect))

(* They share no record, and show those of the request. *)
LEMMA ZonesOfRequest ==
  ASSUME Searchable, NEW search, search.near = FALSE, NEW flat \in BOOLEAN, NEW query \in Rectangles,
         WithinReach(UnwrapLatitude(untangle_rect(query)))
  PROVE  LET zones == ZonesOf(flat, query)
         IN  /\ Len(zones) \in Nat /\ \A i \in 1 .. Len(zones) : zones[i] \in Rectangles
             /\ ZonesApart(search, zones)
             /\ Expected(flat, query) = VisibleInFirst(search, zones, Len(zones))
<1>r. PICK rect : rect = untangle_rect(query)
  OBVIOUS
<1>w. PICK wide : wide = UnwrapLatitude(rect)
  OBVIOUS
<1>1. rect \in Rectangles /\ wide \in Rectangles /\ WithinReach(wide)
  BY <1>r, <1>w, RequestRectangles
<1>z. PICK zones : zones = ZonesOf(flat, query)
  OBVIOUS
<1>2. CASE flat
  <2>1. zones = << rect >>
    BY <1>2, <1>r, <1>z DEF ZonesOf
  <2>2. Expected(flat, query) = {k \in Listed : position_is_in_rect(PositionOf(k), rect)}
    BY <1>2, <1>r DEF Expected, InRequest
  <2> QED BY <1>1, <1>z, <2>1, <2>2, OneZoneFacts
<1>3. CASE ~flat
  <2>1. zones = find_zones(wide)
    BY <1>3, <1>r, <1>w, <1>z DEF ZonesOf
  <2>2. Expected(flat, query) = {k \in Listed : InWrapped(PositionOf(k), wide)}
    BY <1>3, <1>r, <1>w DEF Expected, InRequest
  <2> QED BY <1>1, <1>z, <2>1, <2>2, WrappedZones
<1> QED BY <1>2, <1>3

Covering(reply, keys, epsilon, flat) ==
    /\ Len(reply.clusters) \in Nat /\ DOMAIN reply.clusters = 1 .. Len(reply.clusters)
    /\ \A i \in 1 .. Len(reply.clusters) :
          /\ reply.clusters[i].cell \in tree.quads
          /\ reply.clusters[i].children = Cardinality(KeysBelow(tree.slot, reply.clusters[i].cell))
          /\ Height(reply.clusters[i].cell) < epsilon
    /\ \A k \in Key :
          /\ reply.found[k] <= IF k \in keys THEN 1 ELSE 0
          /\ k \in keys => reply.found[k] + Cardinality(ClustersAbove(reply, k)) >= 1
          /\ k \in keys /\ flat => reply.found[k] + Cardinality(ClustersAbove(reply, k)) = 1

(* The reply to a request with clusters. *)
LEMMA RequestClustered ==
  ASSUME Searchable, NEW query \in Rectangles, WithinReach(UnwrapLatitude(untangle_rect(query))),
         NEW limit \in Nat \ {0}, NEW epsilon \in Int, NEW flat \in BOOLEAN,
         NEW reply, reply = find_in_rect(flat, query, limit, epsilon), reply.ret = 0
  PROVE  Covering(reply, Expected(flat, query), epsilon, flat)
<1>s. PICK search : search = RectSearch(limit, epsilon)
  OBVIOUS
<1>z. PICK zones : zones = ZonesOf(flat, query)
  OBVIOUS
<1> DEFINE n == Len(reply.clusters)
           I(k) == ClustersAbove(reply, k)
           T == [cell : tree.quads, children : Nat]
           c == reply.clusters
<1>1. IsSearch(search) /\ search.near = FALSE /\ search.epsilon = epsilon
  <2> DEFINE x == RectSearch(limit, epsilon)
  <2>1. IsSearch(x) /\ x.near = FALSE /\ x.epsilon = epsilon
    BY DEF RectSearch, IsSearch
  <2> HIDE DEF x
  <2> QED BY <1>s, <2>1 DEF x
<1>2. /\ Len(zones) \in Nat /\ \A i \in 1 .. Len(zones) : zones[i] \in Rectangles
      /\ ZonesApart(search, zones)
      /\ Expected(flat, query) = VisibleInFirst(search, zones, Len(zones))
  BY <1>1, <1>z, ZonesOfRequest
<1>3. reply = FindInZones(search, zones)
  BY <1>s, <1>z DEF find_in_rect, RectSearch, ZonesOf
<1>4. AfterClusters(search, zones, reply, Len(zones))
  BY <1>1, <1>2, <1>3, ClustersReported
<1>5. reply \in WalkState
  BY <1>4 DEF AfterClusters
<1>6. n \in Nat /\ DOMAIN reply.clusters = 1 .. n /\ \A i \in 1 .. n : reply.clusters[i].cell \in tree.quads
  <2>1. c \in Seq(T)
    BY <1>5, StateParts
  <2> HIDE DEF T, c
  <2>2. Len(c) \in Nat /\ DOMAIN c = 1 .. Len(c) /\ \A i \in 1 .. Len(c) : c[i] \in T
    BY <2>1
  <2>3. \A i \in 1 .. Len(c) : c[i].cell \in tree.quads
    BY <2>2 DEF T
  <2> QED BY <2>2, <2>3 DEF c
<1>7. /\ \A i \in 1 .. n : /\ reply.clusters[i].children = tree.sub_slots[reply.clusters[i].cell]
                           /\ Height(reply.clusters[i].cell) < epsilon
      /\ \A k \in Key : /\ reply.found[k] <= IF k \in Expected(flat, query) THEN 1 ELSE 0
                        /\ k \in Expected(flat, query) => reply.found[k] = 1 \/ Beneath(CellsOf(reply), k)
  BY <1>1, <1>2, <1>4 DEF AfterClusters
<1>8. \A q \in tree.quads : tree.sub_slots[q] = Cardinality(KeysBelow(tree.slot, q))
  BY DEF Searchable
<1>9. ASSUME NEW k \in Key, k \in Expected(flat, query)
      PROVE  reply.found[k] + Cardinality(I(k)) >= 1
  <2>1. Beneath(CellsOf(reply), k) => I(k) # {}
    BY DEF Beneath, CellsOf, ClustersAbove
  <2>2. IsFiniteSet(1 .. n) /\ I(k) \in SUBSET (1 .. n)
    <3>N. PICK N \in Nat : N = n
      BY <1>6
    <3>1. IsFiniteSet(1 .. N)
      BY FS_Interval
    <3>2. I(k) \subseteq 1 .. n
      BY DEF ClustersAbove
    <3> HIDE DEF I, n
    <3> QED BY <3>N, <3>1, <3>2
  <2>j. PICK J : J = I(k)
    OBVIOUS
  <2>f. PICK x \in Nat : x = reply.found[k]
    BY <1>5, StateParts
  <2> HIDE DEF I, n
  <2>3. IsFiniteSet(J) /\ Cardinality(J) \in Nat
    BY <2>2, <2>j, FS_Subset, FS_CardinalityType
  <2>4. J # {} => Cardinality(J) # 0
    BY <2>3, FS_EmptySet
  <2>5. x = 1 \/ J # {}
    BY <1>7, <1>9, <2>1, <2>f, <2>j
  <2>6. x + Cardinality(J) >= 1
    BY <2>3, <2>4, <2>5
  <2> QED BY <2>6, <2>f, <2>j
<1>10. ASSUME NEW k \in Key, k \in Expected(flat, query), flat
       PROVE  reply.found[k] + Cardinality(I(k)) = 1
  <2>r. PICK rect : rect = untangle_rect(query)
    OBVIOUS
  <2>1. rect \in Rectangles /\ zones = << rect >>
    BY <1>10, <1>z, <2>r, RequestRectangles DEF ZonesOf
  <2>2. Clustered(search, rect, reply)
    BY <1>1, <1>3, <2>1, ClustersReply
  <2>3. k \in Listed /\ position_is_in_rect(PositionOf(k), rect)
    BY <1>10, <2>r DEF Expected, InRequest
  <2> QED BY <1>1, <1>6, <2>1, <2>2, <2>3, CoveredOnce
<1> HIDE DEF I
<1>11. \A i \in 1 .. n : reply.clusters[i].children = Cardinality(KeysBelow(tree.slot, reply.clusters[i].cell))
  BY <1>6, <1>7, <1>8
<1> QED BY <1>6, <1>7, <1>9, <1>10, <1>11 DEF Covering, I

(* With epsilon each listed record of the rectangle is reported once, or   *)
(* is one of the children of a cluster, of exactly one on a flat layer;    *)
(* a cluster counts the records of its cell                                *)
(* (find_in_rect_cluster_context_cb).                                      *)
THEOREM ClustersAreExact ==
  ASSUME QueriesInReach, Epsilons \subseteq Int PROVE SearchSpec => []ClustersCover
<1>1. ASSUME TreeInv PROVE ClustersCover
  <2>1. Searchable
    BY <1>1, TreeSearchable
  <2> SUFFICES ASSUME NEW query \in InRectQueries, NEW limit \in Limits, NEW epsilon \in Epsilons,
                      NEW flat \in BOOLEAN, NEW reply, reply = find_in_rect(flat, query, limit, epsilon),
                      reply.ret = 0
               PROVE  LET keys  == Expected(flat, query)
                          InCell(i) == {k \in Located : position_is_in_rect(PositionOf(k), reply.clusters[i].cell)}
                          ClustersOf(k) == {i \in DOMAIN reply.clusters : k \in InCell(i)}
                      IN  /\ \A i \in DOMAIN reply.clusters :
                                /\ reply.clusters[i].children = Cardinality(InCell(i))
                                /\ Height(reply.clusters[i].cell) < epsilon
                          /\ \A k \in Key :
                                /\ reply.found[k] <= IF k \in keys THEN 1 ELSE 0
                                /\ k \in keys => reply.found[k] + Cardinality(ClustersOf(k)) >= 1
                                /\ k \in keys /\ flat => reply.found[k] + Cardinality(ClustersOf(k)) = 1
    BY DEF ClustersCover
  <2> DEFINE n == Len(reply.clusters)
             InCell(i) == {k \in Located : position_is_in_rect(PositionOf(k), reply.clusters[i].cell)}
             I(k) == ClustersAbove(reply, k)
  <2>2. limit \in Nat \ {0} /\ epsilon \in Int
    BY QueriesAssumption
  <2>3. query \in Rectangles /\ WithinReach(UnwrapLatitude(untangle_rect(query)))
    BY DEF QueriesInReach
  <2>4. /\ n \in Nat /\ DOMAIN reply.clusters = 1 .. n
        /\ \A i \in 1 .. n :
              /\ reply.clusters[i].cell \in tree.quads
              /\ reply.clusters[i].children = Cardinality(KeysBelow(tree.slot, reply.clusters[i].cell))
              /\ Height(reply.clusters[i].cell) < epsilon
        /\ \A k \in Key :
              /\ reply.found[k] <= IF k \in Expected(flat, query) THEN 1 ELSE 0
              /\ k \in Expected(flat, query) => reply.found[k] + Cardinality(I(k)) >= 1
              /\ k \in Expected(flat, query) /\ flat => reply.found[k] + Cardinality(I(k)) = 1
    <3>1. Covering(reply, Expected(flat, query), epsilon, flat)
      BY <2>1, <2>2, <2>3, RequestClustered
    <3> QED BY <3>1 DEF Covering
  <2>5. ASSUME NEW i \in 1 .. n PROVE InCell(i) = KeysBelow(tree.slot, reply.clusters[i].cell)
    BY <2>1, <2>4, RecordsOfQuad
  <2>6. ASSUME NEW k \in Key PROVE {i \in 1 .. n : k \in InCell(i)} = I(k)
    <3>1. ASSUME NEW i \in 1 .. n PROVE k \in InCell(i) <=> Beneath({reply.clusters[i].cell}, k)
      <4>1. k \in InCell(i) <=> k \in KeysBelow(tree.slot, reply.clusters[i].cell)
        BY <2>5
      <4>2. k \in KeysBelow(tree.slot, reply.clusters[i].cell) <=> Beneath({reply.clusters[i].cell}, k)
        BY DEF KeysBelow, Beneath, HasSlot
      <4> QED BY <4>1, <4>2
    <3> HIDE DEF InCell
    <3> QED BY <3>1 DEF ClustersAbove
  <2> HIDE DEF InCell, I, n
  <2>7. /\ \A i \in DOMAIN reply.clusters : /\ reply.clusters[i].children = Cardinality(InCell(i))
                                           /\ Height(reply.clusters[i].cell) < epsilon
    BY <2>4, <2>5
  <2>8. \A k \in Key : {i \in DOMAIN reply.clusters : k \in InCell(i)} = I(k)
    BY <2>4, <2>6
  <2>9. \A k \in Key :
          /\ reply.found[k] <= IF k \in Expected(flat, query) THEN 1 ELSE 0
          /\ k \in Expected(flat, query) =>
                reply.found[k] + Cardinality({i \in DOMAIN reply.clusters : k \in InCell(i)}) >= 1
          /\ k \in Expected(flat, query) /\ flat =>
                reply.found[k] + Cardinality({i \in DOMAIN reply.clusters : k \in InCell(i)}) = 1
    BY <2>4, <2>8
  <2> QED BY <2>7, <2>9 DEF InCell
<1> QED BY <1>1, SearchedTree, PTL
-----------------------------------------------------------------------------
(* nearby *)

(* A coordinate near the center, and the zone on the other side: they are  *)
(* in different halves of the layer.                                       *)
LEMMA NearSides ==
  ASSUME NEW B \in Nat \ {0}, NEW c \in Int, -B <= c, c <= B, NEW R \in Nat, 2 * R <= B,
         NEW x \in Int, Between(x, -B, B), c - R <= x, x <= c + R
  PROVE  /\ Low(B, c - R) <= x /\ x <= High(B, c + R)
         /\ Beyond0(B, c - R) => x < 0 /\ From(B, c - R, c + R) > 0
         /\ Beyond1(B, c + R) => x >= 0 /\ Upto(B, c - R, c + R) < 0
<1>1. Low(B, c - R) <= x /\ x <= High(B, c + R)
  BY DEF Between, Low, High, Clamp0, Clamp1, dimension_min, dimension_max
<1>2. Beyond0(B, c - R) => x < 0 /\ From(B, c - R, c + R) > 0
  BY DEF Between, Beyond0, From, High, Clamp0, Clamp1, dimension_min, dimension_max
<1>3. Beyond1(B, c + R) => x >= 0 /\ Upto(B, c - R, c + R) < 0
  BY DEF Between, Beyond1, Upto, Low, Clamp0, Clamp1, dimension_min, dimension_max
<1> QED BY <1>1, <1>2, <1>3

(* A bucket lies in one of the halves of the layer. *)
LEMMA BucketsInHalves ==
  ASSUME Searchable, NEW b \in DOMAIN tree.buckets, NEW p \in Point, position_is_in_rect(p, b)
  PROVE  /\ p.latitude < 0 => b.edge1.latitude <= 0
         /\ p.latitude >= 0 => b.edge0.latitude >= 0
         /\ p.longitude < 0 => b.edge1.longitude <= 0
         /\ p.longitude >= 0 => b.edge0.longitude >= 0
<1>1. qbounds \in tree.quads /\ In(b, qbounds) /\ IsNode(b)
  BY DEF Searchable, Shape
<1>2. PICK c \in Children(qbounds) : In(b, c)
  BY <1>1, BucketsOfChildren
<1>3. LatBound \in Nat /\ LonBound \in Nat
  BY TreeAssumption
<1>4. /\ c.edge1.latitude = 0 \/ c.edge0.latitude = 0
      /\ c.edge1.longitude = 0 \/ c.edge0.longitude = 0
  <2>1. (-LatBound + LatBound) \div 2 = 0 /\ (-LonBound + LonBound) \div 2 = 0
    <3>1. -LatBound + LatBound = 0 /\ -LonBound + LonBound = 0 /\ 0 \div 2 = 0
      BY <1>3
    <3> QED BY <3>1
  <2>2. /\ qbounds.edge0.latitude = -LatBound /\ qbounds.edge1.latitude = LatBound
        /\ qbounds.edge0.longitude = -LonBound /\ qbounds.edge1.longitude = LonBound
    BY DEF qbounds, Rect
  <2>3. PICK i \in 1 .. 4 : c = get_qrects_from_qbounds(qbounds)[i]
    BY <1>2 DEF Children
  <2>4. get_qrects_from_qbounds(qbounds)
          = << Rect(-LatBound, 0, 0, LonBound), Rect(0, 0, LatBound, LonBound),
               Rect(-LatBound, -LonBound, 0, 0), Rect(0, -LonBound, LatBound, 0) >>
    BY <2>1, <2>2 DEF get_qrects_from_qbounds
  <2> QED BY <2>3, <2>4 DEF Rect
<1>5. IsNode(c)
  BY RootFacts, ChildFacts
<1>6. p.latitude \in Int /\ p.longitude \in Int
  BY DEF Point
<1> QED BY <1>1, <1>2, <1>4, <1>5, <1>6, NodeFacts DEF In, position_is_in_rect

(* The box around what is within the radius. *)
LEMMA WithinRadius ==
  ASSUME NEW c \in Point, NEW p \in Point, NEW R \in Nat, NEW K \in Nat \ {0},
         K = Secant[c.latitude], WithinDistance(c, p, R)
  PROVE  /\ c.latitude - R <= p.latitude /\ p.latitude <= c.latitude + R
         /\ c.longitude - K * R <= p.longitude /\ p.longitude <= c.longitude + K * R
<1> DEFINE a == abs(c.latitude - p.latitude)
           o == abs(c.longitude - p.longitude)
<1>1. /\ c.latitude \in Int /\ c.longitude \in Int /\ p.latitude \in Int /\ p.longitude \in Int
  BY DEF Point
<1>2. a \in Nat /\ o \in Nat
  BY <1>1 DEF abs
<1>3. K * a + o <= K * R
  BY DEF WithinDistance
<1> HIDE DEF a, o
<1>4. K * R \in Nat /\ K * a \in Nat
  BY <1>2
<1>5. o <= K * R
  BY <1>2, <1>3, <1>4
<1>6. a <= R
  <2> SUFFICES ASSUME R + 1 <= a PROVE FALSE
    BY <1>2
  <2>1. PICK d \in Nat : a = R + 1 + d
    <3>1. a - (R + 1) \in Nat /\ a = R + 1 + (a - (R + 1))
      BY <1>2
    <3> QED BY <3>1
  <2>2. K * a = K * R + K + K * d
    BY <2>1
  <2>3. K * d \in Nat
    BY <2>1
  <2> QED BY <1>2, <1>3, <1>4, <2>2, <2>3
<1>7. /\ c.latitude - R <= p.latitude /\ p.latitude <= c.latitude + R
  BY <1>1, <1>6 DEF a, abs
<1>k. PICK k \in Nat : k = K * R
  BY <1>4
<1>8. c.longitude - k <= p.longitude /\ p.longitude <= c.longitude + k
  BY <1>1, <1>5, <1>k DEF o, abs
<1> QED BY <1>7, <1>8, <1>k

NearSearch(center, radius, limit) ==
    [near |-> TRUE, center |-> center, radius |-> radius, limit |-> limit, epsilon |-> -1]

(* It is a search. *)
LEMMA NearSearchFacts ==
  ASSUME NEW center, NEW radius, NEW limit \in Nat \ {0}
  PROVE  LET search == NearSearch(center, radius, limit)
         IN  /\ IsSearch(search) /\ search.near = TRUE /\ search.center = center
             /\ search.radius = radius /\ search.limit = limit /\ search.epsilon <= 0
  BY DEF NearSearch, IsSearch

Box(c, R, W) == Rect(c.latitude - R, c.longitude - W, c.latitude + R, c.longitude + W)

(* A center on the layer, and a box at most half its size. *)
NearQuery(c, R, W) ==
    /\ c \in Point /\ R \in Nat /\ 2 * R <= LatBound
    /\ W \in Nat /\ W = Secant[c.latitude] * R /\ 2 * W <= LonBound
    /\ -LatBound <= c.latitude /\ c.latitude <= LatBound
    /\ -LonBound <= c.longitude /\ c.longitude <= LonBound

(* The edges of the box. *)
LEMMA BoxFacts ==
  ASSUME NEW c \in Point, NEW R \in Nat, NEW W \in Nat
  PROVE  /\ Box(c, R, W) \in Rectangles
         /\ Corners(Box(c, R, W), c.latitude - R, c.longitude - W, c.latitude + R, c.longitude + W)
<1> DEFINE a0 == c.latitude - R
           o0 == c.longitude - W
           a1 == c.latitude + R
           o1 == c.longitude + W
<1>1. a0 \in Int /\ o0 \in Int /\ a1 \in Int /\ o1 \in Int
  BY DEF Point
<1>2. Box(c, R, W) = Rect(a0, o0, a1, o1)
  BY DEF Box
<1> HIDE DEF a0, o0, a1, o1
<1>3. Box(c, R, W) \in Rectangles /\ Corners(Box(c, R, W), a0, o0, a1, o1)
  BY <1>1, <1>2 DEF Rect, Rectangles, Point, Corners
<1> QED BY <1>3 DEF a0, o0, a1, o1

(* A record within the radius is visible in the first zone only. *)
LEMMA NearVisible ==
  ASSUME Searchable, NEW c, NEW R, NEW W, NearQuery(c, R, W), NEW limit \in Nat \ {0},
         NEW k \in Listed, WithinDistance(c, PositionOf(k), R)
  PROVE  LET search == NearSearch(c, R, limit)
             r      == Box(c, R, W)
         IN  /\ Visible(search, FirstZone(r), k)
             /\ Under0(r) => ~Visible(search, TopZone(r), k)
             /\ Left0(r)  => ~Visible(search, RightZone(r), k)
             /\ Over1(r)  => ~Visible(search, BottomZone(r), k)
             /\ Right1(r) => ~Visible(search, LeftZone(r), k)
<1>s. PICK search : search = NearSearch(c, R, limit)
  OBVIOUS
<1>r. PICK r : r = Box(c, R, W)
  OBVIOUS
<1> DEFINE p == PositionOf(k)
           b == tree.slot[k]
<1>0. k \in Key /\ HasSlot(k) /\ k \notin unlisted
  BY DEF Listed, Located
<1>1. /\ c \in Point /\ R \in Nat /\ 2 * R <= LatBound /\ W \in Nat /\ 2 * W <= LonBound
      /\ -LatBound <= c.latitude /\ c.latitude <= LatBound
      /\ -LonBound <= c.longitude /\ c.longitude <= LonBound
  BY DEF NearQuery
<1>2. p \in Point /\ b \in DOMAIN tree.buckets /\ position_is_in_rect(p, b)
  BY <1>0 DEF Searchable
<1>3. IsNode(b) /\ In(b, qbounds) /\ IsNode(qbounds)
  BY <1>2, RootFacts DEF Searchable, Shape
<1>4. Inside(p)
  BY <1>2, <1>3, Positions DEF Inside
<1>5. search.near = TRUE /\ search.center = c /\ search.radius = R
  BY <1>s DEF NearSearch
<1>6. \A z : Visible(search, z, k) <=> rectangle2d_intersect(b, z)
  <2>1. \A z : Matches(search, z, Slot(k, p)) <=> WithinDistance(c, p, R)
    BY <1>5, SlotFacts DEF Matches
  <2> QED BY <1>0, <2>1 DEF Visible
<1>7. /\ c.latitude - R <= p.latitude /\ p.latitude <= c.latitude + R
      /\ c.longitude - W <= p.longitude /\ p.longitude <= c.longitude + W
  <2>1. c.latitude \in -LatBound .. LatBound
    BY <1>1, TreeAssumption DEF Point
  <2>2. Secant[c.latitude] \in Nat \ {0}
    BY <2>1, QueriesAssumption
  <2>3. PICK K \in Nat \ {0} : K = Secant[c.latitude]
    BY <2>2
  <2>4. W = K * R
    BY <2>3 DEF NearQuery
  <2>5. /\ c.latitude - R <= p.latitude /\ p.latitude <= c.latitude + R
        /\ c.longitude - K * R <= p.longitude /\ p.longitude <= c.longitude + K * R
    BY <1>1, <1>2, <2>3, WithinRadius
  <2> QED BY <2>4, <2>5
<1> HIDE DEF p, b
<1>8. /\ p.latitude \in Int /\ p.longitude \in Int /\ c.latitude \in Int /\ c.longitude \in Int
      /\ Between(p.latitude, -LatBound, LatBound) /\ Between(p.longitude, -LonBound, LonBound)
      /\ LatBound \in Nat \ {0} /\ LonBound \in Nat \ {0}
  <2>1. LatBound \in Nat \ {0} /\ LonBound \in Nat \ {0}
    BY TreeAssumption
  <2> QED BY <1>1, <1>4, <2>1, InsideFacts DEF Point
<1>9. r \in Rectangles /\ Corners(r, c.latitude - R, c.longitude - W, c.latitude + R, c.longitude + W)
  BY <1>1, <1>r, BoxFacts
<1> DEFINE a0 == c.latitude - R
           a1 == c.latitude + R
           o0 == c.longitude - W
           o1 == c.longitude + W
<1>10. /\ Low(LatBound, a0) <= p.latitude /\ p.latitude <= High(LatBound, a1)
       /\ Beyond0(LatBound, a0) => p.latitude < 0 /\ From(LatBound, a0, a1) > 0
       /\ Beyond1(LatBound, a1) => p.latitude >= 0 /\ Upto(LatBound, a0, a1) < 0
  BY <1>1, <1>7, <1>8, NearSides
<1>11. /\ Low(LonBound, o0) <= p.longitude /\ p.longitude <= High(LonBound, o1)
       /\ Beyond0(LonBound, o0) => p.longitude < 0 /\ From(LonBound, o0, o1) > 0
       /\ Beyond1(LonBound, o1) => p.longitude >= 0 /\ Upto(LonBound, o0, o1) < 0
  BY <1>1, <1>7, <1>8, NearSides
<1>12. a0 \in Int /\ a1 \in Int /\ o0 \in Int /\ o1 \in Int
  BY <1>1, <1>8
<1>13. /\ r.edge0.latitude = a0 /\ r.edge0.longitude = o0 /\ r.edge1.latitude = a1 /\ r.edge1.longitude = o1
  BY <1>9 DEF Corners
<1> HIDE DEF a0, a1, o0, o1
<1>14. /\ Low(LatBound, a0) \in Int /\ High(LatBound, a1) \in Int
       /\ From(LatBound, a0, a1) \in Int /\ Upto(LatBound, a0, a1) \in Int
       /\ Low(LonBound, o0) \in Int /\ High(LonBound, o1) \in Int
       /\ From(LonBound, o0, o1) \in Int /\ Upto(LonBound, o0, o1) \in Int
  BY <1>8, <1>12, EdgesTyped
<1>15. /\ p.latitude < 0 => b.edge1.latitude <= 0
       /\ p.latitude >= 0 => b.edge0.latitude >= 0
       /\ p.longitude < 0 => b.edge1.longitude <= 0
       /\ p.longitude >= 0 => b.edge0.longitude >= 0
  BY <1>2, BucketsInHalves
<1>16. /\ b.edge0.latitude \in Int /\ b.edge0.longitude \in Int
       /\ b.edge1.latitude \in Int /\ b.edge1.longitude \in Int
       /\ b.edge0.latitude <= p.latitude /\ p.latitude < b.edge1.latitude
       /\ b.edge0.longitude <= p.longitude /\ p.longitude < b.edge1.longitude
  BY <1>2, <1>3, <1>8, NodeFacts DEF position_is_in_rect
<1>17. rectangle2d_intersect(b, FirstZone(r))
  <2>1. Corners(FirstZone(r), Low(LatBound, a0), Low(LonBound, o0), High(LatBound, a1), High(LonBound, o1))
    BY <1>9, <1>13, ZoneCorners
  <2> QED BY <1>8, <1>10, <1>11, <1>14, <1>16, <2>1 DEF rectangle2d_intersect, Corners, a0, a1, o0, o1
<1>18. Under0(r) => ~rectangle2d_intersect(b, TopZone(r))
  <2>1. TopZone(r).edge0.latitude = From(LatBound, a0, a1)
    BY <1>9, <1>13, ZoneCorners DEF Corners
  <2>2. Under0(r) => b.edge1.latitude <= 0 /\ From(LatBound, a0, a1) > 0
    BY <1>10, <1>13, <1>15 DEF Under0, a0, a1
  <2> QED BY <1>14, <1>16, <2>1, <2>2 DEF rectangle2d_intersect
<1>19. Left0(r) => ~rectangle2d_intersect(b, RightZone(r))
  <2>1. RightZone(r).edge0.longitude = From(LonBound, o0, o1)
    BY <1>9, <1>13, ZoneCorners DEF Corners
  <2>2. Left0(r) => b.edge1.longitude <= 0 /\ From(LonBound, o0, o1) > 0
    BY <1>11, <1>13, <1>15 DEF Left0, o0, o1
  <2> QED BY <1>14, <1>16, <2>1, <2>2 DEF rectangle2d_intersect
<1>20. Over1(r) => ~rectangle2d_intersect(b, BottomZone(r))
  <2>1. BottomZone(r).edge1.latitude = Upto(LatBound, a0, a1)
    BY <1>9, <1>13, ZoneCorners DEF Corners
  <2>2. Over1(r) => b.edge0.latitude >= 0 /\ Upto(LatBound, a0, a1) < 0
    BY <1>10, <1>13, <1>15 DEF Over1, a0, a1
  <2> QED BY <1>14, <1>16, <2>1, <2>2 DEF rectangle2d_intersect
<1>21. Right1(r) => ~rectangle2d_intersect(b, LeftZone(r))
  <2>1. LeftZone(r).edge1.longitude = Upto(LonBound, o0, o1)
    BY <1>9, <1>13, ZoneCorners DEF Corners
  <2>2. Right1(r) => b.edge0.longitude >= 0 /\ Upto(LonBound, o0, o1) < 0
    BY <1>11, <1>13, <1>15 DEF Right1, o0, o1
  <2> QED BY <1>14, <1>16, <2>1, <2>2 DEF rectangle2d_intersect
<1> QED BY <1>6, <1>17, <1>18, <1>19, <1>20, <1>21, <1>r, <1>s

(* A nearby search is exact: the first zone holds all that is near, the    *)
(* others nothing.                                                         *)
LEMMA NearReply ==
  ASSUME Searchable, NEW c, NEW R, NEW W, NearQuery(c, R, W), NEW limit \in Nat \ {0}
  PROVE  LET reply == FindInZones(NearSearch(c, R, limit), find_zones(Box(c, R, W)))
             keys  == {k \in Listed : WithinDistance(c, PositionOf(k), R)}
         IN  IF reply.ret = 0 THEN Reported(reply, keys) /\ Cardinality(keys) < limit
                              ELSE Cardinality(keys) >= limit
<1>s. PICK search : search = NearSearch(c, R, limit)
  OBVIOUS
<1>r. PICK r : r = Box(c, R, W)
  OBVIOUS
<1>z. PICK zones : zones = find_zones(r)
  OBVIOUS
<1>p. PICK reply : reply = FindInZones(search, zones)
  OBVIOUS
<1> DEFINE keys == {k \in Listed : WithinDistance(c, PositionOf(k), R)}
           F == {z \in Rectangles : VisibleKeys(search, z) = {}}
           U == {p \in Point : Inside(p) /\ Covered(r, p)}
<1>1. /\ IsSearch(search) /\ search.near = TRUE /\ search.center = c
      /\ search.radius = R /\ search.limit = limit /\ search.epsilon <= 0
  <2> DEFINE v == NearSearch(c, R, limit)
  <2>1. /\ IsSearch(v) /\ v.near = TRUE /\ v.center = c
        /\ v.radius = R /\ v.limit = limit /\ v.epsilon <= 0
    BY NearSearchFacts
  <2>2. search = v
    BY <1>s
  <2> HIDE DEF v
  <2> QED BY <2>1, <2>2
<1>2. r \in Rectangles
  BY <1>r, BoxFacts DEF NearQuery
<1>3. \A zone : \A k \in Key : Visible(search, zone, k) => k \in Listed /\ WithinDistance(c, PositionOf(k), R)
  BY <1>1, SlotFacts DEF Visible, Matches, Listed, Located
<1>4. ASSUME NEW k \in Listed, WithinDistance(c, PositionOf(k), R)
      PROVE  /\ Visible(search, FirstZone(r), k)
             /\ Under0(r) => ~Visible(search, TopZone(r), k)
             /\ Left0(r)  => ~Visible(search, RightZone(r), k)
             /\ Over1(r)  => ~Visible(search, BottomZone(r), k)
             /\ Right1(r) => ~Visible(search, LeftZone(r), k)
  BY <1>4, <1>r, <1>s, NearVisible
<1>5. VisibleKeys(search, FirstZone(r)) = keys
  BY <1>3, <1>4 DEF VisibleKeys, Listed, Located
<1>6. /\ Under0(r) => VisibleKeys(search, TopZone(r)) = {}
      /\ Left0(r)  => VisibleKeys(search, RightZone(r)) = {}
      /\ Over1(r)  => VisibleKeys(search, BottomZone(r)) = {}
      /\ Right1(r) => VisibleKeys(search, LeftZone(r)) = {}
  <2>1. ASSUME NEW zone, \A k \in Listed : WithinDistance(c, PositionOf(k), R) => ~Visible(search, zone, k)
        PROVE  VisibleKeys(search, zone) = {}
    <3>1. \A k \in Key : ~Visible(search, zone, k)
      BY <1>3, <2>1
    <3> QED BY <3>1 DEF VisibleKeys
  <2>2. Under0(r) => VisibleKeys(search, TopZone(r)) = {}
    BY <1>4, <2>1
  <2>3. Left0(r) => VisibleKeys(search, RightZone(r)) = {}
    BY <1>4, <2>1
  <2>4. Over1(r) => VisibleKeys(search, BottomZone(r)) = {}
    BY <1>4, <2>1
  <2>5. Right1(r) => VisibleKeys(search, LeftZone(r)) = {}
    BY <1>4, <2>1
  <2> QED BY <2>2, <2>3, <2>4, <2>5
<1>7. Tiled(zones, FirstZone(r), F, U)
  <2>1. /\ Under0(r) => TopZone(r) \in F
        /\ Left0(r)  => RightZone(r) \in F
        /\ Over1(r)  => BottomZone(r) \in F
        /\ Right1(r) => LeftZone(r) \in F
    BY <1>2, <1>6, ZoneCorners
  <2> HIDE DEF F
  <2> QED BY <1>2, <1>z, <2>1, ZonesTiled
<1> HIDE DEF keys, U
<1>8. /\ Len(zones) \in Nat \ {0} /\ zones[1] = FirstZone(r)
      /\ \A i \in 1 .. Len(zones) : zones[i] \in Rectangles
      /\ \A i \in 2 .. Len(zones) : VisibleKeys(search, zones[i]) = {}
  <2>1. zones \in Seq(Rectangles) /\ Len(zones) \in Nat \ {0} /\ zones[1] = FirstZone(r)
        /\ \A i \in 2 .. Len(zones) : zones[i] \in F
    BY <1>7 DEF Tiled
  <2> QED BY <2>1
<1>9. \A i \in 1 .. Len(zones) : i # 1 => VisibleKeys(search, zones[i]) = {}
  <2>1. Len(zones) \in Nat
    BY <1>8
  <2>2. \A i \in 1 .. Len(zones) : i # 1 => i \in 2 .. Len(zones)
    BY <2>1
  <2> QED BY <1>8, <2>2
<1>10. ZonesApart(search, zones)
  BY <1>9 DEF ZonesApart
<1>11. AfterZones(search, zones, reply, Len(zones))
  BY <1>1, <1>8, <1>10, <1>p, ZonesReported
<1>12. VisibleInFirst(search, zones, Len(zones)) = keys
  <2>1. \A k \in Key, i \in 1 .. Len(zones) : Visible(search, zones[i], k) => k \in keys
    BY <1>5, <1>8, <1>9 DEF VisibleKeys
  <2>2. 1 \in 1 .. Len(zones)
    BY <1>8
  <2>3. \A k \in keys : k \in Key /\ Visible(search, zones[1], k)
    BY <1>5, <1>8 DEF VisibleKeys
  <2> QED BY <2>1, <2>2, <2>3 DEF VisibleInFirst
<1>13. ASSUME reply.ret = 0 PROVE Reported(reply, keys) /\ Cardinality(keys) < limit
  <2>1. 1 \in 1 .. Len(zones)
    BY <1>8
  <2> QED BY <1>1, <1>5, <1>8, <1>11, <1>12, <1>13, <2>1 DEF AfterZones
<1>14. ASSUME reply.ret # 0 PROVE Cardinality(keys) >= limit
  <2>1. PICK i \in 1 .. Len(zones) : Overflown(search, zones[i])
    BY <1>11, <1>14 DEF AfterZones
  <2>2. Cardinality(VisibleKeys(search, zones[i])) >= limit
    BY <1>1, <2>1 DEF Overflown
  <2>3. i = 1
    <3>1. Cardinality({}) = 0
      BY FS_EmptySet
    <3>2. ~(0 >= limit)
      OBVIOUS
    <3> QED BY <1>9, <2>2, <3>1, <3>2
  <2> QED BY <1>5, <1>8, <2>2, <2>3
<1> QED BY <1>13, <1>14, <1>p, <1>r, <1>s, <1>z DEF keys

(* A nearby search reports each listed record within the radius once and no *)
(* other, and overflows exactly when their number reaches the limit, also  *)
(* when its box reaches over the edges of the layer (find_near).           *)
THEOREM NearbyIsExact == ASSUME CentersOnLayer PROVE SearchSpec => []NearbyExact
<1>1. ASSUME TreeInv PROVE NearbyExact
  <2>1. Searchable
    BY <1>1, TreeSearchable
  <2>2. ASSUME NEW center \in Centers, NEW radius \in Radii, NEW limit \in Limits,
               2 * radius <= LatBound, 2 * Secant[center.latitude] * radius <= LonBound
        PROVE  LET reply == find_near(center, radius, limit)
                   keys  == {k \in Listed : WithinDistance(center, PositionOf(k), radius)}
               IN  IF reply.ret = 0 THEN Reported(reply, keys) /\ Cardinality(keys) < limit
                                    ELSE Cardinality(keys) >= limit
    <3>1. limit \in Nat \ {0}
      BY QueriesAssumption
    <3>w. PICK W : W = Secant[center.latitude] * radius
      OBVIOUS
    <3>2. NearQuery(center, radius, W)
      <4>1. /\ center \in Point /\ radius \in Nat
            /\ -LatBound <= center.latitude /\ center.latitude <= LatBound
            /\ -LonBound <= center.longitude /\ center.longitude <= LonBound
        BY DEF CentersOnLayer
      <4>2. center.latitude \in -LatBound .. LatBound
        BY <4>1, TreeAssumption DEF Point
      <4>3. Secant[center.latitude] \in Nat
        BY <4>2, QueriesAssumption
      <4>4. PICK K \in Nat : K = Secant[center.latitude]
        BY <4>3
      <4>5. W \in Nat /\ 2 * W = 2 * K * radius
        BY <3>w, <4>1, <4>4
      <4>6. 2 * W <= LonBound
        BY <2>2, <4>4, <4>5
      <4> QED BY <2>2, <3>w, <4>1, <4>5, <4>6 DEF NearQuery
    <3>3. find_near(center, radius, limit)
            = FindInZones(NearSearch(center, radius, limit), find_zones(Box(center, radius, W)))
      BY <3>w DEF find_near, NearSearch, Box
    <3> QED BY <2>1, <3>1, <3>2, <3>3, NearReply
  <2> QED BY <2>2 DEF NearbyExact
<1> QED BY <1>1, SearchedTree, PTL
==============================================================================
