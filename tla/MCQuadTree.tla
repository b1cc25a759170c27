---------------------------- MODULE MCQuadTree ----------------------------
EXTENDS Searches
P(lat, lon) == [latitude |-> lat, longitude |-> lon]
(* Three near each other, two at edges of the layer, one out of bounds. *)
MCPosition == {P(0, 0), P(0, 1), P(1, 3), P(3, -8), P(-4, 7), P(4, 0)}
(* A part of one cell; crossing a median; all; an empty one; longitudes    *)
(* exchanged; over the upper latitude, by order and by value; over the     *)
(* lower longitude; over a corner; over all edges.                         *)
MCInRectQueries ==
    {Rect(0, 1, 1, 3), Rect(-2, -3, 2, 4), Rect(-4, -8, 4, 8), Rect(1, 1, 1, 1),
     Rect(0, 7, 2, -8), Rect(3, -8, -3, 8), Rect(1, 0, 6, 8), Rect(0, -12, 4, 1),
     Rect(2, 5, 5, 10), Rect(-5, -9, 5, 9)}
MCCenters == {P(0, 0), P(-2, 0), P(3, -7), P(-4, 7)}
(* 1, 1.1, 1.4, 2.6 and at a pole 10000000, rounded or cut.                *)
MCSecant == [lat \in -4 .. 4 |-> <<1, 1, 1, 2, 100>>[abs(lat) + 1]]
(* "a", "aa", "ab", "b" *)
MCKey == {<<1, 0>>, <<1, 1, 0>>, <<1, 2, 0>>, <<2, 0>>}
MCPatterns == {<< >>, <<1>>, <<1, 1>>, <<3>>}

(* What the theorems on the searches suppose of a request. *)
ASSUME RequestsOfTheorems == QueriesInReach /\ CentersOnLayer /\ Epsilons \subseteq Int
=============================================================================
