------------------------------ MODULE Geometry ------------------------------
(***************************************************************************)
(* computational_geometry_basics.cpp, convex_hull.cpp,                     *)
(* closest_pair_of_points.cpp, line_sweep.cpp and kd_trees.cpp on small    *)
(* integer points, and the R-tree of r_trees.cpp.  The coordinates are     *)
(* integers in the code too, and its products are of 128 bits.             *)
(***************************************************************************)
EXTENDS Integers, SequencesExt, FiniteSetsExt

CONSTANTS MaxEntries, MinEntries,   \* of a node of the R-tree
          Box,                      \* the boxes that objects can have
          MaxObjects                \* bound: objects in the R-tree

VARIABLES rep,      \* the input of a function, or the root of the R-tree
          content   \* the boxes inserted, the first is that of object 1

geoVars == <<rep, content>>
-----------------------------------------------------------------------------
(* Points <<x, y>>, segments <<p, q>>                                       *)

Cross(a, b, c) == (b[1] - a[1]) * (c[2] - a[2]) - (b[2] - a[2]) * (c[1] - a[1])
Orientation(a, b, c) ==
    IF Cross(a, b, c) > 0 THEN 1 ELSE IF Cross(a, b, c) < 0 THEN -1 ELSE 0
\* The elements of S as a sequence in the order "less"
InOrder(S, less(_, _)) ==
    [i \in 1 .. Cardinality(S) |-> CHOOSE x \in S : Cardinality({y \in S : less(y, x)}) = i - 1]

\* All pairs of places
PairsOf(seq) == {p \in (DOMAIN seq) \X (DOMAIN seq) : p[1] < p[2]}

DistSq(a, b) == (a[1] - b[1]) * (a[1] - b[1]) + (a[2] - b[2]) * (a[2] - b[2])

\* on_segment_collinear(): q is within the box of p and r.
OnSegment(p, q, r) ==
    \A i \in {1, 2} : Min({p[i], r[i]}) <= q[i] /\ q[i] <= Max({p[i], r[i]})

SegmentsIntersect(s, t) ==
    LET o1 == Orientation(s[1], s[2], t[1])
        o2 == Orientation(s[1], s[2], t[2])
        o3 == Orientation(t[1], t[2], s[1])
        o4 == Orientation(t[1], t[2], s[2])
    IN  \/ o1 # o2 /\ o3 # o4
        \/ o1 = 0 /\ OnSegment(s[1], t[1], s[2])
        \/ o2 = 0 /\ OnSegment(s[1], t[2], s[2])
        \/ o3 = 0 /\ OnSegment(t[1], s[1], t[2])
        \/ o4 = 0 /\ OnSegment(t[1], s[2], t[2])

\* The boxes are compared first.
DoSegmentsIntersect(s, t) ==
    LET most(u, i) == Max({u[1][i], u[2][i]})
        least(u, i) == Min({u[1][i], u[2][i]})
    IN  /\ \A i \in {1, 2} : least(t, i) <= most(s, i) /\ least(s, i) <= most(t, i)
        /\ SegmentsIntersect(s, t)

After(poly, i) == poly[(i % Len(poly)) + 1]

\* Twice the area, negative for a polygon given clockwise
PolygonArea2x(poly) ==
    IF Len(poly) < 3 THEN 0
    ELSE FoldLeft(LAMBDA sum, i : sum + poly[i][1] * After(poly, i)[2]
                                      - After(poly, i)[1] * poly[i][2],
                  0, [i \in DOMAIN poly |-> i])

\* A ray to the right of pt crosses an edge that ends above it and does not start
\* above it.
Crossed(poly, pt) ==
    {i \in DOMAIN poly :
        LET upward == poly[i][2] <= After(poly, i)[2]
            p == IF upward THEN poly[i] ELSE After(poly, i)
            q == IF upward THEN After(poly, i) ELSE poly[i]
        IN  p[2] <= pt[2] /\ pt[2] < q[2] /\ Orientation(p, q, pt) = 1}

PointInPolygon(pt, poly) ==
    IF Len(poly) < 3 THEN "outside"
    ELSE IF \E i \in DOMAIN poly : /\ Orientation(poly[i], After(poly, i), pt) = 0
                                  /\ OnSegment(poly[i], pt, After(poly, i))
    THEN "on boundary"
    ELSE IF Cardinality(Crossed(poly, pt)) % 2 = 1 THEN "inside" ELSE "outside"
-----------------------------------------------------------------------------
(* convex_hull.cpp.  The points are sorted and made unique: a set.          *)

Before(p, q) == p[1] < q[1] \/ (p[1] = q[1] /\ p[2] < q[2])
Sorted(S) == InOrder(S, Before)

\* Points that do not turn left are dropped, of collinear ones only when strict.
RECURSIVE Dropped(_, _, _, _)
Dropped(hull, p, least, weak) ==
    IF Len(hull) < least THEN hull
    ELSE LET o == Orientation(hull[Len(hull) - 1], Last(hull), p)
         IN  IF o < 0 \/ (o = 0 /\ ~weak) THEN Dropped(Front(hull), p, least, weak) ELSE hull

Chain(hull, points, least, weak) ==
    FoldLeft(LAMBDA h, p : Append(Dropped(h, p, least, weak), p), hull, points)

MonotoneChain(S, weak) ==
    LET points == Sorted(S)
        lower == Chain(<< >>, points, 2, weak)
    IN  IF Len(points) <= 2 THEN points
        ELSE Front(Chain(lower, Tail(Reverse(points)), Len(lower) + 1, weak))

\* The next point of the hull: no other is to the right, a farther one in line wins.
Wraps(from, next, p) ==
    \/ Orientation(from, next, p) = -1
    \/ Orientation(from, next, p) = 0 /\ DistSq(from, p) > DistSq(from, next)

Wrapped(points, current) ==
    FoldLeft(LAMBDA next, i :
                 IF i # current /\ Wraps(points[current], points[next], points[i])
                 THEN i ELSE next,
             (current % Len(points)) + 1, [i \in DOMAIN points |-> i])

RECURSIVE March(_, _, _)
March(points, hull, current) ==
    LET next == Wrapped(points, current)
        longer == Append(hull, points[current])
    IN  IF next = 1 THEN longer ELSE March(points, longer, next)

\* The leftmost point comes first in the sorted sequence.
JarvisMarch(S) ==
    IF Cardinality(S) <= 2 THEN Sorted(S) ELSE March(Sorted(S), << >>, 1)

\* Rotated so that the least point comes first
Canonicalize(hull) ==
    LET least == CHOOSE i \in DOMAIN hull :
                     \A j \in DOMAIN hull : hull[j] = hull[i] \/ Before(hull[i], hull[j])
    IN  SubSeq(hull, least, Len(hull)) \o SubSeq(hull, 1, least - 1)
-----------------------------------------------------------------------------
(* closest_pair_of_points.cpp.  The squared distance of the pair found;     *)
(* "points" is a sequence, a point may be given twice.                      *)

LowerFirst(p, q) == p[2] < q[2] \/ (p[2] = q[2] /\ p[1] < q[1])

\* The pairs of the strip, in the order of y, that differ in y by less than delta
StripBest(strip, delta) ==
    FoldLeft(LAMBDA best, k :
                 LET p == strip[((k - 1) \div Len(strip)) + 1]
                     q == strip[((k - 1) % Len(strip)) + 1]
                 IN  IF (k - 1) \div Len(strip) < (k - 1) % Len(strip)
                        /\ (q[2] - p[2]) * (q[2] - p[2]) < best
                     THEN Min({best, DistSq(p, q)})
                     ELSE best,
             delta, [k \in 1 .. Len(strip) * Len(strip) |-> k])

Strip(points, midX, delta) ==
    SelectSeq(SortSeq(points, LowerFirst),
              LAMBDA p : (p[1] - midX) * (p[1] - midX) < delta)

RECURSIVE ClosestPairRec(_)
ClosestPairRec(points) ==
    LET half == Len(points) \div 2
        delta == Min({ClosestPairRec(h) :
                         h \in {SubSeq(points, 1, half),
                                SubSeq(points, half + 1, Len(points))}})
    IN  IF Len(points) <= 3
        THEN Min({DistSq(points[p[1]], points[p[2]]) : p \in PairsOf(points)})
        ELSE StripBest(Strip(points, points[half + 1][1], delta), delta)

FindClosestPair(points) == ClosestPairRec(SortSeq(points, Before))
-----------------------------------------------------------------------------
(* line_sweep.cpp.  A segment starts at its lesser end; its id is its       *)
(* place.  Heights are compared as fractions, the code's doubles are exact  *)
(* enough for its tolerance.  Events of one place are taken in the order    *)
(* "ties" says: a heap leaves it open.                                      *)

\* The height at x as a pair of numerator and denominator
EvalY(s, x) ==
    LET width == s[2][1] - s[1][1]
    IN  IF width = 0 THEN <<s[1][2], 1>>
        ELSE <<s[1][2] * width + (x - s[1][1]) * (s[2][2] - s[1][2]), width>>

Below(segments, a, b, x) ==
    LET ya == EvalY(segments[a], x)
        yb == EvalY(segments[b], x)
    IN  \/ ya[1] * yb[2] < yb[1] * ya[2]
        \/ ya[1] * yb[2] = yb[1] * ya[2] /\ a < b

\* Starts (type 0) come before the ends (type 1) of the same place.
Events(segments, ties) ==
    InOrder({[x |-> segments[i][t + 1][1], type |-> t, seg |-> i] :
                     i \in DOMAIN segments, t \in {0, 1}},
                 LAMBDA e, f : \/ e.x < f.x
                               \/ e.x = f.x /\ e.type < f.type
                               \/ e.x = f.x /\ e.type = f.type /\ ties[e.seg] < ties[f.seg])

\* The sweep: the segments met, in order, and whether an intersection was found
Meet(segments, status, pairs) ==
    \E p \in pairs : /\ p[1] \in DOMAIN status /\ p[2] \in DOMAIN status
                     /\ SegmentsIntersect(segments[status[p[1]]], segments[status[p[2]]])

Started(segments, sweep, e) ==
    LET at == Cardinality({i \in DOMAIN sweep.status :
                             Below(segments, sweep.status[i], e.seg, e.x)}) + 1
        status == InsertAt(sweep.status, at, e.seg)
    IN  [status |-> status,
         found |-> Meet(segments, status, {<<at - 1, at>>, <<at, at + 1>>})]

Stopped(segments, sweep, e) ==
    LET at == SelectInSeq(sweep.status, LAMBDA i : i = e.seg)
    IN  [status |-> RemoveAt(sweep.status, at),
         found |-> Meet(segments, sweep.status, {<<at - 1, at + 1>>})]

HasAnyIntersection(segments, ties) ==
    FoldLeft(LAMBDA sweep, e : IF sweep.found THEN sweep
                               ELSE IF e.type = 0 THEN Started(segments, sweep, e)
                               ELSE Stopped(segments, sweep, e),
             [status |-> << >>, found |-> FALSE], Events(segments, ties)).found

\* The sweep over horizontal segments and queries of the vertical ones: at one x,
\* starts come first and ends last.
Vertical(s) == s[1][1] = s[2][1]
OrthoEvents(segments) ==
    InOrder(UNION {IF Vertical(segments[i]) THEN {<<segments[i][1][1], 1, i>>}
                        ELSE IF segments[i][1][2] = segments[i][2][2]
                        THEN {<<segments[i][1][1], 0, i>>, <<segments[i][2][1], 2, i>>}
                        ELSE {} : i \in DOMAIN segments},
                 LAMBDA e, f : \/ e[1] < f[1]
                               \/ e[1] = f[1] /\ e[2] < f[2]
                               \/ e[1] = f[1] /\ e[2] = f[2] /\ e[3] < f[3])

FindOrthogonalIntersections(segments) ==
    FoldLeft(LAMBDA sweep, e :
                 IF e[2] = 0 THEN [sweep EXCEPT !.active = @ \cup {e[3]}]
                 ELSE IF e[2] = 2 THEN [sweep EXCEPT !.active = @ \ {e[3]}]
                 ELSE [sweep EXCEPT !.results = @ \cup
                          {{i, e[3]} : i \in {h \in sweep.active :
                              /\ segments[e[3]][1][2] <= segments[h][1][2]
                              /\ segments[h][1][2] <= segments[e[3]][2][2]}}],
             [active |-> {}, results |-> {}], OrthoEvents(segments)).results
-----------------------------------------------------------------------------
(* kd_trees.cpp.  A point's id is its place in "points".                    *)

Nil == << >>

Along(points, axis, a, b) ==
    points[a][axis] < points[b][axis] \/ (points[a][axis] = points[b][axis] /\ a < b)

RECURSIVE BuildRec(_, _, _)
BuildRec(points, ids, axis) ==
    LET order == InOrder(ids, LAMBDA a, b : Along(points, axis, a, b))
        mid == Cardinality(ids) \div 2 + 1
        sides == <<SubSeq(order, 1, mid - 1), SubSeq(order, mid + 1, Len(order))>>
    IN  IF ids = {} THEN Nil
        ELSE [id |-> order[mid], axis |-> axis,
              sides |-> [k \in {1, 2} |-> BuildRec(points, ToSet(sides[k]), 3 - axis)]]

BuildKD(points) == BuildRec(points, DOMAIN points, 1)

\* A box is a pair of corners.
Meets(box, other) == \A i \in {1, 2} : box[1][i] <= other[2][i] /\ other[1][i] <= box[2][i]
Holds(box, p) == \A i \in {1, 2} : box[1][i] <= p[i] /\ p[i] <= box[2][i]

\* The half of the box on a side of the node's point: both halves keep its line.
HalfBox(box, node, p, side) == [box EXCEPT ![3 - side][node.axis] = p[node.axis]]

RECURSIVE RangeSearchRec(_, _, _, _)
RangeSearchRec(points, node, query, current) ==
    IF node = Nil \/ ~Meets(current, query) THEN {}
    ELSE {i \in {node.id} : Holds(query, points[i])}
         \cup UNION {RangeSearchRec(points, node.sides[k], query,
                                    HalfBox(current, node, points[node.id], k)) :
                        k \in {1, 2}}

\* A heap of the k nearest points met: pairs of distance and id
Worst(heap) == CHOOSE e \in heap : \A f \in heap : f[1] <= e[1]

Offered(heap, k, entry) ==
    IF Cardinality(heap) < k THEN heap \cup {entry}
    ELSE IF entry[1] < Worst(heap)[1] THEN (heap \ {Worst(heap)}) \cup {entry}
    ELSE heap

RECURSIVE KnnRec(_, _, _, _, _)
KnnRec(points, node, target, k, heap) ==
    IF node = Nil THEN heap
    ELSE LET diff == target[node.axis] - points[node.id][node.axis]
         IN  FoldLeft(LAMBDA h, side :
                 IF \/ (side = 1) = (diff <= 0)
                    \/ Cardinality(h) < k \/ diff * diff < Worst(h)[1]
                 THEN KnnRec(points, node.sides[side], target, k, h)
                 ELSE h,
                 Offered(heap, k, <<DistSq(points[node.id], target), node.id>>),
                 IF diff <= 0 THEN <<1, 2>> ELSE <<2, 1>>)

KNearestNeighbors(points, target, k) ==
    IF points = << >> \/ k = 0 THEN {}
    ELSE KnnRec(points, BuildKD(points), target, Min({k, Len(points)}), {})
-----------------------------------------------------------------------------
(* r_trees.cpp.  A node holds entries; "of" is the id of an object in a     *)
(* leaf and a node elsewhere.                                               *)

Area(box) == (box[2][1] - box[1][1]) * (box[2][2] - box[1][2])
Enclosing(a, b) ==
    <<<<Min({a[1][1], b[1][1]}), Min({a[1][2], b[1][2]})>>,
      <<Max({a[2][1], b[2][1]}), Max({a[2][2], b[2][2]})>>>>
Growth(box, more) == Area(Enclosing(box, more)) - Area(box)

ComputeMBR(entries) ==
    FoldLeft(LAMBDA box, e : Enclosing(box, e.box), entries[1].box, entries)
EntryOf(node) == [box |-> ComputeMBR(node.entries), of |-> node]

\* The two entries that waste most in one box; the first pair if none wastes.
Waste(a, b) == Area(Enclosing(a, b)) - Area(a) - Area(b)
MostWasteful(waste) ==
    IF \A p \in DOMAIN waste : waste[p] < 0 THEN <<1, 2>>
    ELSE CHOOSE p \in DOMAIN waste : \A q \in DOMAIN waste \ {p} :
            waste[q] < waste[p] \/ (waste[q] = waste[p] /\ Before(p, q))
PickSeeds(all) == MostWasteful([p \in PairsOf(all) |-> Waste(all[p[1]].box, all[p[2]].box)])

\* For each entry left, how much more the first group would grow than the second;
\* the first of the entries that differ most goes where it grows less.
Preferences(all, groups, left) ==
    [i \in left |-> Growth(ComputeMBR(groups[1]), all[i].box)
                       - Growth(ComputeMBR(groups[2]), all[i].box)]
Strongest(preference) ==
    CHOOSE i \in DOMAIN preference : \A j \in DOMAIN preference \ {i} :
        LET more == preference[i] * preference[i] - preference[j] * preference[j]
        IN  more > 0 \/ (more = 0 /\ i < j)
Joined(groups, entry, preference) ==
    IF \/ preference < 0
       \/ preference = 0 /\ Area(ComputeMBR(groups[1])) <= Area(ComputeMBR(groups[2]))
    THEN [groups EXCEPT ![1] = Append(@, entry)] ELSE [groups EXCEPT ![2] = Append(@, entry)]
Assigned(all, split, preference, i) ==
    [groups |-> Joined(split.groups, all[i], preference[i]), left |-> split.left \ {i}]

\* A group that needs all that is left takes it, the first group if both do.
TakeAll(all, split, k) ==
    [groups |-> [split.groups EXCEPT ![k] =
                    @ \o SelectSeq([i \in DOMAIN all |-> IF i \in split.left THEN all[i] ELSE Nil],
                                   LAMBDA e : e # Nil)],
     left |-> {}]
DistributeOne(all, split) ==
    LET short == {k \in {1, 2} : Len(split.groups[k]) + Cardinality(split.left) = MinEntries}
    IN  IF split.left = {} THEN split
        ELSE IF short # {} THEN TakeAll(all, split, Min(short))
        ELSE LET preference == Preferences(all, split.groups, split.left)
             IN  Assigned(all, split, preference, Strongest(preference))

QuadraticSplit(all) ==
    LET seeds == PickSeeds(all)
    IN  FoldLeft(LAMBDA split, i : DistributeOne(all, split),
                 [groups |-> <<<<all[seeds[1]]>>, <<all[seeds[2]]>>>>,
                  left |-> DOMAIN all \ ToSet(seeds)],
                 all).groups

\* The node, or the two nodes it is split into
Fitting(node) ==
    IF Len(node.entries) <= MaxEntries THEN <<node>>
    ELSE LET groups == QuadraticSplit(node.entries)
         IN  <<[node EXCEPT !.entries = groups[1]], [node EXCEPT !.entries = groups[2]]>>

\* The entry whose box grows least, the smaller of two that grow alike
Cheapest(cost) ==
    CHOOSE i \in DOMAIN cost : \A j \in DOMAIN cost \ {i} :
        Before(cost[i], cost[j]) \/ (cost[i] = cost[j] /\ i < j)
ChooseLeaf(entries, box) ==
    Cheapest([i \in DOMAIN entries |-> <<Growth(entries[i].box, box), Area(entries[i].box)>>])

\* The entries after the child of entry i has become one node or two
Replaced(entries, i, nodes) ==
    [entries EXCEPT ![i] = EntryOf(nodes[1])]
    \o (IF Len(nodes) = 1 THEN << >> ELSE <<EntryOf(nodes[2])>>)

RECURSIVE InsertRec(_, _)
InsertRec(node, entry) ==
    LET i == ChooseLeaf(node.entries, entry.box)
    IN  Fitting([node EXCEPT !.entries =
                    IF node.leaf THEN Append(@, entry)
                    ELSE Replaced(@, i, InsertRec(@[i].of, entry))])

RTInit == rep = [leaf |-> TRUE, entries |-> << >>] /\ content = << >>

RTInsert(box) ==
    LET nodes == InsertRec(rep, [box |-> box, of |-> Len(content) + 1])
    IN  /\ Len(content) < MaxObjects
        /\ content' = Append(content, box)
        /\ rep' = IF Len(nodes) = 1 THEN nodes[1]
                  ELSE [leaf |-> FALSE, entries |-> <<EntryOf(nodes[1]), EntryOf(nodes[2])>>]

RTNext == \E box \in Box : RTInsert(box)

\* search(): all objects whose boxes meet the query
RECURSIVE SearchRec(_, _)
SearchRec(node, query) ==
    UNION {IF node.leaf THEN {e.of} ELSE SearchRec(e.of, query) :
              e \in {f \in ToSet(node.entries) : Meets(f.box, query)}}
-----------------------------------------------------------------------------
(* The inputs and what is asked of the answers                              *)

Grid(w, h) == (0 .. w - 1) \X (0 .. h - 1)
SegmentsOf(S) == {s \in S \X S : s[1] = s[2] \/ Before(s[1], s[2])}

AnySegments(S) == \E s, t \in SegmentsOf(S) : rep' = <<s, t>>
AnyPolygon(S, n) == \E poly \in [1 .. n -> S] : IsInjective(poly) /\ rep' = poly
AnyCloud(S) == \E P \in SUBSET S : rep' = P
AnyPoints(S, n) ==
    \E points \in [1 .. n -> S] :
        /\ \A i \in 2 .. n : ~Before(points[i], points[i - 1])
        /\ rep' = points
Earlier(s, t) == Before(s[1], t[1]) \/ (s[1] = t[1] /\ Before(s[2], t[2]))
AnyOrder(segs, n) ==
    \E S \in kSubset(n, segs), ties \in [1 .. n -> 1 .. n] :
        /\ IsInjective(ties)
        /\ rep' = [segments |-> InOrder(S, Earlier), ties |-> ties]

\* Segments are said to intersect when they have a point in common, one of the
\* fractions u / d of the way along s.
HaveCommonPoint(s, t, denominators) ==
    \E d \in denominators : \E u \in 0 .. d :
        LET at == [i \in {1, 2} |-> d * s[1][i] + u * (s[2][i] - s[1][i])]
            times(p) == [i \in {1, 2} |-> d * p[i]]
        IN  /\ Orientation(times(t[1]), times(t[2]), at) = 0
            /\ OnSegment(times(t[1]), at, times(t[2]))

SegmentsExact(denominators) ==
    LET common == HaveCommonPoint(rep[1], rep[2], denominators)
    IN  SegmentsIntersect(rep[1], rep[2]) = common /\ DoSegmentsIntersect(rep[1], rep[2]) = common

\* The area of a simple polygon follows from the points found inside and on its
\* boundary (Pick), and a point is inside a triangle if all edges turn the same way
\* to it.
Edge(poly, i) == <<poly[i], After(poly, i)>>
Simple(poly) ==
    /\ \A i, j \in DOMAIN poly :
           SegmentsIntersect(Edge(poly, i), Edge(poly, j)) =>
               i = j \/ After(poly, i) = poly[j] \/ After(poly, j) = poly[i]
    /\ \A i \in DOMAIN poly : Orientation(poly[i], After(poly, i),
                                  After(poly, (i % Len(poly)) + 1)) # 0

PolygonsExact(points) ==
    LET found(where) == {p \in points : PointInPolygon(p, rep) = where}
        turns(p) == {Orientation(rep[i], After(rep, i), p) : i \in DOMAIN rep}
        area == PolygonArea2x(rep)
    IN  Simple(rep) =>
            /\ area \in {k * (2 * Cardinality(found("inside"))
                              + Cardinality(found("on boundary")) - 2) : k \in {1, -1}}
            /\ Len(rep) = 3 =>
                 /\ area > 0 <=> Orientation(rep[1], rep[2], rep[3]) = 1
                 /\ found("inside") = {p \in points : turns(p) \in {{1}, {-1}}}

\* Hulls of three points or more: every turn is to the left, no point is to the
\* right of an edge, and the weak hull has the points on the edges too.
HullsExact ==
    LET strict == MonotoneChain(rep, FALSE)
        weak == MonotoneChain(rep, TRUE)
        inLine == \A p, q, r \in rep : Orientation(p, q, r) = 0
    IN  Cardinality(rep) > 2 =>
            /\ ToSet(strict) \subseteq rep
            /\ Canonicalize(JarvisMarch(rep)) = Canonicalize(strict)
            /\ \A i \in DOMAIN strict, p \in rep :
                   Orientation(strict[i], After(strict, i), p) >= 0
            /\ inLine => Len(strict) = 2
            /\ ~inLine =>
                 /\ \A i \in DOMAIN strict :
                        Orientation(strict[i], After(strict, i),
                                    After(strict, (i % Len(strict)) + 1)) = 1
                 /\ IsInjective(weak)
                 /\ ToSet(weak) = {p \in rep : \E i \in DOMAIN strict :
                                      Orientation(strict[i], After(strict, i), p) = 0}

\* The pair found is the closest, points that coincide included.
ClosestExact ==
    FindClosestPair(rep) =
        Min({DistSq(rep[p[1]], rep[p[2]]) : p \in PairsOf(rep)})

\* Whatever the order of simultaneous events, an intersection is found if there is
\* one; of horizontal and vertical segments all are.
SweepsExact ==
    LET segs == rep.segments
        met == {p \in kSubset(2, DOMAIN segs) :
                   \A i, j \in p : SegmentsIntersect(segs[i], segs[j])}
        level(i) == segs[i][1][2] = segs[i][2][2]
    IN  /\ HasAnyIntersection(segs, rep.ties) <=> met # {}
        /\ (\A i \in DOMAIN segs : Vertical(segs[i]) \/ level(i)) =>
               FindOrthogonalIntersections(segs) =
                   {p \in met : \E i, j \in p : Vertical(segs[i]) /\ ~Vertical(segs[j])}

\* The points in a box, and the k nearest: no point left out is nearer.
NearestExact(targets, boxes) ==
    LET tree == BuildKD(rep)
    IN  /\ \A box \in boxes :
               RangeSearchRec(rep, tree, box, <<<<-9, -9>>, <<9, 9>>>>)
                   = {i \in DOMAIN rep : Holds(box, rep[i])}
        /\ \A target \in targets, k \in 1 .. 3 :
               LET heap == KNearestNeighbors(rep, target, k)
               IN  /\ Cardinality(heap) = Min({k, Len(rep)})
                   /\ \A e \in heap : /\ e[1] = DistSq(rep[e[2]], target)
                                      /\ \A i \in DOMAIN rep :
                                            (\A f \in heap : f[2] # i) =>
                                                e[1] <= DistSq(rep[i], target)

\* The R-tree: leaves of one depth, nodes filled between the bounds, boxes that are
\* exact, every object in one leaf
RECURSIVE Depths(_)
Depths(node) == IF node.leaf THEN {0}
                ELSE UNION {{d + 1 : d \in Depths(e.of)} : e \in ToSet(node.entries)}

RECURSIVE Filled(_, _)
Filled(node, least) ==
    /\ Len(node.entries) \in least .. MaxEntries
    /\ \A e \in ToSet(node.entries) :
           IF node.leaf THEN e.box = content[e.of]
           ELSE e.box = ComputeMBR(e.of.entries) /\ Filled(e.of, MinEntries)

RECURSIVE Objects(_)
Objects(node) == FoldLeft(LAMBDA ids, e : ids \o IF node.leaf THEN <<e.of>> ELSE Objects(e.of),
                          << >>, node.entries)

RTreeSound ==
    /\ Cardinality(Depths(rep)) = 1
    /\ Filled(rep, IF rep.leaf THEN 0 ELSE 2)
    /\ IsInjective(Objects(rep)) /\ ToSet(Objects(rep)) = DOMAIN content

OverlapsExact(queries) ==
    \A query \in queries :
        SearchRec(rep, query) = {i \in DOMAIN content : Meets(content[i], query)}
=============================================================================
