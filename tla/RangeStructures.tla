--------------------------- MODULE RangeStructures ---------------------------
(***************************************************************************)
(* Structures that answer questions about ranges of an array: the segment  *)
(* trees of range_updates_and_lazy_propagation.cpp, segment_tree.cpp and   *)
(* range_minimum_query.cpp, fenwick_tree.cpp, sqrt_decomposition.cpp; the  *)
(* tree of hashes of merkle_trees.cpp, which has the shape of one; and the *)
(* functions of sparse_table.cpp, range_minimum_query.cpp,                 *)
(* prefix_sums_and_difference_arrays.cpp, mo_algorithm.cpp and             *)
(* offline_query_processing.cpp.                                           *)
(*                                                                         *)
(* The array of a structure counts from 0, as in the code; the arrays that *)
(* the functions are given are sequences, which count from 1.              *)
(***************************************************************************)
EXTENDS Integers, SequencesExt, FiniteSetsExt, Bags

CONSTANTS Size,       \* n_
          Amount,     \* the values added and assigned
          Allowed     \* bound: the values of the array stay in this set

VARIABLES rep,      \* the structure, or the input of a function
          content   \* the array the structure stands for

lsVars == <<rep, content>>

Index == 0 .. Size - 1
Mid(l, r) == l + (r - l) \div 2
Total(a, i, j) == MapThenSumSet(LAMBDA k : a[k], i .. j)
Ranges(I) == {q \in I \X I : q[1] <= q[2]}

\* The array after an addition of v to a range.
Raised(q, v) ==
    /\ content' = [i \in Index |-> content[i] + (IF i \in q[1] .. q[2] THEN v ELSE 0)]
    /\ \A i \in Index : content'[i] \in Allowed
-----------------------------------------------------------------------------
(* The tree with assignments and additions.  rep is tree_: sum, min_val and *)
(* what is pending at every node; what covers a range waits at its nodes    *)
(* until another operation, a query too, descends below them.               *)

RECURSIVE Nodes(_, _, _)
Nodes(n, l, r) ==
    IF l = r THEN {n}
    ELSE {n} \union Nodes(2 * n, l, Mid(l, r)) \union Nodes(2 * n + 1, Mid(l, r) + 1, r)

Node == Nodes(1, 0, Size - 1)

ApplySet(T, n, l, r, v) ==
    [T EXCEPT ![n] = [has_set |-> TRUE, set |-> v, add |-> 0,
                      sum |-> v * (r - l + 1), min |-> v]]

\* An addition after an assignment that still waits changes what is assigned.
ApplyAdd(T, n, l, r, v) ==
    [T EXCEPT ![n].set = IF T[n].has_set THEN @ + v ELSE @,
              ![n].add = IF T[n].has_set THEN @ ELSE @ + v,
              ![n].sum = @ + v * (r - l + 1),
              ![n].min = @ + v]

PushDown(T, n, l, r) ==
    LET m == Mid(l, r)
        T1 == IF ~T[n].has_set THEN T
              ELSE [ApplySet(ApplySet(T, 2 * n, l, m, T[n].set),
                             2 * n + 1, m + 1, r, T[n].set)
                        EXCEPT ![n].has_set = FALSE, ![n].set = 0]
    IN  IF l = r THEN T
        ELSE IF T1[n].add = 0 THEN T1
        ELSE [ApplyAdd(ApplyAdd(T1, 2 * n, l, m, T1[n].add),
                       2 * n + 1, m + 1, r, T1[n].add)
                  EXCEPT ![n].add = 0]

Least(a, b) == IF a <= b THEN a ELSE b

PushUp(T, n) ==
    [T EXCEPT ![n].sum = T[2 * n].sum + T[2 * n + 1].sum,
              ![n].min = Least(T[2 * n].min, T[2 * n + 1].min)]

RECURSIVE Build(_, _, _, _, _), Update(_, _, _, _, _, _, _), Query(_, _, _, _, _, _)

Build(T, n, l, r, a) ==
    IF l = r THEN [T EXCEPT ![n].sum = a[l], ![n].min = a[l]]
    ELSE PushUp(Build(Build(T, 2 * n, l, Mid(l, r), a),
                      2 * n + 1, Mid(l, r) + 1, r, a), n)

\* range_set() and range_add(): apply is ApplySet(v) or ApplyAdd(v)
Update(T, n, l, r, q, set, v) ==
    LET m == Mid(l, r)
        T1 == PushDown(T, n, l, r)
        T2 == IF q[1] <= m THEN Update(T1, 2 * n, l, m, q, set, v) ELSE T1
        T3 == IF q[2] > m THEN Update(T2, 2 * n + 1, m + 1, r, q, set, v) ELSE T2
    IN  IF q[1] <= l /\ r <= q[2]
        THEN IF set THEN ApplySet(T, n, l, r, v) ELSE ApplyAdd(T, n, l, r, v)
        ELSE PushUp(T3, n)

\* query_sum() and query_min() push down as they descend; the nodes at which
\* the descent stops are the parts of the answer.
Query(T, n, l, r, q, parts) ==
    LET m == Mid(l, r)
        T1 == PushDown(T, n, l, r)
        left == IF q[1] <= m THEN Query(T1, 2 * n, l, m, q, parts)
                ELSE [tree |-> T1, parts |-> parts]
    IN  IF q[1] <= l /\ r <= q[2] THEN [tree |-> T, parts |-> parts \union {n}]
        ELSE IF q[2] > m THEN Query(left.tree, 2 * n + 1, m + 1, r, q, left.parts)
        ELSE left

Asked(q) == Query(rep, 1, 0, Size - 1, q, {})
Sum(q) == MapThenSumSet(LAMBDA n : Asked(q).tree[n].sum, Asked(q).parts)
Minimum(q) == Min({Asked(q).tree[n].min : n \in Asked(q).parts})

Queries == Ranges(Index)

LSInit ==
    /\ content \in [Index -> Amount]
    /\ rep = Build([n \in Node |-> [has_set |-> FALSE, set |-> 0, add |-> 0,
                                    sum |-> 0, min |-> 0]], 1, 0, Size - 1, content)

RangeUpdate(q, set, v) ==
    /\ content' = [i \in Index |-> IF i \in q[1] .. q[2]
                                   THEN IF set THEN v ELSE content[i] + v
                                   ELSE content[i]]
    /\ \A i \in Index : content'[i] \in Allowed
    /\ rep' = Update(rep, 1, 0, Size - 1, q, set, v)

RangeQuery(q) ==
    /\ rep' = Asked(q).tree
    /\ UNCHANGED content

LSNext ==
    \/ \E q \in Queries, set \in BOOLEAN, v \in Amount : RangeUpdate(q, set, v)
    \/ \E q \in Queries : RangeQuery(q)

LSSpec == LSInit /\ [][LSNext]_lsVars
-----------------------------------------------------------------------------
(* segment_tree.cpp: sums under additions.  A range is clipped to the array,*)
(* and one that starts behind it is ignored.                                *)

SGInit ==
    /\ content \in [Index -> Amount]
    /\ rep = LET T == Build([n \in Node |-> [sum |-> 0, min |-> 0]], 1, 0, Size - 1, content)
             IN  [n \in Node |-> [sum |-> T[n].sum, lazy |-> 0]]

Covered(T, n, l, r, v) == [T EXCEPT ![n].sum = @ + v * (r - l + 1), ![n].lazy = @ + v]

SGPushDown(T, n, l, r) ==
    LET m == Mid(l, r)
        v == T[n].lazy
    IN  IF v = 0 THEN T
        ELSE [Covered(Covered(T, 2 * n, l, m, v), 2 * n + 1, m + 1, r, v)
                  EXCEPT ![n].lazy = 0]

RECURSIVE UpdateRange(_, _, _, _, _, _), QueryRange(_, _, _, _, _)
UpdateRange(T, n, l, r, q, v) ==
    LET m == Mid(l, r)
        T1 == SGPushDown(T, n, l, r)
        T2 == IF q[1] <= m THEN UpdateRange(T1, 2 * n, l, m, q, v) ELSE T1
        T3 == IF q[2] > m THEN UpdateRange(T2, 2 * n + 1, m + 1, r, q, v) ELSE T2
    IN  IF q[1] <= l /\ r <= q[2] THEN Covered(T, n, l, r, v)
        ELSE [T3 EXCEPT ![n].sum = T3[2 * n].sum + T3[2 * n + 1].sum]

QueryRange(T, n, l, r, q) ==
    LET m == Mid(l, r)
        T1 == SGPushDown(T, n, l, r)
        left == IF q[1] <= m THEN QueryRange(T1, 2 * n, l, m, q) ELSE [tree |-> T1, total |-> 0]
        right == IF q[2] > m THEN QueryRange(left.tree, 2 * n + 1, m + 1, r, q)
                 ELSE [tree |-> left.tree, total |-> 0]
    IN  IF q[1] <= l /\ r <= q[2] THEN [tree |-> T, total |-> T[n].sum]
        ELSE [tree |-> right.tree, total |-> left.total + right.total]

Inside(q) == q[1] <= q[2] /\ q[1] < Size
Clipped(q) == <<q[1], Least(q[2], Size - 1)>>
SGAsked(q) ==
    IF Inside(q) THEN QueryRange(rep, 1, 0, Size - 1, Clipped(q)) ELSE [tree |-> rep, total |-> 0]

SGUpdate(q, v) ==
    /\ rep' = IF Inside(q) THEN UpdateRange(rep, 1, 0, Size - 1, Clipped(q), v) ELSE rep
    /\ Raised(q, v)

SGQuery(q) == rep' = SGAsked(q).tree /\ UNCHANGED content

SGNext == \E q \in (0 .. Size) \X (0 .. Size) : SGQuery(q) \/ \E v \in Amount : SGUpdate(q, v)
-----------------------------------------------------------------------------
(* DynamicRMQ: the least of a range, under assignments                      *)

NoMinimum == 1000000

RMInit ==
    /\ content \in [Index -> Allowed]
    /\ rep = LET T == Build([n \in Node |-> [sum |-> 0, min |-> 0]], 1, 0, Size - 1, content)
             IN  [n \in Node |-> T[n].min]

RECURSIVE RMQuery(_, _, _, _, _), RMUpdated(_, _, _, _, _, _)
RMQuery(T, n, l, r, q) ==
    IF q[2] < l \/ r < q[1] THEN NoMinimum
    ELSE IF q[1] <= l /\ r <= q[2] THEN T[n]
    ELSE Least(RMQuery(T, 2 * n, l, Mid(l, r), q),
               RMQuery(T, 2 * n + 1, Mid(l, r) + 1, r, q))

RMUpdated(T, n, l, r, i, v) ==
    IF l = r THEN [T EXCEPT ![n] = v]
    ELSE LET T1 == IF i <= Mid(l, r) THEN RMUpdated(T, 2 * n, l, Mid(l, r), i, v)
                   ELSE RMUpdated(T, 2 * n + 1, Mid(l, r) + 1, r, i, v)
         IN  [T1 EXCEPT ![n] = Least(T1[2 * n], T1[2 * n + 1])]

RMUpdate(i, v) ==
    /\ rep' = RMUpdated(rep, 1, 0, Size - 1, i, v)
    /\ content' = [content EXCEPT ![i] = v]

RMNext == \E i \in Index, v \in Allowed : RMUpdate(i, v)
-----------------------------------------------------------------------------
(* FenwickTree: positions count from 1                                      *)

LowBit(i) == CHOOSE b \in {2 ^ k : k \in 0 .. 8} : i % b = 0 /\ i % (2 * b) # 0

RECURSIVE FTAdded(_, _, _), FTSum(_, _)
FTAdded(tree, i, v) ==
    IF i > Len(tree) THEN tree
    ELSE FTAdded([tree EXCEPT ![i] = @ + v], i + LowBit(i), v)

FTSum(tree, i) == IF i = 0 THEN 0 ELSE tree[i] + FTSum(tree, i - LowBit(i))

FTRange(tree, l, r) == IF l > r THEN 0 ELSE FTSum(tree, r) - FTSum(tree, l - 1)

\* The constructor in linear time: every node passes its sum on to its parent.
FTBuilt(a) ==
    FoldLeft(LAMBDA tree, i :
                 LET t == [tree EXCEPT ![i] = @ + a[i]]
                     parent == i + LowBit(i)
                 IN  IF parent <= Len(a) THEN [t EXCEPT ![parent] = @ + t[i]] ELSE t,
             [i \in 1 .. Len(a) |-> 0], [i \in 1 .. Len(a) |-> i])

FTInit ==
    /\ content \in [Index -> Amount]
    /\ rep = FTBuilt([i \in 1 .. Size |-> content[i - 1]])

FTAdd(i, v) == rep' = FTAdded(rep, i + 1, v) /\ Raised(<<i, i>>, v)

FTNext == \E i \in Index, v \in Amount : FTAdd(i, v)
-----------------------------------------------------------------------------
(* merkle_trees.cpp: rep is levels_, from the leaves up; a digest is what   *)
(* was hashed, after the prefix for leaves or for nodes                     *)

HashLeaf(d) == <<0, d>>
HashPair(l, r) == <<1, l, r>>
NoLeaves == << >>      \* the hash of the empty string

\* The digests above a level; the last of an odd number is paired with itself.
Paired(level) ==
    [j \in 1 .. (Len(level) + 1) \div 2 |->
        HashPair(level[2 * j - 1], level[Least(2 * j, Len(level))])]

RECURSIVE LevelsFrom(_), Rehashed(_, _, _)
LevelsFrom(level) ==
    IF Len(level) = 1 THEN <<level>> ELSE <<level>> \o LevelsFrom(Paired(level))

MerkleTree(leaves) ==
    IF leaves = << >> THEN <<<<NoLeaves>>>>
    ELSE LevelsFrom([i \in DOMAIN leaves |-> HashLeaf(leaves[i])])

MerkleRoot(levels) == Last(levels)[1]

\* The ancestors of position j of level l are hashed again.
Rehashed(levels, l, j) ==
    IF l = Len(levels) THEN levels
    ELSE LET parent == (j + 1) \div 2
             left == 2 * parent - 1
             right == Least(left + 1, Len(levels[l]))
         IN  Rehashed([levels EXCEPT ![l + 1][parent] =
                           HashPair(levels[l][left], levels[l][right])], l + 1, parent)

WithLeaf(levels, i, d) == Rehashed([levels EXCEPT ![1][i] = HashLeaf(d)], 1, i)

InclusionProof(levels, i) ==
    [l \in 1 .. Len(levels) - 1 |->
        LET level == levels[l]
            j == (i - 1) \div 2 ^ (l - 1) + 1
        IN  IF j % 2 = 0 THEN [sibling |-> level[j - 1], is_left |-> TRUE]
            ELSE [sibling |-> level[Least(j + 1, Len(level))], is_left |-> FALSE]]

VerifyInclusion(root, d, proof) ==
    root = FoldLeft(LAMBDA h, s : IF s.is_left THEN HashPair(s.sibling, h)
                                  ELSE HashPair(h, s.sibling), HashLeaf(d), proof)

MKInit == rep = MerkleTree(<< >>) /\ content = << >>

MKBuild(leaves) == rep' = MerkleTree(leaves) /\ content' = leaves

MKUpdate(i, d) ==
    /\ rep' = WithLeaf(rep, i, d)
    /\ content' = [content EXCEPT ![i] = d]

MKNext ==
    \/ \E leaves \in BoundedSeq(Allowed, Size) : MKBuild(leaves)
    \/ \E i \in DOMAIN content, d \in Allowed : MKUpdate(i, d)
-----------------------------------------------------------------------------
(* SqrtDecomposition                                                        *)

RootOf(n) == Max({k \in 1 .. n : k * k <= n})
BlockSize == RootOf(Size)
NumBlocks == (Size + BlockSize - 1) \div BlockSize
BlockOf(i) == i \div BlockSize
BlockRange(b) == b * BlockSize .. Least((b + 1) * BlockSize, Size) - 1

SQInit ==
    /\ content \in [Index -> Amount]
    /\ rep = [arr |-> content,
              sum |-> [b \in 0 .. NumBlocks - 1 |->
                          MapThenSumSet(LAMBDA i : content[i], BlockRange(b))],
              lazy |-> [b \in 0 .. NumBlocks - 1 |-> 0]]

UpdatePoint(i, v) ==
    LET b == BlockOf(i)
    IN  /\ rep' = [rep EXCEPT !.sum[b] = @ + v - (rep.arr[i] + rep.lazy[b]),
                              !.arr[i] = v - rep.lazy[b]]
        /\ content' = [content EXCEPT ![i] = v]

\* The blocks at both ends are updated element by element, those between are
\* only marked.
RangeAdd(l, r, v) ==
    LET first == BlockOf(l)
        last == BlockOf(r)
        size(b) == Cardinality(BlockRange(b) \intersect (l .. r))
        ends == {i \in l .. r : BlockOf(i) \in {first, last}}
    IN  /\ rep' = [arr |-> [i \in Index |-> rep.arr[i] + (IF i \in ends THEN v ELSE 0)],
                   sum |-> [b \in DOMAIN rep.sum |-> rep.sum[b] + v * size(b)],
                   lazy |-> [b \in DOMAIN rep.lazy |->
                                rep.lazy[b] + (IF first < b /\ b < last THEN v ELSE 0)]]
        /\ Raised(<<l, r>>, v)
        /\ \A b \in DOMAIN rep.lazy : rep'.lazy[b] \in Allowed

QuerySum(l, r) ==
    LET first == BlockOf(l)
        last == BlockOf(r)
    IN  MapThenSumSet(LAMBDA i : rep.arr[i] + rep.lazy[BlockOf(i)],
                      {i \in l .. r : BlockOf(i) \in {first, last}})
        + MapThenSumSet(LAMBDA b : rep.sum[b], first + 1 .. last - 1)

SQNext ==
    \/ \E i \in Index, v \in Allowed : UpdatePoint(i, v)
    \/ \E q \in Queries, v \in Amount : RangeAdd(q[1], q[2], v)
-----------------------------------------------------------------------------
(* The functions: their inputs                                              *)

AnyArray(values, n) == rep' \in BoundedSeq(values, n) \ {<< >>}
AnyMatrix(values, rows, columns) == rep' \in [1 .. rows -> [1 .. columns -> values]]
AnyArrayAndQueries(values, n, queries) ==
    rep' \in [1 .. n -> values] \X BoundedSeq(Ranges(1 .. n), queries)
\* Additions of 1 and of 2 to ranges of positions, some of them empty.
AnyAdditions(positions, n) == rep' \in BoundedSeq(positions \X positions \X {1, 2}, n)
AnyRectangles(rows, columns, n) ==
    rep' \in BoundedSeq(rows \X columns \X rows \X columns \X {1, 2}, n)
\* Points by a, then b, then c.
PointBefore(p, q) ==
    \/ p[1] < q[1]
    \/ p[1] = q[1] /\ p[2] < q[2]
    \/ p[1] = q[1] /\ p[2] = q[2] /\ p[3] < q[3]
\* Up to n points of a cube, some of them equal, in falling order.
AnyPoints(values, n) ==
    \E s \in {s \in BoundedSeq(values \X values \X values, n) :
                 \A i \in 2 .. Len(s) : ~PointBefore(s[i - 1], s[i])} :
        rep' = s
-----------------------------------------------------------------------------
(* SparseTableMin, -Max, -GCD, -ArgMin, StaticRMQ: "kind" says which        *)

LogTable(n) == LET log[i \in 1 .. n] == IF i = 1 THEN 0 ELSE log[i \div 2] + 1 IN log

RECURSIVE Gcd(_, _)
Gcd(x, y) == IF y = 0 THEN x ELSE Gcd(y, x % y)

\* ArgMin keeps positions and prefers the left one.
Better(kind, a, x, y) ==
    CASE kind = "min"    -> IF x <= y THEN x ELSE y
      [] kind = "max"    -> IF x >= y THEN x ELSE y
      [] kind = "gcd"    -> Gcd(x, y)
      [] kind = "argmin" -> IF a[x] <= a[y] THEN x ELSE y

\* st_[k][i]: the answer for the 2^k elements from i on.
SparseTable(kind, a) ==
    LET n == Len(a)
        st[k \in 0 .. LogTable(n)[n]] ==
            [i \in 1 .. n - 2 ^ k + 1 |->
                IF k = 0 THEN IF kind = "argmin" THEN i ELSE a[i]
                ELSE Better(kind, a, st[k - 1][i], st[k - 1][i + 2 ^ (k - 1)])]
    IN  st

\* Two windows that overlap: right for operations that are idempotent.
SparseQuery(kind, a, st, l, r) ==
    LET k == LogTable(Len(a))[r - l + 1]
    IN  Better(kind, a, st[k][l], st[k][r - 2 ^ k + 1])
-----------------------------------------------------------------------------
(* build_cartesian_tree(): 0 stands for -1                                  *)

RECURSIVE LastAbove(_, _, _, _)
\* Pops what is above v; what was popped last, and what remains.
LastAbove(a, stack, v, popped) ==
    IF stack = << >> \/ a[Last(stack)] <= v THEN [popped |-> popped, stack |-> stack]
    ELSE LastAbove(a, Front(stack), v, Last(stack))

CartesianTree(a) ==
    LET step(t, i) ==
            LET at == LastAbove(a, t.stack, a[i], 0)
                top == IF at.stack = << >> THEN 0 ELSE Last(at.stack)
                left == IF at.popped = 0 THEN t
                        ELSE [t EXCEPT !.left[i] = at.popped, !.parent[at.popped] = i]
                right == IF top = 0 THEN left
                         ELSE [left EXCEPT !.right[top] = i, !.parent[i] = top]
            IN  [right EXCEPT !.stack = Append(at.stack, i)]
        none == [i \in DOMAIN a |-> 0]
    IN  FoldLeft(step, [left |-> none, right |-> none, parent |-> none, stack |-> << >>],
                 [i \in DOMAIN a |-> i])
CartesianRoot(t) == Min({i \in DOMAIN t.parent : t.parent[i] = 0})
-----------------------------------------------------------------------------
(* prefix_sums_and_difference_arrays.cpp                                    *)

PrefixSums(a) == LET pref[i \in 0 .. Len(a)] == IF i = 0 THEN 0 ELSE pref[i - 1] + a[i] IN pref
RangeSum(pref, l, r) == IF l > r THEN 0 ELSE pref[r] - pref[l - 1]

PrefixSums2D(a) ==
    LET pref[i \in 0 .. Len(a), j \in 0 .. Len(a[1])] ==
            IF i = 0 \/ j = 0 THEN 0
            ELSE pref[i - 1, j] + pref[i, j - 1] - pref[i - 1, j - 1] + a[i][j]
    IN  pref
RectangleSum(pref, r1, c1, r2, c2) ==
    IF r1 > r2 \/ c1 > c2 THEN 0
    ELSE pref[r2, c2] - pref[r1 - 1, c2] - pref[r2, c1 - 1] + pref[r1 - 1, c1 - 1]

BuildDifferenceArray(a) == [i \in DOMAIN a |-> IF i = 1 THEN a[1] ELSE a[i] - a[i - 1]]
ReconstructFromDifference(diff) ==
    LET a[i \in DOMAIN diff] == IF i = 1 THEN diff[1] ELSE a[i - 1] + diff[i] IN a

\* An addition <<l, r, x>> that is empty or starts behind the array is ignored.
Marked(diff, update) ==
    LET n == Len(diff)
        l == update[1]
        r == update[2]
        x == update[3]
        start == [diff EXCEPT ![l] = @ + x]
    IN  IF l > r \/ l > n THEN diff
        ELSE IF r + 1 <= n THEN [start EXCEPT ![r + 1] = @ - x] ELSE start
ApplyRangeAdditions(n, updates) ==
    ReconstructFromDifference(FoldLeft(Marked, [i \in 1 .. n |-> 0], updates))

\* The four corners of <<r1, c1, r2, c2, x>> that are in the matrix.
Cornered(n, m, diff, update) ==
    LET r1 == update[1]
        c1 == update[2]
        r2 == update[3]
        c2 == update[4]
        x == update[5]
        mark(d, i, j, v) == IF i <= n /\ j <= m THEN [d EXCEPT ![i][j] = @ + v] ELSE d
    IN  IF r1 > r2 \/ c1 > c2 \/ r1 > n \/ c1 > m THEN diff
        ELSE mark(mark(mark(mark(diff, r1, c1, x), r1, c2 + 1, -x), r2 + 1, c1, -x),
                  r2 + 1, c2 + 1, x)
ApplyRectangleAdditions(n, m, updates) ==
    LET diff == FoldLeft(LAMBDA d, u : Cornered(n, m, d, u),
                         [i \in 1 .. n |-> [j \in 1 .. m |-> 0]], updates)
        a[i \in 0 .. n, j \in 0 .. m] ==
            IF i = 0 \/ j = 0 THEN 0
            ELSE diff[i][j] + a[i - 1, j] + a[i, j - 1] - a[i - 1, j - 1]
    IN  [i \in 1 .. n |-> [j \in 1 .. m |-> a[i, j]]]
-----------------------------------------------------------------------------
(* mo_algorithm.cpp: queries are ranges; answers in the order asked         *)

HilbertPow == 3     \* bound: 21 in the code

RECURSIVE HilbertOrder(_, _, _, _)
HilbertOrder(x, y, pow, rotate) ==
    LET half == 2 ^ (pow - 1)
        seg == ((IF x < half THEN IF y < half THEN 0 ELSE 3 ELSE IF y < half THEN 1 ELSE 2)
                   + rotate) % 4
        nrot == (rotate + <<3, 0, 0, 1>>[seg + 1]) % 4
        square == 2 ^ (2 * pow - 2)
        add == HilbertOrder(x % half, y % half, pow - 1, nrot)
    IN  IF pow = 0 THEN 0
        ELSE seg * square + (IF seg \in {1, 2} THEN add ELSE square - add - 1)

MoBlockSize(n, count) == Max({1} \union {b \in 1 .. n : b * b * count <= n * n})

\* The comparators; what they leave open, the order of the queries decides.
MoBefore(hilbert, n, queries, i, j) ==
    LET block(k) == (queries[k][1] - 1) \div MoBlockSize(n, Len(queries))
        order(k) == HilbertOrder(queries[k][1] - 1, queries[k][2] - 1, HilbertPow, 0)
        zigzag(k) == IF block(k) % 2 = 1 THEN queries[k][2] ELSE -queries[k][2]
        key(k) == IF hilbert THEN <<order(k), 0>> ELSE <<block(k), zigzag(k)>>
    IN  \/ key(i)[1] < key(j)[1]
        \/ key(i)[1] = key(j)[1] /\ key(i)[2] < key(j)[2]

MoSorted(hilbert, n, queries) ==
    SortSeq([i \in DOMAIN queries |-> i],
            LAMBDA i, j : \/ MoBefore(hilbert, n, queries, i, j)
                          \/ ~MoBefore(hilbert, n, queries, j, i) /\ i < j)

\* add() and remove() of solveDistinctElements() and of solvePowerfulArray().
MoAdd(a, w, i) ==
    LET f == w.freq[a[i]]
    IN  [w EXCEPT !.freq[a[i]] = f + 1,
                  !.distinct = @ + (IF f = 0 THEN 1 ELSE 0),
                  !.sum = @ + (2 * f + 1) * a[i]]
MoRemove(a, w, i) ==
    LET f == w.freq[a[i]]
    IN  [w EXCEPT !.freq[a[i]] = f - 1,
                  !.distinct = @ - (IF f = 1 THEN 1 ELSE 0),
                  !.sum = @ - (2 * f - 1) * a[i]]

RECURSIVE MoMoved(_, _, _, _)
\* The window w.l .. w.r moves one step at a time, outwards first.
MoMoved(a, w, l, r) ==
    CASE w.l > l -> MoMoved(a, [MoAdd(a, w, w.l - 1) EXCEPT !.l = @ - 1], l, r)
      [] w.l <= l /\ w.r < r -> MoMoved(a, [MoAdd(a, w, w.r + 1) EXCEPT !.r = @ + 1], l, r)
      [] w.l < l /\ w.r >= r -> MoMoved(a, [MoRemove(a, w, w.l) EXCEPT !.l = @ + 1], l, r)
      [] w.l = l /\ w.r > r -> MoMoved(a, [MoRemove(a, w, w.r) EXCEPT !.r = @ - 1], l, r)
      [] OTHER -> w

MoAnswers(hilbert, a, queries) ==
    LET step(at, i) ==
            LET w == MoMoved(a, at.w, queries[i][1], queries[i][2])
            IN  [w |-> w, answers |-> [at.answers EXCEPT ![i] = <<w.distinct, w.sum>>]]
        empty == [l |-> 1, r |-> 0, freq |-> [v \in 0 .. Max(ToSet(a)) |-> 0],
                  distinct |-> 0, sum |-> 0]
    IN  FoldLeft(step, [w |-> empty, answers |-> [i \in DOMAIN queries |-> <<0, 0>>]],
                 MoSorted(hilbert, Len(a), queries)).answers
-----------------------------------------------------------------------------
(* offline_query_processing.cpp                                             *)

\* cdqRec(): counts for the elements on the right those on the left that are no
\* greater in b and in c, while both are merged by b.
RECURSIVE CdqMerge(_, _, _, _), CdqRec(_, _)
CdqMerge(left, right, bit, merged) ==
    IF right # << >> /\ (left = << >> \/ left[1].b > right[1].b)
    THEN CdqMerge(left, Tail(right), bit,
                  Append(merged, [right[1] EXCEPT !.ans = @ + FTSum(bit, right[1].c)]))
    ELSE IF right # << >>
    THEN CdqMerge(Tail(left), right, FTAdded(bit, left[1].c, left[1].count),
                  Append(merged, left[1]))
    ELSE merged \o left

CdqRec(elems, maxC) ==
    LET mid == (Len(elems) + 1) \div 2
    IN  IF Len(elems) <= 1 THEN elems
        ELSE CdqMerge(CdqRec(SubSeq(elems, 1, mid), maxC),
                      CdqRec(SubSeq(elems, mid + 1, Len(elems)), maxC),
                      [i \in 1 .. maxC + 2 |-> 0], << >>)

\* Equal points are one point with a count; c is replaced by its rank.
Solve3DPartialOrder(points) ==
    LET cValues == {p[3] : p \in ToSet(points)}
        rank(c) == Cardinality({d \in cValues : d <= c})
        merge(u, p) ==
            IF u # << >> /\ Last(u).point = p
            THEN [u EXCEPT ![Len(u)].count = @ + 1]
            ELSE Append(u, [point |-> p, b |-> p[2], c |-> rank(p[3]), count |-> 1, ans |-> 0])
        elems == FoldLeft(merge, << >>, SortSeq(points, PointBefore))
        counted == CdqRec(elems, Cardinality(cValues))
        dominance(e) == e.ans + e.count - 1
    IN  [i \in DOMAIN points |->
            dominance(CHOOSE e \in ToSet(counted) : e.point = points[i])]

\* Only the last position of each value counts as the right end moves on.
SolveDistinctRangeQueries(a, queries) ==
    LET step(at, r) ==
            LET seen == {i \in 1 .. r - 1 : a[i] = a[r]}
                bit == FTAdded(IF seen = {} THEN at.bit ELSE FTAdded(at.bit, Max(seen), -1),
                               r, 1)
            IN  [bit |-> bit,
                 answers |-> [i \in DOMAIN queries |->
                                 IF queries[i][2] = r THEN FTRange(bit, queries[i][1], r)
                                 ELSE at.answers[i]]]
    IN  FoldLeft(step, [bit |-> [i \in 1 .. Len(a) + 1 |-> 0],
                        answers |-> [i \in DOMAIN queries |-> 0]],
                 [r \in DOMAIN a |-> r]).answers
-----------------------------------------------------------------------------
(* Properties                                                               *)

\* Every query answers with the sum and the least of the array, whatever mix of
\* additions and assignments still waits above the nodes it reads.
QueriesExact ==
    \A q \in Queries :
        /\ Sum(q) = MapThenSumSet(LAMBDA i : content[i], q[1] .. q[2])
        /\ Minimum(q) = Min({content[i] : i \in q[1] .. q[2]})

\* The sums of segment_tree.cpp, of the Fenwick tree and of the blocks, and the
\* minima of DynamicRMQ, whatever updates came before and whatever still waits.
SGExact ==
    \A q \in (0 .. Size) \X (0 .. Size) :
        SGAsked(q).total = MapThenSumSet(LAMBDA i : content[i], (q[1] .. q[2]) \intersect Index)

FTExact ==
    \A l, r \in 1 .. Size :
        FTRange(rep, l, r) = MapThenSumSet(LAMBDA i : content[i - 1], l .. r)

RMExact ==
    \A q \in Queries :
        RMQuery(rep, 1, 0, Size - 1, q) = Min({content[i] : i \in q[1] .. q[2]})

SQExact ==
    \A q \in Queries :
        QuerySum(q[1], q[2]) = MapThenSumSet(LAMBDA i : content[i], q[1] .. q[2])

\* The tables answer for every range, the leftmost of equal positions included;
\* below a node of the Cartesian tree is the longest range around it in which
\* nothing is less, and nothing to its left is equal.
TablesExact ==
    LET a == rep
        tree == CartesianTree(a)
        values(l, r) == {a[i] : i \in l .. r}
        divisors(x) == {d \in 1 .. x : x % d = 0}
        st == [kind \in {"min", "max", "gcd", "argmin"} |-> SparseTable(kind, a)]
        query(kind, l, r) == SparseQuery(kind, a, st[kind], l, r)
        below[i \in 0 .. Len(a)] ==
            IF i = 0 THEN {} ELSE {i} \union below[tree.left[i]] \union below[tree.right[i]]
        around(i) == {j \in DOMAIN a : /\ \A k \in j .. i - 1 : a[k] > a[i]
                                       /\ \A k \in i + 1 .. j : a[k] >= a[i]}
    IN  /\ \A l \in DOMAIN a : \A r \in l .. Len(a) :
              /\ query("min", l, r) = Min(values(l, r))
              /\ query("max", l, r) = Max(values(l, r))
              /\ query("gcd", l, r) =
                     Max({d \in divisors(a[l]) : \A v \in values(l, r) : d \in divisors(v)})
              /\ query("argmin", l, r) = Min({i \in l .. r : a[i] = Min(values(l, r))})
        /\ \A i \in DOMAIN a :
              /\ below[i] = around(i)
              /\ \A child \in {tree.left[i], tree.right[i]} \ {0} : tree.parent[child] = i
        /\ CartesianRoot(tree) = query("argmin", 1, Len(a))

\* Prefix sums give the sum of every range and of every rectangle, differences
\* are undone by summing, marks at the ends and corners add up to the additions.
PrefixSumsExact ==
    /\ \A l, r \in DOMAIN rep : RangeSum(PrefixSums(rep), l, r) = Total(rep, l, r)
    /\ ReconstructFromDifference(BuildDifferenceArray(rep)) = rep

RectanglesExact ==
    \A r1, r2 \in DOMAIN rep, c1, c2 \in DOMAIN rep[1] :
        RectangleSum(PrefixSums2D(rep), r1, c1, r2, c2) =
            MapThenSumSet(LAMBDA i : Total(rep[i], c1, c2), r1 .. r2)

AdditionsExact(n) ==
    ApplyRangeAdditions(n, rep) =
        [i \in 1 .. n |-> FoldLeft(LAMBDA v, u : v + (IF i \in u[1] .. u[2] THEN u[3] ELSE 0),
                                   0, rep)]

RectangleAdditionsExact(n, m) ==
    ApplyRectangleAdditions(n, m, rep) =
        [i \in 1 .. n |-> [j \in 1 .. m |->
            FoldLeft(LAMBDA v, u : v + (IF i \in u[1] .. u[3] /\ j \in u[2] .. u[4]
                                        THEN u[5] ELSE 0), 0, rep)]]

\* In whatever order the queries are answered, each gets the number of values in
\* its range, and the sum of the values weighted by the squares of how often they
\* occur.
QueriesAnswered ==
    LET a == rep[1]
        queries == rep[2]
        often(v, q) == Cardinality({i \in q[1] .. q[2] : a[i] = v})
        values(q) == {a[i] : i \in q[1] .. q[2]}
        expected == [i \in DOMAIN queries |->
                        <<Cardinality(values(queries[i])),
                          MapThenSumSet(LAMBDA v : often(v, queries[i]) * often(v, queries[i]) * v,
                                        values(queries[i]))>>]
    IN  /\ \A hilbert \in BOOLEAN : MoAnswers(hilbert, a, queries) = expected
        /\ SolveDistinctRangeQueries(a, queries) = [i \in DOMAIN queries |-> expected[i][1]]

\* How many other points each point dominates.
DominanceExact ==
    Solve3DPartialOrder(rep) =
        [i \in DOMAIN rep |->
            Cardinality({j \in DOMAIN rep \ {i} : \A k \in 1 .. 3 : rep[j][k] <= rep[i][k]})]
\* Updates of single leaves leave the tree that would be built from the leaves as they
\* are now.  The proof of a leaf convinces of its data and of no other; once the
\* leaf has changed, the old proof no longer convinces of the old data.
MerkleExact ==
    /\ rep = MerkleTree(content)
    /\ \A i \in DOMAIN content, d \in Allowed :
        LET proof == InclusionProof(rep, i)
        IN  /\ VerifyInclusion(MerkleRoot(rep), d, proof) = (d = content[i])
            /\ 2 ^ Len(proof) \in Len(content) .. 2 * Len(content) - 1
            /\ d # content[i] =>
                  ~VerifyInclusion(MerkleRoot(WithLeaf(rep, i, d)), content[i], proof)
=============================================================================
