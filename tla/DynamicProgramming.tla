------------------------- MODULE DynamicProgramming -------------------------
(***************************************************************************)
(* Tables filled in an order: dynamic_programming_foundations.cpp,         *)
(* dynamic_programming_intuition.cpp, knapsack_family.cpp,                 *)
(* longest_increasing_subsequence.cpp, interval_and_matrix_dp.cpp,         *)
(* bitmask_and_state_compression.cpp and tree_dp.cpp.  rep is the input of *)
(* a function.  A table that the code overwrites in place is folded over   *)
(* in the order of the loop; sets stand for masks.                         *)
(***************************************************************************)
EXTENDS Integers, SequencesExt, FiniteSetsExt

CONSTANTS Capacity    \* the largest capacity and target asked for

VARIABLES rep         \* the input of a function

INF == 1000000
Bigger(a, b) == IF a >= b THEN a ELSE b
\* The positions of a loop, upwards and downwards
UpTo(a, b) == [i \in 1 .. b - a + 1 |-> a + i - 1]
DownTo(a, b) == [i \in 1 .. a - b + 1 |-> a - i + 1]

Sums(f) == MapThenSumSet(LAMBDA i : f[i], DOMAIN f)

AnyArray(values, n) == rep' \in BoundedSeq(values, n)
-----------------------------------------------------------------------------
(* Sequences of numbers, one from the two before                            *)

\* A table from 0 up; the optimised forms keep the last two entries.
Tabulated(n) == FoldLeft(LAMBDA dp, i : Append(dp, dp[i] + dp[i - 1]), <<0, 1>>, UpTo(2, n))
FibonacciTab(n) == IF n <= 1 THEN n ELSE Last(Tabulated(n))

LastTwo(n, p) == FoldLeft(LAMBDA q, i : <<q[2], q[1] + q[2]>>, p, UpTo(2, n))
FibonacciOptimized(n) == IF n <= 1 THEN n ELSE LastTwo(n, <<0, 1>>)[2]
ClimbingStairs(n) == IF n <= 1 THEN 1 ELSE LastTwo(n, <<1, 1>>)[2]

\* An entry of the memo that is -1 is computed, the larger index first.
RECURSIVE Solve(_, _)
Solve(memo, x) ==
    IF memo[x] # -1 THEN memo
    ELSE LET m == Solve(Solve(memo, x - 1), x - 2)
         IN  [m EXCEPT ![x] = m[x - 1] + m[x - 2]]

FibonacciMemo(n) ==
    IF n <= 1 THEN n
    ELSE Solve([i \in 0 .. n |-> IF i <= 1 THEN i ELSE -1], n)[n]

\* The ways to write n as a sum of ones and twos, in order
Climbs(n) == {s \in BoundedSeq({1, 2}, n) : Sums(s) = n}

\* All forms agree, and count the ways up the stairs.
FibonacciExact ==
    /\ FibonacciTab(rep) = FibonacciMemo(rep) /\ FibonacciOptimized(rep) = FibonacciMemo(rep)
    /\ ClimbingStairs(rep) = Cardinality(Climbs(rep))
    /\ rep > 0 => FibonacciMemo(rep) = Cardinality(Climbs(rep - 1))
-----------------------------------------------------------------------------
(* Grids; rep is the cost of each cell                                      *)

AnyGrid(rows, columns, costs) ==
    \E r \in 1 .. rows, c \in 1 .. columns : rep' \in [1 .. r -> [1 .. c -> costs]]

Rows == Len(rep)
Columns == Len(rep[1])
Cell == (1 .. Rows) \X (1 .. Columns)
RowByRow == [k \in 1 .. Rows * Columns |-> <<((k - 1) \div Columns) + 1, ((k - 1) % Columns) + 1>>]
Up(c) == <<c[1] - 1, c[2]>>
Left(c) == <<c[1], c[2] - 1>>

CountGridPaths ==
    FoldLeft(LAMBDA dp, c :
                 [dp EXCEPT ![c] = @ + (IF c[1] > 1 THEN dp[Up(c)] ELSE 0)
                                     + (IF c[2] > 1 THEN dp[Left(c)] ELSE 0)],
             [c \in Cell |-> IF c = <<1, 1>> THEN 1 ELSE 0], RowByRow)[<<Rows, Columns>>]

\* One row, which every row overwrites from left to right
CountGridPathsOptimized ==
    FoldLeft(LAMBDA dp, i : FoldLeft(LAMBDA d, j : [d EXCEPT ![j] = @ + d[j - 1]],
                                     dp, UpTo(2, Columns)),
             [j \in 1 .. Columns |-> 1], UpTo(2, Rows))[Columns]

\* min_path_sum(), and reconstruct_min_path() with the cell that it came from,
\* which is the upper one if they are equal
CheapestPaths ==
    FoldLeft(LAMBDA dp, c :
                 LET up == IF c[1] > 1 THEN dp[Up(c)].cost ELSE INF
                     left == IF c[2] > 1 THEN dp[Left(c)].cost ELSE INF
                 IN  IF c = <<1, 1>> THEN [dp EXCEPT ![c] = [cost |-> rep[1][1], path |-> <<c>>]]
                     ELSE [dp EXCEPT ![c] =
                              IF up <= left
                              THEN [cost |-> up + rep[c[1]][c[2]], path |-> Append(dp[Up(c)].path, c)]
                              ELSE [cost |-> left + rep[c[1]][c[2]],
                                    path |-> Append(dp[Left(c)].path, c)]],
             [c \in Cell |-> [cost |-> INF, path |-> << >>]], RowByRow)[<<Rows, Columns>>]

\* The paths to a cell that go right and down, by definition
RECURSIVE PathsTo(_)
PathsTo(c) ==
    IF c = <<1, 1>> THEN {<<c>>}
    ELSE {Append(p, c) : p \in UNION {PathsTo(b) : b \in {Up(c), Left(c)} \cap Cell}}

PathCost(p) == Sums([i \in DOMAIN p |-> rep[p[i][1]][p[i][2]]])

\* Paths are counted, and the cheapest found with its cells.
GridPathsExact ==
    LET paths == PathsTo(<<Rows, Columns>>)
        best == CheapestPaths
    IN  /\ CountGridPaths = Cardinality(paths)
        /\ CountGridPathsOptimized = Cardinality(paths)
        /\ best.path \in paths /\ PathCost(best.path) = best.cost
        /\ \A p \in paths : best.cost <= PathCost(p)
-----------------------------------------------------------------------------
(* Knapsacks; rep is the items, each of a weight, a value and a number      *)

AnyItems(weights, values, numbers, n) == rep' \in BoundedSeq(weights \X values \X numbers, n)

Weight(i) == rep[i][1]
Worth(i) == rep[i][2]
Number(i) == rep[i][3]

\* Two dimensions: a row for every number of items; the rows are kept for the
\* reconstruction.
TableRows(items) ==
    FoldLeft(LAMBDA rows, it :
                 LET above == Last(rows)
                 IN  Append(rows, [c \in 0 .. Capacity |->
                        IF it[1] <= c THEN Bigger(above[c], above[c - it[1]] + it[2]) ELSE above[c]]),
             <<[c \in 0 .. Capacity |-> 0]>>, items)

Knapsack01(W) == Last(TableRows(rep))[W]

\* From the last row up: an item was taken if it made a difference.
Chosen(items, W) ==
    LET rows == TableRows(items)
        Step(S, i) == IF rows[i + 1][S.c] # rows[i][S.c]
                      THEN [taken |-> {i} \union S.taken, c |-> S.c - items[i][1]]
                      ELSE S
    IN  FoldLeft(Step, [taken |-> {}, c |-> W], DownTo(Len(items), 1)).taken

\* One row, downwards from W: an item is taken once.
Overwritten(dp, it, loop) ==
    FoldLeft(LAMBDA d, c : [d EXCEPT ![c] = Bigger(@, d[c - it[1]] + it[2])], dp, loop)

OneRow(items, W) ==
    FoldLeft(LAMBDA dp, it : Overwritten(dp, it, DownTo(W, it[1])),
             [c \in 0 .. W |-> 0], items)

Knapsack01OneRow(W) == OneRow(rep, W)[W]

\* Upwards: an item is taken again and again.
KnapsackUnbounded(W) ==
    FoldLeft(LAMBDA dp, it : Overwritten(dp, it, UpTo(it[1], W)),
             [c \in 0 .. W |-> 0], rep)[W]

\* The item that last improved each capacity; the bag is emptied along them.
Improvements(W) ==
    LET Item(S, i) ==
            FoldLeft(LAMBDA s, c : LET new == s.dp[c - Weight(i)] + Worth(i)
                                   IN  IF new > s.dp[c]
                                       THEN [dp |-> [s.dp EXCEPT ![c] = new],
                                             choice |-> [s.choice EXCEPT ![c] = i]]
                                       ELSE s,
                     S, UpTo(Weight(i), W))
    IN  FoldLeft(Item, [dp |-> [c \in 0 .. W |-> 0], choice |-> [c \in 0 .. W |-> 0]],
                 UpTo(1, Len(rep)))

RECURSIVE Emptied(_, _)
Emptied(choice, c) ==
    IF c = 0 \/ choice[c] = 0 THEN << >>
    ELSE Append(Emptied(choice, c - Weight(choice[c])), choice[c])

KnapsackUnboundedReconstruct(W) == Emptied(Improvements(W).choice, W)

\* A number of pieces is split into bundles of 1, 2, 4, ... and what is left.
RECURSIVE Bundles(_, _)
Bundles(k, power) ==
    IF power <= k THEN <<power>> \o Bundles(k - power, 2 * power)
    ELSE IF k > 0 THEN <<k>> ELSE << >>

\* Mutant: what is left over is forgotten.
RECURSIVE BundlesWithoutRest(_, _)
BundlesWithoutRest(k, power) ==
    IF power <= k THEN <<power>> \o BundlesWithoutRest(k - power, 2 * power) ELSE << >>

Expanded ==
    FoldLeft(LAMBDA s, i :
                 s \o [b \in DOMAIN Bundles(Number(i), 1) |->
                          LET m == Bundles(Number(i), 1)[b]
                          IN  <<Weight(i) * m, Worth(i) * m, i, m>>],
             << >>, UpTo(1, Len(rep)))

KnapsackBounded(W) == OneRow(Expanded, W)[W]

KnapsackBoundedReconstruct(W) ==
    LET taken == Chosen(Expanded, W)
    IN  [i \in DOMAIN rep |->
            MapThenSumSet(LAMBDA b : Expanded[b][4], {b \in taken : Expanded[b][3] = i})]

\* A capacity that no items fill exactly stays at minus infinity.
KnapsackExactFill(W) ==
    LET filled == FoldLeft(LAMBDA dp, it :
                      FoldLeft(LAMBDA d, c : IF d[c - it[1]] = -INF THEN d
                                             ELSE [d EXCEPT ![c] = Bigger(@, d[c - it[1]] + it[2])],
                               dp, DownTo(W, it[1])),
                      [c \in 0 .. W |-> IF c = 0 THEN 0 ELSE -INF], rep)[W]
    IN  IF filled >= 0 THEN filled ELSE -1

SubsetSumFeasible(target) ==
    FoldLeft(LAMBDA dp, it :
                 FoldLeft(LAMBDA d, s : IF d[s - it[1]] THEN [d EXCEPT ![s] = TRUE] ELSE d,
                          dp, DownTo(target, it[1])),
             [s \in 0 .. target |-> s = 0], rep)[target]

\* What a choice of so many pieces of each item weighs and is worth
Load(x) == Sums([i \in DOMAIN rep |-> x[i] * Weight(i)])
Profit(x) == Sums([i \in DOMAIN rep |-> x[i] * Worth(i)])
PackingsOf(most) == [DOMAIN rep -> 0 .. most]
Light(X, W) == {x \in X : Load(x) <= W}
MostOf(X) == Max({Profit(x) : x \in X})
AsChoice(s) == [i \in DOMAIN rep |-> Cardinality({k \in DOMAIN s : s[k] = i})]

\* Every form gives the best value of the choices it allows, and what it says it
\* has packed fits and has that value.
KnapsacksExact ==
    LET ones == PackingsOf(1)
        many == PackingsOf(Capacity)
        some == {x \in many : \A i \in DOMAIN rep : x[i] <= Number(i)}
    IN  \A W \in 0 .. Capacity :
            LET taken == [i \in DOMAIN rep |-> IF i \in Chosen(rep, W) THEN 1 ELSE 0]
                packed == AsChoice(KnapsackUnboundedReconstruct(W))
                used == KnapsackBoundedReconstruct(W)
                full == {x \in ones : Load(x) = W}
            IN  /\ Knapsack01(W) = MostOf(Light(ones, W))
                /\ Knapsack01OneRow(W) = Knapsack01(W)
                /\ Load(taken) <= W /\ Profit(taken) = Knapsack01(W)
                /\ KnapsackUnbounded(W) = MostOf(Light(many, W))
                /\ Load(packed) <= W /\ Profit(packed) = KnapsackUnbounded(W)
                /\ KnapsackBounded(W) = MostOf(Light(some, W))
                /\ used \in Light(some, W) /\ Profit(used) = KnapsackBounded(W)
                /\ KnapsackExactFill(W) = (IF full = {} THEN -1 ELSE MostOf(full))
                /\ SubsetSumFeasible(W) <=> full # {}
-----------------------------------------------------------------------------
(* Increasing subsequences of rep                                           *)

\* dp and parent; the longest that ends at each place, by the first that makes it
EndingAt ==
    FoldLeft(LAMBDA dp, i :
                 Append(dp, FoldLeft(LAMBDA e, j : IF rep[j] < rep[i] /\ dp[j].len + 1 > e.len
                                                   THEN [len |-> dp[j].len + 1, parent |-> j] ELSE e,
                                     [len |-> 1, parent |-> 0], UpTo(1, i - 1))),
             << >>, UpTo(1, Len(rep)))

RECURSIVE Followed(_, _)
Followed(parent, i) == IF i = 0 THEN << >> ELSE Append(Followed(parent, parent[i]), rep[i])

LisSequenceN2 ==
    LET dp == EndingAt
        end == CHOOSE i \in DOMAIN dp : /\ \A j \in DOMAIN dp : dp[j].len <= dp[i].len
                                        /\ \A j \in 1 .. i - 1 : dp[j].len < dp[i].len
    IN  IF rep = << >> THEN << >> ELSE Followed([i \in DOMAIN dp |-> dp[i].parent], end)

LowerBound(s, x) == Cardinality({i \in DOMAIN s : s[i] < x}) + 1
UpperBound(s, x) == Cardinality({i \in DOMAIN s : s[i] <= x}) + 1
Placed(s, p, x) == IF p > Len(s) THEN Append(s, x) ELSE [s EXCEPT ![p] = x]

LisLengthNlogn == Len(FoldLeft(LAMBDA t, x : Placed(t, LowerBound(t, x), x), << >>, rep))
LongestNonDecreasingLength ==
    Len(FoldLeft(LAMBDA t, x : Placed(t, UpperBound(t, x), x), << >>, rep))

\* The least last element of every length, where it is, and what came before
LisSequenceNlogn ==
    LET Step(S, i) ==
            LET p == LowerBound(S.values, rep[i])
            IN  [values |-> Placed(S.values, p, rep[i]), indices |-> Placed(S.indices, p, i),
                 parent |-> Append(S.parent, IF p > 1 THEN S.indices[p - 1] ELSE 0)]
        S == FoldLeft(Step, [values |-> << >>, indices |-> << >>, parent |-> << >>],
                      UpTo(1, Len(rep)))
    IN  IF rep = << >> THEN << >> ELSE Followed(S.parent, Last(S.indices))

\* The elements at a set of positions, in order
At(I) == LET p == SelectSeq(UpTo(1, Len(rep)), LAMBDA i : i \in I) IN [k \in DOMAIN p |-> rep[p[k]]]
Subsequences == {At(I) : I \in SUBSET DOMAIN rep}
Increasing(s) == \A i \in 2 .. Len(s) : s[i - 1] < s[i]
NonDecreasing(s) == \A i \in 2 .. Len(s) : s[i - 1] <= s[i]
LongestOf(S) == Max({Len(s) : s \in S})

\* The sequences returned are increasing, from the array, and none is longer.
IncreasingExact ==
    LET longest == LongestOf({s \in Subsequences : Increasing(s)})
    IN  /\ \A s \in {LisSequenceN2, LisSequenceNlogn} :
            s \in Subsequences /\ Increasing(s) /\ Len(s) = longest
        /\ LisLengthNlogn = longest
        /\ LongestNonDecreasingLength = LongestOf({s \in Subsequences : NonDecreasing(s)})
-----------------------------------------------------------------------------
(* Tables over intervals, filled by length                                  *)

\* An entry for every interval of 1 .. n: those longer than "least" come from
\* shorter ones by F.
ByLength(n, base, least, F(_, _, _)) ==
    FoldLeft(LAMBDA dp, gap : [p \in DOMAIN dp |->
                 IF p[2] - p[1] = gap THEN F(dp, p[1], p[2]) ELSE dp[p]],
             [p \in {q \in (1 .. n) \X (1 .. n) : q[1] <= q[2]} |-> base[p[1]]],
             UpTo(least, n - 1))

LeastIn(S) == Min(S \union {INF})
MostIn(S) == Max(S \union {0})

\* Products of matrices with dimensions rep: cost and, for its split, the first k
\* of those that cost least.  Matrix i is rep[i] by rep[i + 1].
MatrixChain ==
    LET n == Len(rep) - 1
        Entry(dp, i, j) ==
            LET cost(k) == dp[<<i, k>>].cost + dp[<<k + 1, j>>].cost
                           + rep[i] * rep[k + 1] * rep[j + 1]
                split == CHOOSE k \in i .. j - 1 :
                            /\ \A m \in i .. j - 1 : cost(k) <= cost(m)
                            /\ \A m \in i .. k - 1 : cost(k) < cost(m)
            IN  [cost |-> cost(split), split |-> split]
    IN  ByLength(n, [i \in 1 .. n |-> [cost |-> 0, split |-> 0]], 1, Entry)

MatrixChainCost == IF Len(rep) <= 2 THEN 0 ELSE MatrixChain[<<1, Len(rep) - 1>>].cost

\* What the parentheses cost: the products they stand for
RECURSIVE ParenthesesCost(_, _, _)
ParenthesesCost(T, i, j) ==
    IF i = j THEN 0
    ELSE LET k == T[<<i, j>>].split
         IN  ParenthesesCost(T, i, k) + ParenthesesCost(T, k + 1, j) + rep[i] * rep[k + 1] * rep[j + 1]

\* Search trees over keys with frequencies rep
OptimalBst ==
    LET n == Len(rep)
        Entry(dp, i, j) ==
            LeastIn({(IF r > i THEN dp[<<i, r - 1>>] ELSE 0) + (IF r < j THEN dp[<<r + 1, j>>] ELSE 0)
                     + Sums([k \in i .. j |-> rep[k]]) : r \in i .. j})
    IN  IF n = 0 THEN 0 ELSE ByLength(n, rep, 1, Entry)[<<1, n>>]

\* The roots tried lie between the best roots of the two intervals one shorter.
OptimalBstKnuth ==
    LET n == Len(rep)
        Entry(dp, i, j) ==
            LET cost(r) == (IF r > i THEN dp[<<i, r - 1>>].cost ELSE 0)
                           + (IF r < j THEN dp[<<r + 1, j>>].cost ELSE 0)
                           + Sums([k \in i .. j |-> rep[k]])
                tried == dp[<<i, j - 1>>].opt .. dp[<<i + 1, j>>].opt
                best == CHOOSE r \in tried : /\ \A m \in tried : cost(r) <= cost(m)
                                             /\ \A m \in tried : m < r => cost(r) < cost(m)
            IN  [cost |-> cost(best), opt |-> best]
    IN  IF n = 0 THEN 0
        ELSE ByLength(n, [i \in 1 .. n |-> [cost |-> rep[i], opt |-> i]], 1, Entry)[<<1, n>>].cost

\* Positions with a one at both ends; the balloon k bursts last in between.
BurstBalloons ==
    LET a == <<1>> \o rep \o <<1>>
        Entry(dp, i, j) ==
            MostIn({dp[<<i, k>>] + dp[<<k, j>>] + a[i] * a[k] * a[j] : k \in i + 1 .. j - 1})
    IN  IF rep = << >> THEN 0 ELSE ByLength(Len(a), [i \in DOMAIN a |-> 0], 2, Entry)[<<1, Len(a)>>]

\* Cuts at the positions of rep, in any order, through a stick
CuttingSticks(length) ==
    LET pos == <<0>> \o SortSeq(rep, <) \o <<length>>
        Entry(dp, i, j) ==
            LeastIn({dp[<<i, k>>] + dp[<<k, j>>] + pos[j] - pos[i] : k \in i + 1 .. j - 1})
    IN  IF rep = << >> THEN 0
        ELSE ByLength(Len(pos), [i \in DOMAIN pos |-> 0], 2, Entry)[<<1, Len(pos)>>]

PalindromeLengths ==
    LET Entry(dp, i, j) ==
            IF rep[i] = rep[j] THEN IF j = i + 1 THEN 2 ELSE dp[<<i + 1, j - 1>>] + 2
            ELSE Bigger(dp[<<i + 1, j>>], dp[<<i, j - 1>>])
    IN  ByLength(Len(rep), [i \in DOMAIN rep |-> 1], 1, Entry)

\* The halves of the palindrome, from the outside in; the left end gives way if
\* the two are equal.
RECURSIVE PalindromeOf(_, _, _)
PalindromeOf(dp, i, j) ==
    IF i > j THEN << >>
    ELSE IF i = j THEN <<rep[i]>>
    ELSE IF rep[i] = rep[j] THEN <<rep[i]>> \o PalindromeOf(dp, i + 1, j - 1) \o <<rep[j]>>
    ELSE IF dp[<<i + 1, j>>] >= dp[<<i, j - 1>>] THEN PalindromeOf(dp, i + 1, j)
    ELSE PalindromeOf(dp, i, j - 1)

LongestPalindromicSubsequence == PalindromeOf(PalindromeLengths, 1, Len(rep))

\* All ways to take away the inner elements one by one: what they cost in total
RECURSIVE Eliminations(_, _)
Eliminations(s, cost) ==
    IF Len(s) <= 2 THEN {0}
    ELSE UNION {{(IF cost = "product" THEN s[i - 1] * s[i] * s[i + 1] ELSE s[i + 1] - s[i - 1]) + c
                    : c \in Eliminations(RemoveAt(s, i), cost)} : i \in 2 .. Len(s) - 1}

\* The costs of all search trees over the keys i .. j, the root at a depth
RECURSIVE TreeCosts(_, _, _)
TreeCosts(i, j, depth) ==
    IF i > j THEN {0}
    ELSE UNION {{rep[r] * depth + l + h : l \in TreeCosts(i, r - 1, depth + 1),
                                          h \in TreeCosts(r + 1, j, depth + 1)} : r \in i .. j}

\* The best of all orders of products, of bursts and of cuts, of all search trees,
\* with Knuth's bounds on the roots too, and of all palindromic subsequences.
IntervalsExact(length) ==
    /\ Len(rep) >= 2 => /\ MatrixChainCost = Min(Eliminations(rep, "product"))
                        /\ ParenthesesCost(MatrixChain, 1, Len(rep) - 1) = MatrixChainCost
    /\ OptimalBst = Min(TreeCosts(1, Len(rep), 1))
    /\ OptimalBstKnuth = OptimalBst
    /\ BurstBalloons = Max(Eliminations(<<1>> \o rep \o <<1>>, "product"))
    /\ CuttingSticks(length) = Min(Eliminations(<<0>> \o SortSeq(rep, <) \o <<length>>, "span"))
    /\ LET palindromes == {s \in Subsequences : s = Reverse(s)}
           p == LongestPalindromicSubsequence
       IN  p \in palindromes /\ Len(p) = LongestOf(palindromes)
-----------------------------------------------------------------------------
(* Tables over sets; rep is a matrix of distances, or of costs              *)

AnyMatrix(n, costs) == rep' \in [1 .. n -> [1 .. n -> costs]]
City == DOMAIN rep

\* Subsets from the empty one: a larger set is computed from those with one less.
BySize(F(_, _), empty) ==
    FoldLeft(LAMBDA dp, k : [S \in SUBSET City |-> IF Cardinality(S) = k THEN F(dp, S) ELSE dp[S]],
             [S \in SUBSET City |-> empty], UpTo(1, Len(rep)))

\* dp and parent for paths from city 1 through S to v; the first of the cheapest
HeldKarp ==
    LET Entry(dp, S) ==
            [v \in City |->
                LET cost(u) == dp[S \ {v}][u].cost + rep[u][v]
                    from == {u \in S \ {v} : dp[S \ {v}][u].cost # INF}
                    best == CHOOSE u \in from : \A w \in from :
                                cost(u) < cost(w) \/ (cost(u) = cost(w) /\ u <= w)
                IN  IF S = {1} /\ v = 1 THEN [cost |-> 0, parent |-> 0]
                    ELSE IF v \notin S \/ from = {} THEN [cost |-> INF, parent |-> 0]
                    ELSE [cost |-> cost(best), parent |-> best]]
    IN  BySize(Entry, [v \in City |-> [cost |-> INF, parent |-> 0]])

RECURSIVE RouteTo(_, _, _)
RouteTo(dp, S, v) ==
    IF v = 0 THEN << >> ELSE Append(RouteTo(dp, S \ {v}, dp[S][v].parent), v)

\* The cheapest way back; the first of the last cities that give it
TourFrom(dp) ==
    LET ends == {u \in City \ {1} : dp[City][u].cost # INF}
        cost(u) == dp[City][u].cost + rep[u][1]
        last == CHOOSE u \in ends : \A w \in ends : cost(u) < cost(w) \/ (cost(u) = cost(w) /\ u <= w)
    IN  [cost |-> cost(last), route |-> Append(RouteTo(dp, City, last), 1)]
TspHeldKarp ==
    IF Len(rep) = 1 THEN [cost |-> 0, route |-> <<1, 1>>] ELSE TourFrom(HeldKarp)

\* Workers in order, each given a task that is free; the task of the last worker
\* of the cheapest way to give away S, the first found
AssignmentDp ==
    LET Entry(dp, S) ==
            LET cost(t) == dp[S \ {t}].cost + rep[Cardinality(S)][t]
                \* smaller masks come first: leaving out a larger task
                best == CHOOSE t \in S : \A u \in S : cost(t) < cost(u) \/ (cost(t) = cost(u) /\ t >= u)
            IN  [cost |-> cost(best), tasks |-> Append(dp[S \ {best}].tasks, best)]
    IN  BySize(Entry, [cost |-> 0, tasks |-> << >>])[City]

\* The least number of valid subsets that a set is split into
MinSubsetsPartition(valid) ==
    LET Entry(dp, S) ==
            LeastIn({dp[S \ P] + 1 : P \in {P \in SUBSET S : P # {} /\ P \in valid /\ dp[S \ P] # INF}})
        most == BySize(Entry, 0)[City]
    IN  IF most = INF THEN -1 ELSE most

\* Sums over subsets, one element after the other
SosDpSum(f) ==
    FoldLeft(LAMBDA g, b : [S \in DOMAIN g |-> IF b \in S THEN g[S] + g[S \ {b}] ELSE g[S]],
             f, UpTo(1, Len(rep)))

Orders == {p \in [City -> City] : \A i, j \in City : i # j => p[i] # p[j]}
TourCost(p) == Sums([i \in 1 .. Len(p) - 1 |-> rep[p[i]][p[i + 1]]])
TaskCost(p) == Sums([i \in City |-> rep[i][p[i]]])

CheapestTour(tour) ==
    LET tours == {p \in Orders : p[1] = 1}
    IN  /\ Front(tour.route) \in tours /\ Last(tour.route) = 1
        /\ TourCost(tour.route) = tour.cost
        /\ \A p \in tours : tour.cost <= TourCost(Append(p, 1))
CheapestPlan(plan) ==
    /\ plan.tasks \in Orders /\ TaskCost(plan.tasks) = plan.cost
    /\ \A p \in Orders : plan.cost <= TaskCost(p)

\* The tour and the assignment have the cost that is returned, and no other order
\* of the cities or tasks is cheaper.
PermutationsExact ==
    (Len(rep) > 1 => CheapestTour(TspHeldKarp)) /\ CheapestPlan(AssignmentDp)

\* The partitions of a set into valid subsets, by definition
Partitions(valid) ==
    {P \in SUBSET valid : UNION P = City /\ \A A, B \in P : A = B \/ A \cap B = {}}

\* For every family of valid subsets of as many elements as rep has: the fewest of
\* them that make up the whole, and the sums over the subsets of every set.
SubsetsExact ==
    \A valid \in SUBSET (SUBSET City \ {{}}) :
        LET f == [S \in SUBSET City |-> IF S \in valid THEN Cardinality(S) ELSE 1]
        IN  /\ MinSubsetsPartition(valid) =
                  (IF Partitions(valid) = {} THEN -1
                   ELSE Min({Cardinality(P) : P \in Partitions(valid)}))
            /\ \A S \in SUBSET City : SosDpSum(f)[S] = MapThenSumSet(LAMBDA P : f[P], SUBSET S)
-----------------------------------------------------------------------------
(* Trees; rep[v] is the vertex that v was joined to, weights are the numbers *)
(* of the vertices modulo 3                                                  *)

AnyTree(n) == \E m \in 1 .. n : rep' \in {p \in [1 .. m -> 1 .. n] : p[1] = 1 /\ \A v \in 2 .. m : p[v] < v}

Vertex == DOMAIN rep
Adjacent(u) == (IF u = 1 THEN {} ELSE {rep[u]}) \union {v \in Vertex \ {1} : rep[v] = u}
ChildList(u, parent) == SelectSeq(UpTo(1, Len(rep)), LAMBDA v : v \in Adjacent(u) /\ v # parent)
VertexWeight(u) == ((u * u) % 5) + 1

\* The functions that visit the children are folds over what they return.
RECURSIVE SubtreeSize(_, _), HeightFrom(_, _), WithAndWithout(_, _), Down(_, _)
SubtreeSize(u, parent) ==
    FoldLeft(LAMBDA n, v : n + SubtreeSize(v, u), 1, ChildList(u, parent))
HeightFrom(u, parent) ==
    FoldLeft(LAMBDA h, v : Bigger(h, HeightFrom(v, u) + 1), 0, ChildList(u, parent))

\* The best weights without u and with u
WithAndWithout(u, parent) ==
    FoldLeft(LAMBDA b, v : LET c == WithAndWithout(v, u)
                           IN  <<b[1] + Bigger(c[1], c[2]), b[2] + c[1]>>,
             <<0, VertexWeight(u)>>, ChildList(u, parent))

\* Mutant: a vertex is taken although its parent was.
RECURSIVE TakenBesideParent(_, _, _)
TakenBesideParent(u, parent, parentTaken) ==
    LET best == WithAndWithout(u, parent)
        take == best[2] >= best[1]
    IN  FoldLeft(LAMBDA S, v : S \union TakenBesideParent(v, u, take),
                 IF take THEN {u} ELSE {}, ChildList(u, parent))

RECURSIVE Taken(_, _, _)
Taken(u, parent, parentTaken) ==
    LET best == WithAndWithout(u, parent)
        take == ~parentTaken /\ best[2] >= best[1]
    IN  FoldLeft(LAMBDA S, v : S \union Taken(v, u, take),
                 IF take THEN {u} ELSE {}, ChildList(u, parent))

MaximumWeightIndependentSet(root) ==
    [weight |-> Bigger(WithAndWithout(root, 0)[1], WithAndWithout(root, 0)[2]),
     chosen |-> Taken(root, 0, FALSE)]

\* The longest path down from u, and the longest path seen so far: the two longest
\* branches of a vertex make one, which has to be longer to be kept
RECURSIVE Branches(_, _, _)
Branches(u, parent, longest) ==
    LET Step(S, v) ==
            LET B == Branches(v, u, S.longest)
                d == B.down
            IN  IF Len(d) > Len(S.first) THEN [first |-> d, second |-> S.first, longest |-> B.longest]
                ELSE IF Len(d) > Len(S.second) THEN [S EXCEPT !.second = d, !.longest = B.longest]
                ELSE [S EXCEPT !.longest = B.longest]
        S == FoldLeft(Step, [first |-> << >>, second |-> << >>, longest |-> longest],
                      ChildList(u, parent))
        bent == Reverse(S.first) \o <<u>> \o S.second
    IN  [down |-> <<u>> \o S.first,
         longest |-> IF Len(bent) > Len(S.longest) THEN bent ELSE S.longest]

TreeDiameterPath(root) ==
    IF Len(rep) = 1 THEN <<1>> ELSE Branches(root, 0, << >>).longest
TreeDiameter(root) == Len(TreeDiameterPath(root)) - 1

TreeCenters ==
    LET path == TreeDiameterPath(1)
        middle == Len(path) \div 2
    IN  IF Len(path) % 2 = 1 THEN {path[middle + 1]} ELSE {path[middle], path[middle + 1]}

\* Rerooting: one step to v brings its subtree nearer and the rest farther
Down(u, parent) ==
    FoldLeft(LAMBDA n, v : n + Down(v, u) + SubtreeSize(v, u), 0, ChildList(u, parent))

RECURSIVE Rerooted(_, _, _)
Rerooted(ans, u, parent) ==
    FoldLeft(LAMBDA a, v :
                 LET size == SubtreeSize(v, u)
                 IN  Rerooted([a EXCEPT ![v] = a[u] - size + (Len(rep) - size)], v, u),
             ans, ChildList(u, parent))

SumOfDistances(root) == Rerooted([v \in Vertex |-> Down(root, 0)], root, 0)

\* Distances, by the vertices within so many steps
RECURSIVE Within(_, _)
Within(u, k) == IF k = 0 THEN {u} ELSE LET B == Within(u, k - 1) IN B \union UNION {Adjacent(v) : v \in B}
Distance(u, v) == Min({k \in 0 .. Len(rep) : v \in Within(u, k)})

\* From whichever root: sizes, heights, the heaviest independent set, a longest
\* path, the centres and the sums of distances.
TreesExact ==
    LET dist == [u \in Vertex |-> [v \in Vertex |-> Distance(u, v)]]
        far(u) == Max({dist[u][v] : v \in Vertex})
        independent == {S \in SUBSET Vertex : \A u, v \in S : v \notin Adjacent(u)}
        heaviest == Max({MapThenSumSet(VertexWeight, S) : S \in independent})
    IN  /\ \A root \in Vertex :
            LET path == TreeDiameterPath(root)
                best == MaximumWeightIndependentSet(root)
            IN  /\ SubtreeSize(root, 0) = Len(rep) /\ HeightFrom(root, 0) = far(root)
                /\ \A v \in Adjacent(root) :
                        SubtreeSize(v, root) = Cardinality({w \in Vertex : dist[v][w] < dist[root][w]})
                /\ best.weight = heaviest /\ best.chosen \in independent
                /\ MapThenSumSet(VertexWeight, best.chosen) = heaviest
                /\ TreeDiameter(root) = Max({far(v) : v \in Vertex})
                /\ Cardinality(ToSet(path)) = Len(path)
                /\ \A i \in 2 .. Len(path) : path[i] \in Adjacent(path[i - 1])
                /\ SumOfDistances(root) = [u \in Vertex |-> Sums(dist[u])]
        /\ TreeCenters = {u \in Vertex : \A v \in Vertex : far(u) <= far(v)}
=============================================================================
