------------------------------ MODULE Paradigms ------------------------------
(***************************************************************************)
(* Greedy choice, exchange, search with pruning, search on the answer and   *)
(* division: greedy_algorithms.cpp, interval_scheduling.cpp,               *)
(* exchange_arguments.cpp, meet_in_the_middle.cpp, branch_and_bound.cpp,   *)
(* recursion_and_backtracking.cpp, binary_search_on_answer.cpp,            *)
(* divide_and_conquer.cpp and loop_invariants.cpp.  rep is the input of a  *)
(* function; loops over sorted copies are folds over SortSeq.              *)
(***************************************************************************)
EXTENDS Integers, SequencesExt, FiniteSetsExt

CONSTANTS Bound,      \* the largest capacity, target or time asked for
          HalfBits,   \* bits of half a machine word (16 in the code)
          Radix       \* of the numbers written as digits (10 in the code)

VARIABLES rep         \* the input of a function

Most(a, b) == IF a >= b THEN a ELSE b
Fewest(a, b) == IF a <= b THEN a ELSE b
Greatest(S) == IF S = {} THEN 0 ELSE Max(S)
Sum(s) == FoldLeft(LAMBDA n, a : n + a, 0, s)
Order(s) == SortSeq(s, LAMBDA a, b : a < b)

\* The elements at a set of positions, in order
Chosen(s, S) == FoldLeft(LAMBDA t, i : IF i \in S THEN Append(t, s[i]) ELSE t,
                         << >>, [i \in 1 .. Len(s) |-> i])

AnyArray(values, n) == rep' \in BoundedSeq(values, n)
AnyNonempty(values, n) == rep' \in BoundedSeq(values, n) \ {<< >>}
\* Items, or jobs: two numbers each
AnyPairs(first, second, n) == rep' \in BoundedSeq(first \X second, n)
\* Intervals are never empty and start at 0 or later.
AnyIntervals(n, w) ==
    rep' \in BoundedSeq({a \in (0 .. Bound) \X (0 .. Bound) \X (1 .. w) : a[1] < a[2]}, n)
-----------------------------------------------------------------------------
(* Intervals <<start, end, weight>>                                          *)

ByEnd(s) == SortSeq(s, LAMBDA a, b : a[2] < b[2] \/ (a[2] = b[2] /\ a[1] < b[1]))
ByStart(s) == SortSeq(s, LAMBDA a, b : a[1] < b[1] \/ (a[1] = b[1] /\ a[2] < b[2]))

Apart(a, b) == a[2] <= b[1] \/ b[2] <= a[1]
Compatible(s) == \A i, j \in DOMAIN s : i # j => Apart(s[i], s[j])

\* Whatever ends first and starts after the last one chosen
Scheduled(s) ==
    FoldLeft(LAMBDA c, a : IF a[1] < c.finish THEN c
                           ELSE [chosen |-> Append(c.chosen, a), finish |-> a[2]],
             [chosen |-> << >>, finish |-> -1], ByEnd(s)).chosen

\* The subsets by their masks; neighbours by start are compared
BruteForce(s) ==
    Greatest({Cardinality(S) : S \in
                {S \in SUBSET DOMAIN s :
                    LET t == ByStart(Chosen(s, S))
                    IN \A i \in 2 .. Len(t) : t[i][1] >= t[i - 1][2]}})

\* Meetings that end by a start leave their rooms first.
RoomsByHeap(s) ==
    FoldLeft(LAMBDA c, a :
                LET ends == Append(SelectSeq(c.ends, LAMBDA e : e > a[1]), a[2])
                IN [ends |-> ends, peak |-> Most(c.peak, Len(ends))],
             [ends |-> << >>, peak |-> 0], ByStart(s)).peak

\* An end precedes a start at the same time.
Events(s) == SortSeq(FoldLeft(LAMBDA t, a : t \o <<<<a[1], 1>>, <<a[2], -1>>>>, << >>, s),
                     LAMBDA a, b : a[1] < b[1] \/ (a[1] = b[1] /\ a[2] < b[2]))
RoomsBySweep(s) ==
    FoldLeft(LAMBDA c, e : <<c[1] + e[2], Most(c[2], c[1] + e[2])>>, <<0, 0>>, Events(s))[2]

\* Entry 1 of ends is the sentinel 0: the predecessor is the last entry before i
\* that upper_bound finds not above the start
Predecessor(t, i) == Cardinality({j \in 1 .. i - 1 : t[j][2] <= t[i][1]})
Weights(t) ==
    FoldLeft(LAMBDA dp, i : Append(dp, Most(dp[i], t[i][3] + dp[Predecessor(t, i) + 1])),
             <<0>>, [i \in DOMAIN t |-> i])
WeightedSchedule(s) == Last(Weights(ByEnd(s)))

RECURSIVE WalkBack(_, _, _)
WalkBack(t, dp, i) ==
    IF i = 0 THEN << >>
    ELSE IF dp[i + 1] = dp[i] THEN WalkBack(t, dp, i - 1)
    ELSE Append(WalkBack(t, dp, Predecessor(t, i)), t[i])
WeightedReconstruct(s) == LET t == ByEnd(s) IN WalkBack(t, Weights(t), Len(t))

Merged(s) ==
    FoldLeft(LAMBDA m, a :
                IF m = << >> \/ a[1] > Last(m)[2] THEN Append(m, <<a[1], a[2]>>)
                ELSE Append(Front(m), <<Last(m)[1], Most(Last(m)[2], a[2])>>),
             << >>, ByStart(s))

\* The new interval absorbs whatever it meets, growing as it does.
RECURSIVE Absorbed(_, _)
Absorbed(s, a) ==
    IF s # << >> /\ s[1][1] <= a[2]
    THEN Absorbed(Tail(s), <<Fewest(a[1], s[1][1]), Most(a[2], s[1][2])>>)
    ELSE <<a>> \o s
RECURSIVE Inserted(_, _)
Inserted(s, a) ==
    IF s # << >> /\ s[1][2] < a[1] THEN <<s[1]>> \o Inserted(Tail(s), a) ELSE Absorbed(s, a)

\* The points of a union, at half units
Covered(s) == {x \in 0 .. 2 * Bound : \E i \in DOMAIN s : 2 * s[i][1] <= x /\ x <= 2 * s[i][2]}
Separate(s) == \A i \in 2 .. Len(s) : s[i - 1][2] < s[i][1]

\* No choice of intervals that do not overlap is longer than the one made by
\* earliest end, or heavier than the one made by the table; as many rooms as
\* meetings at one time; merging and inserting cover what the intervals cover.
IntervalsScheduled ==
    LET choices == {S \in SUBSET DOMAIN rep : Compatible(Chosen(rep, S))}
        best == Max({Cardinality(S) : S \in choices})
        weight(t) == FoldLeft(LAMBDA n, a : n + a[3], 0, t)
        heaviest == Max({weight(Chosen(rep, S)) : S \in choices})
        rooms == Max({Cardinality({i \in DOMAIN rep : rep[i][1] <= t /\ t < rep[i][2]}) :
                        t \in 0 .. Bound})
    IN /\ LET t == Scheduled(rep)
          IN Compatible(t) /\ Len(t) = best /\ Range(t) \subseteq Range(rep)
       /\ BruteForce(rep) = best
       /\ RoomsByHeap(rep) = rooms /\ RoomsBySweep(rep) = rooms
       /\ WeightedSchedule(rep) = heaviest
       /\ LET t == WeightedReconstruct(rep)
          IN Compatible(t) /\ weight(t) = heaviest /\ Range(t) \subseteq Range(rep)
       /\ Separate(Merged(rep)) /\ Covered(Merged(rep)) = Covered(rep)
       /\ rep # << >> =>
              LET m == Merged(Front(rep))  t == Inserted(m, <<Last(rep)[1], Last(rep)[2]>>)
              IN Separate(t) /\ Covered(t) = Covered(rep)
-----------------------------------------------------------------------------
(* Jobs <<duration, deadline>> and items <<value, weight>>                   *)

Lateness(s) ==
    FoldLeft(LAMBDA c, j : <<c[1] + j[1], Most(c[2], c[1] + j[1] - j[2])>>, <<0, 0>>, s)[2]
EarliestDeadline(s) == Lateness(SortSeq(s, LAMBDA a, b : a[2] < b[2]))
Orders(s) == {[i \in DOMAIN s |-> s[p[i]]] : p \in Permutations(DOMAIN s)}
LatenessBruteForce(s) == Min({Lateness(t) : t \in Orders(s)})

\* No order of the jobs is less late than that of the deadlines.
LatenessLeast == EarliestDeadline(rep) = LatenessBruteForce(rep)

\* A common multiple of the weights, which makes fractions whole
Unit(s) == FoldLeft(LAMBDA n, a : IF a[2] = 0 THEN n ELSE n * a[2], 1, s)
Filled(s, capacity, unit) ==
    FoldLeft(LAMBDA c, a :
                IF c.room <= 0 THEN c
                ELSE IF a[2] <= c.room THEN [room |-> c.room - a[2], total |-> c.total + unit * a[1]]
                ELSE [room |-> 0, total |-> c.total + (unit \div a[2]) * a[1] * c.room],
             [room |-> capacity, total |-> 0], s).total
ByDensity(s) == SortSeq(s, LAMBDA a, b : a[1] * b[2] > b[1] * a[2])
FractionalKnapsack(s, capacity) == Filled(ByDensity(s), capacity, Unit(s))

\* What can still be gained: whole items by density, a fraction of the next.  A
\* full node gets 0: its value has been counted.
NodeBound(s, node, capacity) ==
    IF node.weight >= capacity THEN 0
    ELSE Unit(s) * node.value
             + Filled(SubSeq(s, node.level + 1, Len(s)), capacity - node.weight, Unit(s))

\* Each item that still fits
FirstIncumbent(s, capacity) ==
    FoldLeft(LAMBDA c, a : IF c[1] + a[2] <= capacity THEN <<c[1] + a[2], c[2] + a[1]>> ELSE c,
             <<0, 0>>, s)[2]

RECURSIVE Explored(_, _, _, _)
Explored(s, capacity, queue, incumbent) ==
    IF queue = {} THEN incumbent
    ELSE LET top == CHOOSE q \in queue :
                        \A p \in queue : NodeBound(s, p, capacity) <= NodeBound(s, q, capacity)
             rest == queue \ {top}
             item == s[top.level + 1]
             with == [level |-> top.level + 1, value |-> top.value + item[1],
                      weight |-> top.weight + item[2]]
             without == [top EXCEPT !.level = @ + 1]
             fits == with.weight <= capacity
             best == IF fits THEN Most(incumbent, with.value) ELSE incumbent
             worth(node) == NodeBound(s, node, capacity) > Unit(s) * best
         IN IF NodeBound(s, top, capacity) <= Unit(s) * incumbent \/ top.level = Len(s)
            THEN Explored(s, capacity, rest, incumbent)
            ELSE Explored(s, capacity,
                          rest \cup {node \in {without} \cup (IF fits THEN {with} ELSE {}) : worth(node)},
                          best)

Free(s) == SelectSeq(s, LAMBDA a : a[2] = 0)
Weighty(s, capacity) == SelectSeq(s, LAMBDA a : 0 < a[2] /\ a[2] <= capacity)
Values(s) == FoldLeft(LAMBDA n, a : n + a[1], 0, s)
Load(s) == FoldLeft(LAMBDA n, a : n + a[2], 0, s)

BranchAndBound(s, capacity) ==
    LET items == SelectSeq(Weighty(s, capacity), LAMBDA a : a[1] > 0)
        sorted == ByDensity(items)
        incumbent == FirstIncumbent(sorted, capacity)
        root == [level |-> 0, value |-> 0, weight |-> 0]
        start == IF NodeBound(sorted, root, capacity) > incumbent THEN {root} ELSE {}
    IN Values(Free(s)) + (IF Load(items) <= capacity THEN Values(items)
                          ELSE Explored(sorted, capacity, start, incumbent))

\* One row, the capacities from above
Row(dp, a, capacity) ==
    [w \in 0 .. capacity |-> IF w < a[2] THEN dp[w] ELSE Most(dp[w], dp[w - a[2]] + a[1])]
KnapsackOracle(s, capacity) ==
    FoldLeft(LAMBDA dp, a : Row(dp, a, capacity), [w \in 0 .. capacity |-> 0],
             Weighty(s, capacity))[capacity] + Values(Free(s))

\* Branch and bound finds the best subset although it prunes; no division of the
\* items is worth more than the one by density.
KnapsackBounded ==
    \A capacity \in 1 .. Bound :
        LET best == Max({Values(Chosen(rep, S)) :
                            S \in {S \in SUBSET DOMAIN rep : Load(Chosen(rep, S)) <= capacity}})
            heavy == SelectSeq(rep, LAMBDA a : a[2] > 0)
        IN /\ BranchAndBound(rep, capacity) = best
           /\ KnapsackOracle(rep, capacity) = best
           /\ FractionalKnapsack(heavy, capacity)
                  = Max({Filled(t, capacity, Unit(heavy)) : t \in Orders(heavy)})
-----------------------------------------------------------------------------
(* Codes and coins                                                           *)

\* Two trees of least frequency become one, until one is left; a single symbol
\* hangs below a root of its own.
RECURSIVE Joined(_)
Joined(trees) ==
    IF Len(trees) = 1 THEN trees[1]
    ELSE LET s == SortSeq(trees, LAMBDA a, b : a.freq < b.freq)
         IN Joined(<<[freq |-> s[1].freq + s[2].freq, symbol |-> 0, kids |-> <<s[1], s[2]>>]>>
                       \o SubSeq(s, 3, Len(s)))
Huffman(freqs) ==
    LET leaves == [i \in DOMAIN freqs |-> [freq |-> freqs[i], symbol |-> i, kids |-> << >>]]
    IN IF Len(leaves) = 1 THEN [freq |-> freqs[1], symbol |-> 0, kids |-> leaves] ELSE Joined(leaves)

\* The pairs <<symbol, code>>
RECURSIVE Codes(_, _)
Codes(node, prefix) ==
    IF node.kids = << >> THEN {<<node.symbol, prefix>>}
    ELSE UNION {Codes(node.kids[b], Append(prefix, b)) : b \in DOMAIN node.kids}

RECURSIVE LeastCost(_)
LeastCost(freqs) ==
    IF Len(freqs) <= 1 THEN 0
    ELSE Min({freqs[p[1]] + freqs[p[2]]
                  + LeastCost(Append(Chosen(freqs, DOMAIN freqs \ {p[1], p[2]}),
                                     freqs[p[1]] + freqs[p[2]])) :
                p \in {p \in (DOMAIN freqs) \X (DOMAIN freqs) : p[1] < p[2]}})

GreedyCoins(amount, coins) ==
    LET last == FoldLeft(LAMBDA c, coin : IF c[2] <= 0 THEN c
                                          ELSE <<c[1] + c[2] \div coin, c[2] % coin>>,
                         <<0, amount>>, coins)
    IN IF last[2] = 0 THEN last[1] ELSE -1

RECURSIVE FewestCoins(_, _)
FewestCoins(amount, coins) ==
    IF amount = 0 THEN 0
    ELSE Min({1 + FewestCoins(amount - c, coins) : c \in {c \in Range(coins) : c <= amount}})

\* The codes are those of all symbols, none begins another, and no way to join
\* trees gives a shorter text.
CodesShortest ==
    LET codes == Codes(Huffman(rep), << >>)
        cost == MapThenSumSet(LAMBDA c : rep[c[1]] * Len(c[2]), codes)
    IN /\ {c[1] : c \in codes} = DOMAIN rep /\ Cardinality(codes) = Len(rep)
       /\ \A c, d \in codes : c # d => ~IsPrefix(c[2], d[2])
       /\ cost = (IF Len(rep) = 1 THEN rep[1] ELSE LeastCost(rep))

\* Coins that divide one another, down to 1: the largest first are the fewest.
CoinsFewest == \A amount \in 0 .. Bound : GreedyCoins(amount, rep) = FewestCoins(amount, rep)
-----------------------------------------------------------------------------
(* Halves of a set that meet                                                 *)

SubsetSums(s) == {Sum(Chosen(s, S)) : S \in SUBSET DOMAIN s}
LeftHalf(s) == SubSeq(s, 1, Len(s) \div 2)
RightHalf(s) == SubSeq(s, Len(s) \div 2 + 1, Len(s))

SubsetSumExact(s, target) ==
    \E a \in SubsetSums(LeftHalf(s)) : target - a \in SubsetSums(RightHalf(s))

\* For each sum of the left half, the greatest of the right half that still fits
MaxSubsetSum(s, capacity) ==
    LET below(rem) == {b \in SubsetSums(RightHalf(s)) : b <= rem}
        totals == {a + Max(below(capacity - a)) :
                      a \in {a \in SubsetSums(LeftHalf(s)) : a <= capacity /\ below(capacity - a) # {}}}
    IN Greatest(totals \cup {0})

FourSumCount(A, B, C, D, target) ==
    LET ab == [n \in {A[i] + B[j] : i \in DOMAIN A, j \in DOMAIN B} |->
                  Cardinality({p \in (DOMAIN A) \X (DOMAIN B) : A[p[1]] + B[p[2]] = n})]
    IN MapThenSumSet(LAMBDA p : LET needed == target - (C[p[1]] + D[p[2]])
                                IN IF needed \in DOMAIN ab THEN ab[needed] ELSE 0,
                     (DOMAIN C) \X (DOMAIN D))

\* The halves find what all subsets and all quadruples hold.
HalvesMeet ==
    /\ \A target \in -Bound .. Bound :
           SubsetSumExact(rep, target) <=> target \in SubsetSums(rep)
    /\ LET s == [i \in DOMAIN rep |-> Most(rep[i], 0)]
       IN \A capacity \in 0 .. Bound :
              MaxSubsetSum(s, capacity) = Max({n \in SubsetSums(s) : n <= capacity})
    /\ \A target \in {0, 3} :
           LET C == Reverse(LeftHalf(rep))
               all == (DOMAIN rep) \X (DOMAIN rep) \X (DOMAIN C) \X (DOMAIN rep)
           IN FourSumCount(rep, rep, C, rep, target)
                  = Cardinality({q \in all : rep[q[1]] + rep[q[2]] + C[q[3]] + rep[q[4]] = target})
-----------------------------------------------------------------------------
(* Choose, explore, undo                                                     *)

\* The placements that extend one row by row; flags of columns and diagonals
RECURSIVE Queens(_, _, _, _, _)
Queens(n, row, cols, diag1, diag2) ==
    IF row = n THEN <<cols>>
    ELSE FoldLeft(LAMBDA found, c :
                     IF c \in Range(cols) \/ row + c \in diag1 \/ row - c + n - 1 \in diag2
                     THEN found
                     ELSE found \o Queens(n, row + 1, Append(cols, c), diag1 \cup {row + c},
                                          diag2 \cup {row - c + n - 1}),
                  << >>, [i \in 1 .. n |-> i - 1])
NQueens(n) == IF n <= 0 THEN << >> ELSE Queens(n, 0, << >>, {}, {})

RECURSIVE Subsets(_, _)
Subsets(s, current) ==
    IF s = << >> THEN <<current>>
    ELSE Subsets(Tail(s), current) \o Subsets(Tail(s), Append(current, s[1]))

\* The first of equal numbers stands for all of them at one level.
RECURSIVE UniqueSubsets(_, _)
UniqueSubsets(s, current) ==
    <<current>> \o
    FoldLeft(LAMBDA found, i :
                IF i > 1 /\ s[i] = s[i - 1] THEN found
                ELSE found \o UniqueSubsets(SubSeq(s, i + 1, Len(s)), Append(current, s[i])),
             << >>, [i \in DOMAIN s |-> i])

Swapped(s, i, j) == [s EXCEPT ![i] = s[j], ![j] = s[i]]
RECURSIVE Permuted(_, _)
Permuted(s, start) ==
    IF start > Len(s) THEN <<s>>
    ELSE FoldLeft(LAMBDA found, i : found \o Permuted(Swapped(s, start, i), start + 1),
                  << >>, [i \in 1 .. Len(s) - start + 1 |-> start + i - 1])

\* Candidates from the current one on, until one exceeds the rest
RECURSIVE Combinations(_, _, _)
Combinations(s, target, current) ==
    IF target = 0 THEN <<current>>
    ELSE IF s = << >> \/ s[1] > target THEN << >>
    ELSE Combinations(s, target - s[1], Append(current, s[1])) \o Combinations(Tail(s), target, current)

NoTwice(s) == \A i, j \in DOMAIN s : i # j => s[i] # s[j]

\* Each solution is found, once: placements of queens that do not attack, subsets
\* by position and by value, orders, and sums of candidates used again.
SearchesComplete ==
    /\ LET n == Len(rep)  sorted == Order(rep)
       IN /\ Len(Subsets(rep, << >>)) = 2 ^ n
          /\ Range(Subsets(rep, << >>)) = {Chosen(rep, S) : S \in SUBSET (1 .. n)}
          /\ NoTwice(UniqueSubsets(sorted, << >>))
          /\ Range(UniqueSubsets(sorted, << >>)) = {Chosen(sorted, S) : S \in SUBSET (1 .. n)}
          /\ Len(Permuted(rep, 1)) = Cardinality(Permutations(1 .. n))
          /\ Range(Permuted(rep, 1)) = Orders(rep)
    /\ NoTwice(rep) =>
           \A target \in 1 .. Bound :
               LET found == Combinations(Order(rep), target, << >>)
               IN /\ NoTwice(found)
                  /\ Range(found) = {s \in BoundedSeq(Range(rep), target) :
                                        Sum(s) = target /\ Order(s) = s}
QueensPlaced ==
    LET safe == {p \in Permutations(0 .. rep - 1) :
                    \A i, j \in 0 .. rep - 1 : i < j => p[j] - p[i] \notin {i - j, j - i}}
    IN /\ NoTwice(NQueens(rep))
       /\ Range(NQueens(rep)) = {[i \in 1 .. rep |-> p[i - 1]] : p \in safe}
-----------------------------------------------------------------------------
(* Search on the answer                                                      *)

\* The predicate is the set of values it holds for.
RECURSIVE FirstTrue(_, _, _)
FirstTrue(low, high, feasible) ==
    LET mid == low + (high - low) \div 2
    IN IF low >= high THEN low
       ELSE IF mid \in feasible THEN FirstTrue(low, mid, feasible) ELSE FirstTrue(mid + 1, high, feasible)

RECURSIVE LastTrue(_, _, _)
LastTrue(low, high, feasible) ==
    LET mid == low + (high - low + 1) \div 2
    IN IF low >= high THEN low
       ELSE IF mid \in feasible THEN LastTrue(mid, high, feasible) ELSE LastTrue(low, mid - 1, feasible)

PartsFor(s, cap) ==
    FoldLeft(LAMBDA c, a : IF c[2] + a <= cap THEN <<c[1], c[2] + a>> ELSE <<c[1] + 1, a>>,
             <<1, 0>>, s)[1]
SplitArray(s, k) ==
    IF s = << >> THEN 0
    ELSE FirstTrue(Max(Range(s)), Sum(s), {cap \in 0 .. Sum(s) : PartsFor(s, cap) <= k})

HoursAt(s, speed) == FoldLeft(LAMBDA n, p : n + (p + speed - 1) \div speed, 0, s)
EatingSpeed(s, hours) ==
    IF s = << >> THEN 0
    ELSE FirstTrue(1, Max(Range(s)), {k \in 1 .. Max(Range(s)) : HoursAt(s, k) <= hours})

CowsApart(s, dist) ==
    FoldLeft(LAMBDA c, p : IF p - c[2] >= dist THEN <<c[1] + 1, p>> ELSE c, <<1, s[1]>>, Tail(s))[1]
AggressiveCows(positions, k) ==
    IF Len(positions) < k THEN 0
    ELSE LET s == Order(positions)  far == Last(s) - s[1]
         IN LastTrue(0, far, {d \in 0 .. far : CowsApart(s, d) >= k})

\* The staircase from the lower left corner
RECURSIVE CountLessOrEqual(_, _, _, _)
CountLessOrEqual(m, target, row, col) ==
    IF row = 0 \/ col > Len(m) THEN 0
    ELSE IF m[row][col] <= target THEN row + CountLessOrEqual(m, target, row, col + 1)
    ELSE CountLessOrEqual(m, target, row - 1, col)
KthSmallest(m, k) ==
    LET n == Len(m)
    IN FirstTrue(m[1][1], m[n][n],
                 {v \in m[1][1] .. m[n][n] : CountLessOrEqual(m, v, n, 1) >= k})

\* The cuts of an array into at most k parts, by their last positions
Parts(s, k) == {S \in SUBSET (1 .. Len(s) - 1) : Cardinality(S) < k}
Largest(s, S) ==
    LET cuts == S \cup {Len(s)}
    IN Max({Sum(SubSeq(s, Greatest({c \in cuts : c < e}) + 1, e)) : e \in cuts})

LeastGap(s) == Min({s[i] - s[i - 1] : i \in 2 .. Len(s)})

\* The answer found by halving is the best of all divisions, speeds and choices.
AnswersBest ==
    \A k \in 1 .. Len(rep) :
        /\ SplitArray(rep, k) = Min({Largest(rep, S) : S \in Parts(rep, k)})
        /\ LET hours == Len(rep) + k - 1
           IN EatingSpeed(rep, hours) = Min({v \in 1 .. Max(Range(rep)) : HoursAt(rep, v) <= hours})
        /\ k >= 2 => AggressiveCows(rep, k) = Max({LeastGap(Chosen(Order(rep), S)) :
                                                      S \in kSubset(k, DOMAIN rep)})

\* The numbers of a sorted matrix by rank
MatrixRanksExact ==
    \A k \in 1 .. Len(rep) ^ 2 :
        KthSmallest(rep, k) = Order(FoldLeft(LAMBDA s, row : s \o row, << >>, rep))[k]
AnySortedMatrix(n, values) ==
    rep' \in {m \in [1 .. n -> [1 .. n -> values]] :
                \A i, j \in 1 .. n : /\ i < n => m[i][j] <= m[i + 1][j]
                                     /\ j < n => m[i][j] <= m[i][j + 1]}
-----------------------------------------------------------------------------
(* external_sorting.cpp, and the scan and the filter of                     *)
(* parallel_algorithm_basics.cpp                                            *)

\* Runs of M elements; the run whose next element is the least gives it up.
Runs(s, M) ==
    [r \in 1 .. (Len(s) + M - 1) \div M |->
        Order(SubSeq(s, (r - 1) * M + 1, Fewest(r * M, Len(s))))]
RECURSIVE KWayMerge(_, _)
KWayMerge(runs, output) ==
    LET left == {r \in DOMAIN runs : runs[r] # << >>}
        top == CHOOSE r \in left : \A q \in left : runs[r][1] <= runs[q][1]
    IN  IF left = {} THEN output
        ELSE KWayMerge([runs EXCEPT ![top] = Tail(@)], Append(output, runs[top][1]))
ExternalMergeSort(s, M) == IF Len(s) <= M THEN Order(s) ELSE KWayMerge(Runs(s, M), << >>)

\* The tree of the sums, its root at 1 and its leaves from m on
RECURSIVE PaddedTo(_, _)
PaddedTo(n, m) == IF m < n THEN PaddedTo(n, 2 * m) ELSE m

Upsweep(tree, m) ==
    FoldLeft(LAMBDA t, i : [t EXCEPT ![m - i] = t[2 * (m - i)] + t[2 * (m - i) + 1]],
             tree, [i \in 1 .. m - 1 |-> i])
Downsweep(tree, m) ==
    FoldLeft(LAMBDA t, i : [t EXCEPT ![2 * i] = t[i], ![2 * i + 1] = t[i] + t[2 * i]],
             [tree EXCEPT ![1] = 0], [i \in 1 .. m - 1 |-> i])
ExclusiveScan(s) ==
    LET m == PaddedTo(Len(s), 1)
        leaves == [i \in 0 .. 2 * m - 1 |-> IF i - m + 1 \in DOMAIN s THEN s[i - m + 1] ELSE 0]
        tree == Downsweep(Upsweep(leaves, m), m)
    IN  IF Len(s) <= 1 THEN [i \in DOMAIN s |-> 0]
        ELSE [i \in DOMAIN s |-> tree[m + i - 1]]

\* What "flags" marks goes to the place that the marks before it count.
ParallelFilter(s, flags) ==
    LET offsets == ExclusiveScan(flags)
        total == Last(offsets) + Last(flags)
    IN  IF s = << >> THEN << >>
        ELSE FoldLeft(LAMBDA out, i : IF flags[i] = 1 THEN [out EXCEPT ![offsets[i] + 1] = s[i]]
                                      ELSE out,
                      [i \in 1 .. total |-> 0], [i \in DOMAIN s |-> i])

\* Sorted runs of any length are merged into the sorted whole; the scan gives every
\* position the sum before it; the filter keeps what it is to keep, in order.
SweepsAndRunsExact ==
    /\ \A M \in 1 .. Len(rep) + 1 : ExternalMergeSort(rep, M) = Order(rep)
    /\ ExclusiveScan(rep) = [i \in DOMAIN rep |-> Sum(SubSeq(rep, 1, i - 1))]
    /\ \A x \in ToSet(rep) :
          ParallelFilter(rep, [i \in DOMAIN rep |-> IF rep[i] <= x THEN 1 ELSE 0]) =
              SelectSeq(rep, LAMBDA y : y <= x)
-----------------------------------------------------------------------------
(* Divide and conquer                                                        *)

\* Ties take the left one: the sort is stable.  Taking a right one passes all
\* that is left of the left half.
RECURSIVE MergedHalves(_, _)
MergedHalves(l, r) ==
    IF l = << >> THEN [sorted |-> r, inversions |-> 0]
    ELSE IF r = << >> THEN [sorted |-> l, inversions |-> 0]
    ELSE IF l[1] <= r[1]
         THEN LET m == MergedHalves(Tail(l), r) IN [m EXCEPT !.sorted = <<l[1]>> \o @]
    ELSE LET m == MergedHalves(l, Tail(r))
         IN [sorted |-> <<r[1]>> \o m.sorted, inversions |-> m.inversions + Len(l)]

RECURSIVE MergeSort(_)
MergeSort(s) ==
    IF Len(s) <= 1 THEN [sorted |-> s, inversions |-> 0]
    ELSE LET l == MergeSort(LeftHalf(s))  r == MergeSort(RightHalf(s))
             m == MergedHalves(l.sorted, r.sorted)
         IN [m EXCEPT !.inversions = @ + l.inversions + r.inversions]

RECURSIVE BinarySearch(_, _, _, _)
BinarySearch(s, target, low, high) ==
    LET mid == low + (high - low) \div 2
    IN IF low > high THEN 0
       ELSE IF s[mid] = target THEN mid
       ELSE IF s[mid] < target THEN BinarySearch(s, target, mid + 1, high)
       ELSE BinarySearch(s, target, low, mid - 1)

SuffixSums(s) == {Sum(SubSeq(s, i, Len(s))) : i \in DOMAIN s}
PrefixSums(s) == {Sum(SubSeq(s, 1, i)) : i \in DOMAIN s}
RECURSIVE MaxSubarray(_)
MaxSubarray(s) ==
    IF Len(s) = 1 THEN s[1]
    ELSE Max({MaxSubarray(LeftHalf(s)), MaxSubarray(RightHalf(s)),
              Max(SuffixSums(LeftHalf(s))) + Max(PrefixSums(RightHalf(s)))})
Kadane(s) ==
    FoldLeft(LAMBDA c, a : LET cur == Most(a, c[1] + a) IN <<cur, Most(c[2], cur)>>,
             <<s[1], s[1]>>, Tail(s))[2]

\* Lomuto's partition around the last element, then the side of rank k
RECURSIVE Quickselect(_, _)
Quickselect(s, k) ==
    LET pivot == Last(s)
        low == SelectSeq(Front(s), LAMBDA a : a <= pivot)
        high == SelectSeq(Front(s), LAMBDA a : a > pivot)
    IN IF Len(low) = k THEN pivot
       ELSE IF Len(low) > k THEN Quickselect(low, k) ELSE Quickselect(high, k - Len(low) - 1)

InsertionSort(s) ==
    FoldLeft(LAMBDA t, key : LET n == Cardinality({i \in DOMAIN t : t[i] <= key})
                             IN SubSeq(t, 1, n) \o <<key>> \o SubSeq(t, n + 1, Len(t)), << >>, s)

\* The lower side cannot do better with any partner that is left.
RECURSIVE WidestArea(_, _, _, _)
WidestArea(s, l, r, most) ==
    LET area == Most(most, (r - l) * Fewest(s[l], s[r]))
    IN IF l >= r THEN most
       ELSE IF s[l] < s[r] THEN WidestArea(s, l + 1, r, area) ELSE WidestArea(s, l, r - 1, area)
MaxArea(s) == IF Len(s) < 2 THEN 0 ELSE WidestArea(s, 1, Len(s), 0)

\* Sorting, counting inversions, ranks, sums and areas agree with their definitions.
DivisionsExact ==
    LET n == Len(rep)  sorted == Order(rep)
        sums == {Sum(SubSeq(rep, i, j)) : i, j \in 1 .. n}
    IN /\ MergeSort(rep).sorted = sorted /\ InsertionSort(rep) = sorted
       /\ MergeSort(rep).inversions = Cardinality({p \in (1 .. n) \X (1 .. n) :
                                                    p[1] < p[2] /\ rep[p[1]] > rep[p[2]]})
       /\ \A target \in -2 .. 3 :
              LET i == BinarySearch(sorted, target, 1, n)
              IN IF target \in Range(rep) THEN sorted[i] = target ELSE i = 0
       /\ n > 0 => LET spans == {p \in (1 .. n) \X (1 .. n) : p[1] <= p[2]}
                       best == Max({Sum(SubSeq(rep, p[1], p[2])) : p \in spans})
                   IN MaxSubarray(rep) = best /\ Kadane(rep) = best
       /\ \A k \in 0 .. n - 1 : Quickselect(rep, k) = sorted[k + 1]
       /\ LET s == [i \in DOMAIN rep |-> Most(rep[i], 0)]
          IN MaxArea(s) = Greatest({(q[2] - q[1]) * Fewest(s[q[1]], s[q[2]]) :
                                      q \in {q \in (1 .. n) \X (1 .. n) : q[1] < q[2]}})

\* Three products of halves instead of four
RECURSIVE KaratsubaWord(_, _)
KaratsubaWord(x, y) ==
    LET half == 2 ^ HalfBits
        z2 == KaratsubaWord(x \div half, y \div half)
        z0 == KaratsubaWord(x % half, y % half)
        z1 == (x \div half + (x % half)) * (y \div half + (y % half)) - z2 - z0
    IN IF x < half /\ y < half THEN x * y ELSE z2 * half * half + z1 * half + z0

\* Digits from the highest.  A sum has a digit more only for a carry; a
\* difference loses its leading zeros, but one.
Value(s) == FoldLeft(LAMBDA n, d : n * Radix + d, 0, s)
DigitAt(s, i) == IF i <= Len(s) THEN s[Len(s) - i + 1] ELSE 0
RECURSIVE AddStr(_, _, _, _)
AddStr(a, b, i, carry) ==
    LET sum == DigitAt(a, i) + DigitAt(b, i) + carry
    IN IF i > Most(Len(a), Len(b)) /\ carry = 0 THEN << >>
       ELSE Append(AddStr(a, b, i + 1, sum \div Radix), sum % Radix)
RECURSIVE Trimmed(_)
Trimmed(s) == IF Len(s) > 1 /\ s[1] = 0 THEN Trimmed(Tail(s)) ELSE s
RECURSIVE Differences(_, _, _, _)
Differences(a, b, i, borrow) ==
    LET diff == DigitAt(a, i) - borrow - DigitAt(b, i)
    IN IF i > Len(a) THEN << >>
       ELSE Append(Differences(a, b, i + 1, IF diff < 0 THEN 1 ELSE 0), diff % Radix)
SubStr(a, b) == Trimmed(Differences(a, b, 1, 0))
Zeros(n) == [i \in 1 .. n |-> 0]
RECURSIVE Digits(_)
Digits(n) == IF n < Radix THEN <<n>> ELSE Append(Digits(n \div Radix), n % Radix)

RECURSIVE KaratsubaDigits(_, _)
KaratsubaDigits(x, y) ==
    LET longest == Most(Len(x), Len(y))
        n == longest + (longest % 2)
        m == n \div 2
        a == Zeros(n - Len(x)) \o x
        b == Zeros(n - Len(y)) \o y
        ah == SubSeq(a, 1, m)  al == SubSeq(a, m + 1, n)
        bh == SubSeq(b, 1, m)  bl == SubSeq(b, m + 1, n)
        z2 == KaratsubaDigits(ah, bh)
        z0 == KaratsubaDigits(al, bl)
        z1 == SubStr(SubStr(KaratsubaDigits(AddStr(ah, al, 1, 0), AddStr(bh, bl, 1, 0)), z2), z0)
    IN IF Len(x) < 4 \/ Len(y) < 4 THEN Digits(Value(x) * Value(y))
       ELSE Trimmed(AddStr(AddStr(z2 \o Zeros(2 * m), z1 \o Zeros(m), 1, 0), z0, 1, 0))

\* The products are those of the numbers.
ProductsExact ==
    LET x == Value(rep[1])  y == Value(rep[2])
    IN /\ KaratsubaDigits(rep[1], rep[2]) = Digits(x * y)
       /\ x < 2 ^ (2 * HalfBits) /\ y < 2 ^ (2 * HalfBits) => KaratsubaWord(x, y) = x * y
AnyNumbers(n) == rep' \in [1 .. 2 -> [1 .. n -> 0 .. Radix - 1]]
-----------------------------------------------------------------------------
(* The fork and join of parallel_algorithm_basics.cpp: parallel_reduce() and *)
(* parallel_mergesort(), whose halves run at the same time.  rep holds the  *)
(* input, the array and the calls <<left, right>> that have begun, with     *)
(* their phase and what they returned.  The operation of the reduction is   *)
(* concatenation, which shows the order of the operands.                    *)

FJInit(values, n) ==
    \E s \in BoundedSeq(values, n), f \in {"reduce", "mergesort"}, t \in 0 .. 2 :
        rep = [given |-> s, data |-> s, function |-> f, threshold |-> t,
               call |-> <<0, Len(s)>> :> [phase |-> "called", result |-> << >>]]

Mid(c) == c[1] + (c[2] - c[1]) \div 2
Halves(c) == {<<c[1], Mid(c)>>, <<Mid(c), c[2]>>}
Segment(s, c) == SubSeq(s, c[1] + 1, c[2])
WithSegment(s, c, t) == [i \in DOMAIN s |-> IF c[1] < i /\ i <= c[2] THEN t[i - c[1]] ELSE s[i]]
Base(c) == c[2] - c[1] <= Most(1, rep.threshold)

Returned(c, data, calls, result) ==
    rep' = [rep EXCEPT !.data = data,
                       !.call = [d \in calls |-> IF d = c THEN [phase |-> "ended", result |-> result]
                                                 ELSE rep.call[d]]]

\* What is left below the threshold is done by the call itself.
Sequential(c) ==
    /\ rep.call[c].phase = "called" /\ Base(c)
    /\ IF rep.function = "reduce"
       THEN Returned(c, rep.data, DOMAIN rep.call, Segment(rep.data, c))
       ELSE Returned(c, WithSegment(rep.data, c, Order(Segment(rep.data, c))),
                     DOMAIN rep.call, << >>)

\* invoke(): the one half is a task of another thread, the other this thread's.
Fork(c) ==
    /\ rep.call[c].phase = "called" /\ ~Base(c)
    /\ rep' = [rep EXCEPT !.call =
                   [d \in DOMAIN rep.call \union Halves(c) |->
                       IF d = c THEN [phase |-> "forked", result |-> << >>]
                       ELSE IF d \in Halves(c) THEN [phase |-> "called", result |-> << >>]
                       ELSE rep.call[d]]]

\* After both the results are combined, or the halves merged.
Join(c) ==
    LET l == <<c[1], Mid(c)>>  r == <<Mid(c), c[2]>>
    IN  /\ rep.call[c].phase = "forked"
        /\ \A h \in Halves(c) : rep.call[h].phase = "ended"
        /\ IF rep.function = "reduce"
           THEN Returned(c, rep.data, DOMAIN rep.call \ Halves(c),
                         rep.call[l].result \o rep.call[r].result)
           ELSE Returned(c, WithSegment(rep.data, c,
                                MergedHalves(Segment(rep.data, l), Segment(rep.data, r)).sorted),
                         DOMAIN rep.call \ Halves(c), << >>)

FJNext == \E c \in DOMAIN rep.call : Sequential(c) \/ Fork(c) \/ Join(c)

\* Calls that may touch the array at the same time have nothing of it in common;
\* nothing gets lost in between; at the end the array is sorted, or all operands
\* have been combined in their order, however the tasks were scheduled.
TasksApart ==
    LET top == <<0, Len(rep.given)>>
        running == {c \in DOMAIN rep.call : rep.call[c].phase # "forked"}
    IN  /\ \A c, d \in running : c # d => c[2] <= d[1] \/ d[2] <= c[1]
        /\ Order(rep.data) = Order(rep.given)
        /\ rep.call[top].phase = "ended" =>
              IF rep.function = "reduce" THEN rep.call[top].result = rep.given /\ rep.data = rep.given
              ELSE rep.data = Order(rep.given)
-----------------------------------------------------------------------------
(* bidirectional_bfs(): two searches, from the start and from the target,    *)
(* take turns by the lengths of their queues and stop at the first vertex    *)
(* that both have seen.  A step is a vertex taken off a queue.               *)

CONSTANTS N,          \* vertices 0 .. N - 1
          Edges,      \* a sequence of pairs: the edges in the order they are given
          Optional,   \* the positions of the edges a graph may lack
          Start, Target

\* The edges of a run
EightEdges == <<<<2, 6>>, <<1, 4>>, <<3, 7>>, <<0, 2>>, <<5, 7>>, <<3, 4>>, <<2, 5>>, <<0, 1>>>>

\* rep is the edges, the distances and the queue of each side, and the answer.
bsVars == <<rep>>

Sides == {"start", "target"}
Opposite(side) == IF side = "start" THEN "target" ELSE "start"
Root(side) == IF side = "start" THEN Start ELSE Target
Unseen == -1
Searching == -2

\* The neighbours in the order the edges were added, both ways
Neighbours(edges, u) ==
    FoldLeft(LAMBDA s, e : IF e[1] = u THEN Append(s, e[2])
                           ELSE IF e[2] = u THEN Append(s, e[1]) ELSE s, << >>, edges)

BSInit ==
    /\ \E S \in SUBSET Optional :
           rep = [edges |-> SelectSeq([i \in DOMAIN Edges |->
                                          IF i \in S THEN << >> ELSE Edges[i]],
                                      LAMBDA e : e # << >>),
                  dist |-> [side \in Sides |->
                               [v \in 0 .. N - 1 |-> IF v = Root(side) THEN 0 ELSE Unseen]],
                  queue |-> [side \in Sides |-> <<Root(side)>>],
                  answer |-> Searching]

\* The neighbours one after the other, until one is known to the other side
RECURSIVE Scanned(_, _, _, _)
Scanned(r, side, u, neighbours) ==
    IF neighbours = << >> THEN r
    ELSE LET v == neighbours[1]
             far == r.dist[Opposite(side)][v]
             next == r.dist[side][u] + 1
         IN IF far # Unseen THEN [r EXCEPT !.answer = next + far]
            ELSE IF r.dist[side][v] # Unseen THEN Scanned(r, side, u, Tail(neighbours))
            ELSE Scanned([r EXCEPT !.dist[side][v] = next, !.queue[side] = Append(@, v)],
                         side, u, Tail(neighbours))

\* The side to take a vertex from
Turn == IF Len(rep.queue["start"]) <= Len(rep.queue["target"]) THEN "start" ELSE "target"

Expand ==
    /\ rep.answer = Searching
    /\ \A side \in Sides : rep.queue[side] # << >>
    /\ LET u == rep.queue[Turn][1]
       IN rep' = Scanned([rep EXCEPT !.queue[Turn] = Tail(@)], Turn, u, Neighbours(rep.edges, u))

Exhausted ==
    /\ rep.answer = Searching
    /\ \E side \in Sides : rep.queue[side] = << >>
    /\ rep' = [rep EXCEPT !.answer = -1]

BSNext == Expand \/ Exhausted

BSSpec == BSInit /\ [][BSNext]_bsVars
-----------------------------------------------------------------------------
\* The vertices at a distance of 0, of at most 1, ... from v, by the definition
Layers(v) ==
    FoldLeft(LAMBDA layers, d :
                 Append(layers, Last(layers) \cup UNION {Range(Neighbours(rep.edges, u)) :
                                                            u \in Last(layers)}),
             <<{v}>>, [d \in 1 .. N |-> d])
PlaceIn(layers, b) ==
    IF b \notin Last(layers) THEN Unseen ELSE Min({d \in 0 .. N : b \in layers[d + 1]})
Distance(a, b) == PlaceIn(Layers(a), b)

\* What each side has seen it has seen at its distance, the nearest first; -1 is
\* answered when no path leads to the target, and otherwise the length of some
\* path that is longer than the shortest by one edge at most.
SearchSound ==
    /\ \A side \in Sides :
           /\ \A v \in 0 .. N - 1 :
                  rep.dist[side][v] \in {Unseen, Distance(Root(side), v)}
           /\ \A i \in 2 .. Len(rep.queue[side]) :
                  rep.dist[side][rep.queue[side][i - 1]] <= rep.dist[side][rep.queue[side][i]]
    /\ rep.answer # Searching =>
           LET d == Distance(Start, Target)
           IN rep.answer \in (IF d = Unseen THEN {Unseen} ELSE {d, d + 1})

\* The answer is the length of a shortest path, as the comment says.
ShortestPathFound == rep.answer \in {Searching, Distance(Start, Target)}
=============================================================================
