----------------------------- MODULE MCStructures -----------------------------
(***************************************************************************)
(* The sequential code on small instances.  Each behaviour uses one part   *)
(* of it.  A structure: "rep" is its representation in memory, "content",  *)
(* or "kv" for a map, what the calls have put into it.  A function, or a   *)
(* group of them: "rep" is an input, given in one step, and the behaviour  *)
(* stops (in the part "two searches" the computation takes steps).         *)
(***************************************************************************)
EXTENDS Integers, Sequences, FiniteSets

CONSTANTS vx, vy, NoValue

VARIABLES part, rep, content, kv

vars == <<part, rep, content, kv>>

\* Nine entities, two of the same vruntime: all cases of both fix-ups arise.
RQ == INSTANCE RunQueue WITH Vruntime <- <<1, 2, 2, 3, 4, 5, 6, 7, 8>>

\* MaxLoop is only read by the cuckoo table, Hash only by the other tables.
HT == INSTANCE HashTables WITH
          Key <- 1 .. 6, Value <- {vx}, Hash <- <<0, 1, 0, 3, 7, 15>>,
          MaxLoop <- 0, InitialCapacity <- 8, MaxCapacity <- 16
\* A table of 4 slots, smaller than in the code, that values change in.
HTSmall == INSTANCE HashTables WITH
          Key <- 1 .. 3, Value <- {vx, vy}, Hash <- <<0, 3, 0>>,
          MaxLoop <- 0, InitialCapacity <- 4, MaxCapacity <- 8
RH == INSTANCE HashTables WITH
          Key <- 1 .. 7, Value <- {vx}, Hash <- <<0, 1, 0, 3, 1, 7, 15>>,
          MaxLoop <- 0, InitialCapacity <- 8, MaxCapacity <- 16
RHSmall == INSTANCE HashTables WITH
          Key <- 1 .. 4, Value <- {vx, vy}, Hash <- <<0, 3, 0, 7>>,
          MaxLoop <- 0, InitialCapacity <- 4, MaxCapacity <- 8
CK == INSTANCE HashTables WITH
          Hash <- << >>,
          Key <- {0, 1, 4, 6, 8, 12}, Value <- {vx, vy},
          InitialCapacity <- 2, MaxCapacity <- 16, MaxLoop <- 3

DS == INSTANCE Forests WITH Size <- 4, Settable <- {}
LC == INSTANCE Forests WITH Size <- 3, Settable <- {{1, 2}}
LS == INSTANCE RangeStructures WITH Size <- 3, Amount <- {-1, 1}, Allowed <- -1 .. 1
RS == INSTANCE RangeStructures WITH Size <- 5, Amount <- {-1, 1}, Allowed <- -1 .. 1
MT == INSTANCE RangeStructures WITH Size <- 6, Amount <- {}, Allowed <- {1, 2}
LN == INSTANCE LinearStructures WITH
          Item <- {1, 2}, Requested <- {0, 2, 3}, W <- 16, MaxLength <- 4, Slack <- 1
LNSmall == INSTANCE LinearStructures WITH
          Item <- {1, 2}, Requested <- {0, 2, 3}, W <- 16, MaxLength <- 3, Slack <- 1
SL == INSTANCE LinearStructures WITH
          Item <- {1}, Requested <- {}, W <- 3, MaxLength <- 5, Slack <- 1
BV == INSTANCE BitStructures WITH
          W <- 4, BlockWords <- 2, NumBits <- 5, Item <- {1, 2}, MaxVersions <- 4
PV == INSTANCE BitStructures WITH
          W <- 4, BlockWords <- 2, NumBits <- 3, Item <- {1, 2}, MaxVersions <- 4

\* Sets of integers below 8 and below 16.
I3 == INSTANCE IntegerSets WITH
          Bits <- 3, MaxLeaves <- 3, MinLeaves <- 2, T <- 2, MaxKeys <- 8, Keys <- 0 .. 7
I4 == INSTANCE IntegerSets WITH
          Bits <- 4, MaxLeaves <- 3, MinLeaves <- 2, T <- 2, MaxKeys <- 3, Keys <- 0 .. 15
YF == INSTANCE IntegerSets WITH
          Bits <- 3, MaxLeaves <- 3, MinLeaves <- 2, T <- 2, MaxKeys <- 8, Keys <- 1 .. 6
FT == INSTANCE IntegerSets WITH
          Bits <- 4, MaxLeaves <- 3, MinLeaves <- 2, T <- 2, MaxKeys <- 10, Keys <- 1 .. 10
FH == INSTANCE Heaps WITH Arity <- 2, MaxNodes <- 4, Priority <- {1, 2, 3}
FHGrown == INSTANCE Heaps WITH Arity <- 2, MaxNodes <- 9, Priority <- {1, 2}
GrownLeast == 7     \* a grown heap of so few nodes is left alone
BH == INSTANCE Heaps WITH Arity <- 2, MaxNodes <- 7, Priority <- 1 .. 3
DH == INSTANCE Heaps WITH Arity <- 3, MaxNodes <- 7, Priority <- 1 .. 3
IP == INSTANCE Heaps WITH Arity <- 2, MaxNodes <- 5, Priority <- 1 .. 3
PH == INSTANCE Heaps WITH Arity <- 2, MaxNodes <- 6, Priority <- 1 .. 3
MM == INSTANCE Heaps WITH Arity <- 2, MaxNodes <- 6, Priority <- 1 .. 4

\* Search trees of many keys, and of few with values that change.  The values of
\* the randomised trees are their priorities.
AVL == INSTANCE SearchTrees WITH Kind <- "AVL", Key <- 1 .. 9, Value <- {vx}
AVLSmall == INSTANCE SearchTrees WITH Kind <- "AVL", Key <- 1 .. 4, Value <- {vx, vy}
AA == INSTANCE SearchTrees WITH Kind <- "AA", Key <- 1 .. 10, Value <- {vx}
AASmall == INSTANCE SearchTrees WITH Kind <- "AA", Key <- 1 .. 4, Value <- {vx, vy}
SG == INSTANCE SearchTrees WITH Kind <- "scapegoat", Key <- 1 .. 7, Value <- {vx}
BT == INSTANCE SearchTrees WITH Kind <- "binary", Key <- 1 .. 6, Value <- {vx}
TR == INSTANCE SearchTrees WITH Kind <- "treap", Key <- 1 .. 5, Value <- 1 .. 3
OS == INSTANCE SearchTrees WITH Kind <- "order", Key <- 1 .. 5, Value <- 1 .. 3
IT == INSTANCE SearchTrees WITH
          Kind <- "interval", Key <- {0, 1, 2, 11, 12, 22}, Value <- 1 .. 2
AT == INSTANCE SearchTrees WITH
          Kind <- "authenticated", Key <- 1 .. 4, Value <- {11, 12, 21, 31}
ST == INSTANCE SearchTrees WITH Kind <- "splay", Key <- 1 .. 7, Value <- {vx}
STSmall == INSTANCE SearchTrees WITH Kind <- "splay", Key <- 1 .. 4, Value <- {vx, vy}

SA == INSTANCE StringAlgorithms WITH
          Letter <- {1, 2}, HashBase <- 2, HashModulus <- 5,
          Word <- {<< >>, <<1>>, <<2>>, <<1, 1>>, <<1, 2>>, <<2, 1>>, <<2, 2>>,
                   <<1, 2, 1>>, <<1, 2, 2>>}

PR == INSTANCE PushRelabel WITH N <- 4, SourceCap <- 2, OtherCap <- 1

\* R-trees with the code's bounds, and with least ones, whose inner nodes split too
ObjectBox == {<<<<0, 0>>, <<1, 1>>>>, <<<<2, 0>>, <<2, 3>>>>, <<<<0, 2>>, <<3, 3>>>>,
              <<<<3, 3>>, <<3, 3>>>>}
RT == INSTANCE Geometry WITH
          MaxEntries <- 4, MinEntries <- 2, Box <- ObjectBox, MaxObjects <- 6
RTSmall == INSTANCE Geometry WITH
               MaxEntries <- 2, MinEntries <- 1, Box <- ObjectBox, MaxObjects <- 5

\* Summaries: hashes that collide in one row and not in the other, windows that
\* slide, two sketches that are merged, a ring of eight places and three nodes.
BF == INSTANCE Sketches WITH
          Item <- 1 .. 4, Hash <- <<<<0, 1>>, <<3, 3>>, <<5, 2>>, <<1, 6>>>>, Size <- 7,
          K <- 2, Count <- {}, Conserved <- {}, Limit <- 0
CM == INSTANCE Sketches WITH
          Item <- 1 .. 3, Hash <- <<<<0, 0>>, <<0, 1>>, <<1, 1>>>>, Size <- 2,
          K <- 0, Count <- {1, 2}, Conserved <- {1}, Limit <- 6
HL == INSTANCE Sketches WITH
          Item <- 1 .. 5, Hash <- <<<<0, 0>>, <<0, 1>>, <<1, 2>>, <<1, 4>>, <<1, 7>>>>,
          Size <- 3, K <- 0, Count <- {}, Conserved <- {}, Limit <- 0
MG == INSTANCE Sketches WITH
          Item <- 1 .. 4, Hash <- << >>, Size <- 0,
          K <- 3, Count <- {}, Conserved <- {}, Limit <- 7
DG == INSTANCE Sketches WITH
          Item <- {}, Hash <- << >>, Size <- 6,
          K <- 2, Count <- {}, Conserved <- {}, Limit <- 10
CR == INSTANCE Sketches WITH
          Item <- 1 .. 3, Hash <- <<<<1, 4>>, <<2, 7>>, <<5, 6>>>>, Size <- 8,
          K <- 0, Count <- {}, Conserved <- {}, Limit <- 3

NoContent == content = {}
NoMap == kv = << >>

TreeStart ==
    \/ part = "AVL" /\ AVL!STInit /\ AVL!AMInit
    \/ part = "small AVL" /\ AVLSmall!STInit /\ AVLSmall!AMInit
    \/ part = "AA" /\ AA!STInit /\ AA!AMInit
    \/ part = "small AA" /\ AASmall!STInit /\ AASmall!AMInit
    \/ part = "scapegoat" /\ SG!STInit /\ SG!AMInit
    \/ part = "binary tree" /\ BT!STInit /\ BT!AMInit
    \/ part = "treap" /\ TR!STInit /\ TR!AMInit
    \/ part = "order statistics" /\ OS!STInit /\ OS!AMInit
    \/ part = "intervals" /\ IT!STInit /\ IT!AMInit
    \/ part = "authenticated" /\ AT!STInit /\ AT!AMInit
    \/ part = "splay" /\ ST!SPInit /\ ST!AMInit
    \/ part = "small splay" /\ STSmall!SPInit /\ STSmall!AMInit

LinearStart ==
    \/ part = "lazy tree" /\ LS!LSInit
    \/ part = "segment tree" /\ LS!SGInit
    \/ part = "range minimum tree" /\ RS!RMInit
    \/ part = "fenwick tree" /\ RS!FTInit
    \/ part = "square roots" /\ RS!SQInit
    \/ part = "merkle tree" /\ MT!MKInit
    \/ part = "ring buffer" /\ LN!RBInit
    \/ part = "dynamic array" /\ LN!DAInit
    \/ part = "circular deque" /\ LN!CDInit
    \/ part = "circular queue" /\ LN!CDInit
    \/ part = "linked deque" /\ LN!LDInit
    \/ part = "linked queue" /\ LN!LDInit
    \/ part = "linked stack" /\ LN!LDInit
    \/ part = "doubly linked list" /\ LNSmall!DLInit
    \/ part = "gap buffer" /\ LN!GBInit
    \/ part = "piece table" /\ LNSmall!PTInit
    \/ part = "skip list" /\ SL!SKInit
    \/ part = "arena" /\ LN!ArenaInit
    \/ part = "pool" /\ LN!PoolInit
    \/ part = "bit vectors" /\ BV!BVInit
    \/ part = "persistent array" /\ PV!VersionsInit
    \/ part = "emde boas" /\ I3!VEBInit
    \/ part = "emde boas 4" /\ I4!VEBInit
    \/ part = "x-fast" /\ I3!XInit
    \/ part = "x-fast 4" /\ I4!XInit
    \/ part = "y-fast" /\ YF!YInit
    \/ part = "fusion tree" /\ FT!FusionInit

SketchStart ==
    \/ part = "bloom filter" /\ BF!BFInit
    \/ part = "count-min" /\ CM!CMInit
    \/ part = "hyperloglog" /\ HL!HLInit
    \/ part = "heavy hitters" /\ MG!MGInit
    \/ part = "reservoir" /\ MG!RVInit
    \/ part = "window" /\ DG!DGInit
    \/ part = "ring of nodes" /\ CR!CRInit
-----------------------------------------------------------------------------
(* The instances and the inputs of the functions.                           *)

Sorted4 == INSTANCE Heaps WITH Arity <- 4, MaxNodes <- 9, Priority <- 1 .. 2

SA3 == INSTANCE StringAlgorithms WITH
           Letter <- {1, 2, 3}, HashBase <- 5, HashModulus <- 32749, Word <- {}

\* The graphs: pairs <<a, b>> of vertices of 0 .. n - 1 that satisfy P.
Pairs(n, P(_, _)) == SelectSeq([k \in 1 .. n * n |-> <<(k - 1) \div n, (k - 1) % n>>],
                               LAMBDA p : P(p[1], p[2]))
NotIntoSource(a, b) == a # b /\ b # 0 /\ <<a, b>> \notin {<<1, 2>>, <<3, 1>>}

AllButOne(n) == Pairs(n, LAMBDA a, b : a # b /\ <<a, b>> # <<3, 0>>)
Forward(n) == Pairs(n, LAMBDA a, b : a < b)
Unordered(n) == Pairs(n, LAMBDA a, b : a <= b)

G2 == INSTANCE GraphAlgorithms WITH N <- 2
G3 == INSTANCE GraphAlgorithms WITH N <- 3
G4 == INSTANCE GraphAlgorithms WITH N <- 4
G6 == INSTANCE GraphAlgorithms WITH N <- 6

Grid33 == RT!Grid(3, 3)
Crossing == {<<0, 0>>, <<0, 1>>, <<0, 2>>, <<1, 1>>, <<3, 0>>, <<3, 2>>}
Middle == {<<0, 0>>, <<0, 2>>, <<1, 1>>, <<2, 0>>, <<2, 1>>}
DP == INSTANCE DynamicProgramming WITH Capacity <- 5
PD == INSTANCE Paradigms WITH
          Bound <- 4, HalfBits <- 2, Radix <- 2,
          N <- 1, Edges <- << >>, Optional <- {}, Start <- 0, Target <- 0

\* Graphs of five vertices, two of whose ten edges are always there
FiveVertices == <<<<0, 1>>, <<1, 2>>, <<2, 4>>, <<0, 3>>, <<3, 4>>, <<1, 3>>, <<2, 3>>,
                  <<0, 2>>, <<1, 4>>, <<0, 4>>>>
TS == INSTANCE Paradigms WITH
          N <- 5, Edges <- FiveVertices, Optional <- 1 .. 8, Start <- 0, Target <- 4,
          Bound <- 1, HalfBits <- 1, Radix <- 2

\* The graphs: all of three vertices with negative cycles and with loops; of four
\* with positive weights, with weights 0 and 1, without weights, without cycles
\* but for one pair, and undirected.  Clauses of two literals over two and over
\* three variables, trees of six vertices.
GraphInput ==
    \/ part = "loops" /\ G3!AnyGraph(Pairs(3, LAMBDA a, b : TRUE), {1})
    \/ part = "positive weights" /\ G4!AnyGraph(Pairs(4, NotIntoSource), {1, 3})
    \/ part = "weights 0 and 1" /\ G4!AnyGraph(Pairs(4, NotIntoSource), {0, 1})
    \/ part = "plain graphs" /\ G4!AnyGraph(AllButOne(4), {1})
    \/ part = "nearly ordered" /\ G4!AnyGraph(Append(Forward(4), <<2, 1>>), {-1, 2})
    \/ part = "undirected" /\ G4!AnyGraph(Forward(4), {1, 2})
    \/ part = "clauses" /\ G2!AnyClauses(Unordered(4), 10)
    \/ part = "many clauses" /\ G3!AnyClauses(Unordered(6), 3)
    \/ part = "trees" /\ G6!AnyTree
    \/ part = "cells" /\ rep' \in (1 .. 3) \X (1 .. 3)
    \/ part = "sorting" /\ BH!AnyArray(7)
    \/ part = "selections" /\ BH!AnyArray(5)
    \/ part = "many to select from" /\ BH!AnyArray(7)
    \/ part = "most to select from" /\ rep' \in [1 .. 11 -> 1 .. 2]
    \/ part = "sorting 4" /\ Sorted4!AnyArray(9)

\* Strings of two letters and of three; hashes that collide and hashes that do not
TextInput ==
    \/ part = "strings" /\ SA3!AnyString({1, 2}, 6)
    \/ part = "strings of 3" /\ SA3!AnyString({1, 2, 3}, 4)
    \/ part = "text and pattern" /\ SA!AnyPair(6, 3)
    \/ part = "text and pattern of 3" /\ SA3!AnyPair(3, 3)
    \/ part = "alignments" /\ SA!AnyPair(4, 4)
    \/ part = "patterns" /\ SA!AnyPatterns(3, 3)

\* Arrays, tables, queries, bits, heights of a layout, keys packed into a word
ArrayInput ==
    \/ part = "arrays" /\ LS!AnyArray({2, 3, 4}, 5)
    \/ part = "tables" /\ LS!AnyMatrix({1, 2}, 2, 3)
    \/ part = "additions" /\ LS!AnyAdditions(1 .. 4, 2)
    \/ part = "rectangles" /\ LS!AnyRectangles(1 .. 3, 1 .. 2, 2)
    \/ part = "queries" /\ LS!AnyArrayAndQueries({1, 2}, 3, 3)
    \/ part = "points" /\ LS!AnyPoints({1, 2}, 4)
    \/ part = "profiles" /\ LS!AnyArray({1, 2, 3}, 5)
    \/ part = "bits" /\ BV!AnyBits(9)
    \/ part = "symbols" /\ BV!AnyText({1, 3, 4}, 5)
    \/ part = "limits" /\ rep' \in 0 .. 30
    \/ part = "heights" /\ rep' \in 1 .. 4
    \/ part = "packed keys" /\ LS!AnyArray(0 .. 3, 4)
    \/ part = "divided" /\ PD!AnyArray({-1, 1, 2}, 5)
    \/ part = "numbers" /\ PD!AnyNumbers(5)
    \/ part = "runs and sweeps" /\ PD!AnyArray({1, 2, 3}, 5)

\* Points and segments of a grid
PointInput ==
    \/ part = "segments" /\ RT!AnySegments(Grid33)
    \/ part = "triangles" /\ RT!AnyPolygon(Grid33, 3)
    \/ part = "quadrilaterals" /\ RT!AnyPolygon(Grid33, 4)
    \/ part = "clouds" /\ RT!AnyCloud(RT!Grid(4, 3) \ {<<1, 1>>})
    \/ part = "close points" /\ RT!AnyPoints(Grid33, 5)
    \/ part = "spread points" /\ RT!AnyPoints(RT!Grid(4, 2), 4)
    \/ part = "sweeps" /\ RT!AnyOrder(RT!SegmentsOf(Crossing), 3)
    \/ part = "nearest" /\ RT!AnyPoints(Grid33, 4)
    \/ part = "nearest of 5" /\ RT!AnyPoints(Middle, 5)

\* What a best choice is asked of
ChoiceInput ==
    \/ part = "naturals" /\ rep' \in 0 .. 8
    \/ part = "grids" /\ DP!AnyGrid(3, 3, {1, 2})
    \/ part = "knapsacks" /\ DP!AnyItems({1, 2, 3}, {1, 3}, {0, 1, 3}, 2)
    \/ part = "increasing" /\ DP!AnyArray({1, 2, 3}, 5)
    \/ part = "chains" /\ DP!AnyArray({1, 2, 3}, 4)
    \/ part = "assignments" /\ DP!AnyMatrix(3, {1, 2})
    \/ part = "masks" /\ rep' \in {<<1>>, <<1, 2>>, <<1, 2, 3>>}
    \/ part = "weighted trees" /\ DP!AnyTree(5)
    \/ part = "schedules" /\ PD!AnyIntervals(3, 1)
    \/ part = "weighted schedules" /\ PD!AnyIntervals(2, 2)
    \/ part = "jobs" /\ PD!AnyPairs({1, 2, 3}, {1, 2, 4}, 3)
    \/ part = "items" /\ PD!AnyPairs({0, 1, 3}, {0, 1, 2, 3}, 3)
    \/ part = "frequencies" /\ PD!AnyNonempty(1 .. 3, 4)
    \/ part = "coins" /\ rep' \in {<<4, 2, 1>>, <<3, 1>>, <<1>>}
    \/ part = "halves" /\ PD!AnyArray({-2, 1, 2, 3}, 4)
    \/ part = "choices" /\ PD!AnyArray({1, 2, 3}, 4)
    \/ part = "queens" /\ rep' \in 1 .. 5
    \/ part = "answers" /\ PD!AnyNonempty({1, 2, 4}, 4)
    \/ part = "sorted matrices" /\ PD!AnySortedMatrix(3, 1 .. 3)

Parts == {"loops", "positive weights", "weights 0 and 1", "plain graphs",
          "nearly ordered", "undirected", "clauses", "many clauses", "trees",
          "sorting", "sorting 4", "selections", "many to select from",
          "most to select from", "strings", "strings of 3",
          "text and pattern", "text and pattern of 3", "alignments",
          "patterns", "arrays", "tables", "additions", "rectangles",
          "queries", "points", "profiles", "bits", "symbols", "limits",
          "heights", "packed keys", "divided", "numbers", "runs and sweeps",
          "cells", "naturals", "grids",
          "knapsacks", "increasing", "chains", "assignments", "masks",
          "weighted trees", "schedules", "weighted schedules", "jobs",
          "items", "frequencies", "coins", "halves", "choices", "queens",
          "answers", "sorted matrices", "segments", "triangles",
          "quadrilaterals", "clouds", "close points", "spread points",
          "sweeps", "nearest", "nearest of 5"}

FunctionNext ==
    /\ part \in Parts /\ content = {} /\ content' = {"given"}
    /\ GraphInput \/ TextInput \/ ArrayInput \/ PointInput \/ ChoiceInput

Given == (part \in Parts /\ content # {}) \/ part \in {"two searches", "fork and join"}
-----------------------------------------------------------------------------
MCInit ==
    \/ part = "run queue" /\ RQ!RQInit /\ NoMap
    \/ part = "hash table" /\ HT!HTInit /\ HT!AMInit /\ NoContent
    \/ part = "small hash table" /\ HTSmall!HTInit /\ HTSmall!AMInit /\ NoContent
    \/ part = "robin hood" /\ RH!RHInit /\ RH!AMInit /\ NoContent
    \/ part = "small robin hood" /\ RHSmall!RHInit /\ RHSmall!AMInit /\ NoContent
    \/ part = "cuckoo" /\ CK!CKInit /\ CK!AMInit /\ NoContent
    \/ part = "disjoint sets" /\ DS!DSInit /\ NoMap
    \/ part = "link-cut" /\ LC!LCInit /\ NoMap
    \/ part = "fibonacci heap" /\ FH!FHInit /\ NoMap
    \/ part = "grown heap" /\ FHGrown!GrownInit /\ NoMap
    \/ part = "push-relabel" /\ PR!PRInit /\ NoMap
    \/ part = "binary heap" /\ BH!BHInit /\ NoMap
    \/ part = "ternary heap" /\ DH!BHInit /\ NoMap
    \/ part = "indexed queue" /\ IP!IPInit /\ NoMap
    \/ part = "pairing heaps" /\ PH!PHInit /\ NoMap
    \/ part = "binomial heap" /\ BH!BNInit /\ NoMap
    \/ part = "medians" /\ MM!MMInit /\ NoMap
    \/ part = "trie" /\ SA!WTInit /\ NoMap
    \/ part = "R-tree" /\ RT!RTInit /\ NoMap
    \/ part = "small R-tree" /\ RTSmall!RTInit /\ NoMap
    \/ SketchStart /\ NoMap
    \/ TreeStart /\ NoContent
    \/ LinearStart /\ NoMap
    \/ part \in Parts /\ rep = << >> /\ content = {} /\ NoMap
    \/ part = "two searches" /\ TS!BSInit /\ content = {"given"} /\ NoMap
    \/ part = "fork and join" /\ PD!FJInit({1, 2}, 5) /\ content = {"given"} /\ NoMap

TreeNext ==
    \/ part = "AVL" /\ AVL!STNext
    \/ part = "small AVL" /\ AVLSmall!STNext
    \/ part = "AA" /\ AA!STNext
    \/ part = "small AA" /\ AASmall!STNext
    \/ part = "scapegoat" /\ SG!STNext
    \/ part = "binary tree" /\ BT!STNext
    \/ part = "treap" /\ TR!STNext
    \/ part = "order statistics" /\ OS!STNext
    \/ part = "intervals" /\ IT!STNext
    \/ part = "authenticated" /\ AT!STNext
    \/ part = "splay" /\ ST!SPNext
    \/ part = "small splay" /\ STSmall!SPNext

LinearNext ==
    \/ part = "lazy tree" /\ LS!LSNext
    \/ part = "segment tree" /\ LS!SGNext
    \/ part = "range minimum tree" /\ RS!RMNext
    \/ part = "fenwick tree" /\ RS!FTNext
    \/ part = "square roots" /\ RS!SQNext
    \/ part = "merkle tree" /\ MT!MKNext
    \/ part = "ring buffer" /\ LN!RBNext
    \/ part = "dynamic array" /\ LN!DANext
    \/ part = "circular deque" /\ LN!CDNext
    \/ part = "circular queue" /\ LN!CQNext
    \/ part = "linked deque" /\ LN!LDNext
    \/ part = "linked queue" /\ LN!LQNext
    \/ part = "linked stack" /\ LN!LSNext
    \/ part = "doubly linked list" /\ LNSmall!DLNext
    \/ part = "gap buffer" /\ LN!GBNext
    \/ part = "piece table" /\ LNSmall!PTNext
    \/ part = "skip list" /\ SL!SKNext
    \/ part = "arena" /\ LN!ArenaNext
    \/ part = "pool" /\ LN!PoolNext
    \/ part = "bit vectors" /\ BV!BVNext
    \/ part = "persistent array" /\ PV!VersionsNext
    \/ part = "emde boas" /\ I3!VEBNext
    \/ part = "emde boas 4" /\ I4!VEBNext
    \/ part = "x-fast" /\ I3!XNext
    \/ part = "x-fast 4" /\ I4!XNext
    \/ part = "y-fast" /\ YF!YNext
    \/ part = "fusion tree" /\ FT!FusionNext

SketchNext ==
    \/ part = "bloom filter" /\ BF!BFNext
    \/ part = "count-min" /\ CM!CMNext
    \/ part = "hyperloglog" /\ HL!HLNext
    \/ part = "heavy hitters" /\ MG!MGNext
    \/ part = "reservoir" /\ MG!RVProcess
    \/ part = "window" /\ DG!DGNext
    \/ part = "ring of nodes" /\ CR!CRNext

MCNext ==
    \/ /\ \/ part = "run queue" /\ RQ!RQNext
          \/ part = "disjoint sets" /\ DS!DSNext
          \/ part = "link-cut" /\ LC!LCNext
          \/ LinearNext
          \/ part = "fibonacci heap" /\ FH!FHNext
          \/ part = "grown heap" /\ Cardinality(DOMAIN content) > GrownLeast /\ FHGrown!Shrink
          \/ part = "push-relabel" /\ PR!PRNext
          \/ part = "binary heap" /\ BH!BHNext
          \/ part = "ternary heap" /\ DH!BHNext
          \/ part = "indexed queue" /\ IP!IPNext
          \/ part = "pairing heaps" /\ PH!PHNext
          \/ part = "binomial heap" /\ BH!BNNext
          \/ part = "medians" /\ MM!MMNext
          \/ part = "trie" /\ SA!WTNext
          \/ part = "R-tree" /\ RT!RTNext
          \/ part = "small R-tree" /\ RTSmall!RTNext
          \/ SketchNext
          \/ FunctionNext
          \/ part = "two searches" /\ TS!BSNext /\ UNCHANGED content
          \/ part = "fork and join" /\ PD!FJNext /\ UNCHANGED content
       /\ UNCHANGED <<part, kv>>
    \/ /\ \/ part = "hash table" /\ HT!HTNext
          \/ part = "small hash table" /\ HTSmall!HTNext
          \/ part = "robin hood" /\ RH!RHNext
          \/ part = "small robin hood" /\ RHSmall!RHNext
          \/ part = "cuckoo" /\ CK!CKNext
          \/ TreeNext
       /\ UNCHANGED <<part, content>>

MCSpec == MCInit /\ [][MCNext]_vars
-----------------------------------------------------------------------------
\* What the operations rely on between calls, each of which a long sequence of
\* calls could break: the balance and order of the run queue, free slots, probe
\* orders and counters of the tables, heap order and the sizes that cascading
\* cuts preserve, the order, balance, sizes and notes of the search trees, the
\* counts per height that the gap heuristic trusts.
RepresentationSound ==
    CASE part = "run queue"        -> RQ!RedBlackSound
      [] part = "hash table"       -> HT!HTTypeOK /\ HT!TableSound
      [] part = "small hash table" -> HTSmall!HTTypeOK /\ HTSmall!TableSound
      [] part = "robin hood"       -> RH!RHTypeOK /\ RH!RobinHoodOrder
      [] part = "small robin hood" -> RHSmall!RHTypeOK /\ RHSmall!RobinHoodOrder
      [] part = "cuckoo"           -> CK!CKTypeOK /\ CK!CuckooSound
      [] part = "fibonacci heap"   -> FH!FibonacciSound
      [] part = "grown heap"       -> FHGrown!FibonacciSound
      [] part = "push-relabel"     -> PR!PreflowSound
      [] part = "binary heap"      -> BH!ArrayHeapSound
      [] part = "ternary heap"     -> DH!ArrayHeapSound
      [] part = "indexed queue"    -> IP!IndexedSound
      [] part = "pairing heaps"    -> PH!PairingSound
      [] part = "binomial heap"    -> BH!BinomialSound
      [] part = "AVL"              -> AVL!TreeSound
      [] part = "small AVL"        -> AVLSmall!TreeSound
      [] part = "AA"               -> AA!TreeSound
      [] part = "small AA"         -> AASmall!TreeSound
      [] part = "scapegoat"        -> SG!TreeSound
      [] part = "binary tree"      -> BT!TreeSound
      [] part = "treap"            -> TR!TreeSound
      [] part = "order statistics" -> OS!TreeSound
      [] part = "intervals"        -> IT!TreeSound
      [] part = "authenticated"    -> AT!TreeSound
      [] part = "splay"            -> ST!SplaySound
      [] part = "small splay"      -> STSmall!SplaySound
      [] part = "R-tree"           -> RT!RTreeSound
      [] part = "small R-tree"     -> RTSmall!RTreeSound
      [] OTHER -> TRUE

\* Of the structures that hold a sequence, an array or a set of integers, no sum,
\* minimum, position, version, successor or rank differs from what the sequence,
\* the array or the set says.
SequencesAndSetsExact ==
    CASE part = "lazy tree" -> LS!QueriesExact
      [] part = "segment tree" -> LS!SGExact
      [] part = "range minimum tree" -> RS!RMExact
      [] part = "fenwick tree" -> RS!FTExact
      [] part = "square roots" -> RS!SQExact
      [] part = "merkle tree" -> MT!MerkleExact
      [] part = "ring buffer" -> LN!RingExact
      [] part = "dynamic array" -> LN!DAExact
      [] part = "circular deque" -> LN!CircularExact
      [] part = "circular queue" -> LN!CircularExact
      [] part = "linked deque" -> LN!LDExact
      [] part = "linked queue" -> LN!LQExact
      [] part = "linked stack" -> LN!LSExact
      [] part = "doubly linked list" -> LNSmall!DLExact
      [] part = "gap buffer" -> LN!GapExact
      [] part = "piece table" -> LNSmall!PiecesExact
      [] part = "skip list" -> SL!SkipExact
      [] part = "arena" -> LN!ArenaExact
      [] part = "pool" -> LN!PoolExact
      [] part = "bit vectors" -> BV!VectorsExact
      [] part = "persistent array" -> PV!VersionsExact
      [] part = "emde boas" -> I3!VEBExact
      [] part = "emde boas 4" -> I4!VEBExact
      [] part = "x-fast" -> I3!XFastExact
      [] part = "x-fast 4" -> I4!XFastExact
      [] part = "y-fast" -> YF!YFastExact
      [] part = "fusion tree" -> FT!FusionExact
      [] OTHER -> TRUE

\* Every question is answered as the calls so far require: the task of least
\* vruntime, the last value put, who is connected, what lies on
\* a path, the median, ranks, overlaps and successors in the search trees, the
\* words with a prefix; and what a sequence, an array or a set of integers says.
AnswersExact ==
    /\ SequencesAndSetsExact
    /\ CASE part = "run queue"        -> RQ!PicksLeast
         [] part = "hash table"       -> HT!HTAnswers
         [] part = "small hash table" -> HTSmall!HTAnswers
         [] part = "robin hood"       -> RH!RHAnswers
         [] part = "small robin hood" -> RHSmall!RHAnswers
         [] part = "cuckoo"           -> CK!CKAnswers
         [] part = "disjoint sets"    -> DS!PartitionExact
         [] part = "link-cut"         -> LC!ForestExact
         [] part = "medians"          -> MM!MedianExact
         [] part = "push-relabel"     -> PR!FlowIsMaximum
         [] part = "trie"             -> SA!TrieExact
         [] part = "AVL"              -> AVL!TreeAnswers
         [] part = "small AVL"        -> AVLSmall!TreeAnswers
         [] part = "AA"               -> AA!TreeAnswers
         [] part = "small AA"         -> AASmall!TreeAnswers
         [] part = "scapegoat"        -> SG!TreeAnswers
         [] part = "binary tree"      -> BT!TreeAnswers
         [] part = "treap"            -> TR!TreeAnswers
         [] part = "order statistics" -> OS!TreeAnswers
         [] part = "intervals"        -> IT!TreeAnswers
         [] part = "authenticated"    -> AT!TreeAnswers
         [] part = "R-tree"           -> RT!OverlapsExact(ObjectBox)
         [] part = "small R-tree"     -> RTSmall!OverlapsExact(ObjectBox)
         [] part = "bloom filter"     -> BF!BloomExact
         [] part = "count-min"        -> CM!NeverUnderestimates /\ CM!SketchBounded
         [] part = "hyperloglog"      -> HL!RegistersExact
         [] part = "heavy hitters"    -> MG!HeavyHittersKept
         [] part = "reservoir"        -> MG!SampleExact
         [] part = "window"           -> DG!WindowCounted
         [] part = "ring of nodes"    -> CR!RoutingExact
         [] OTHER -> TRUE

\* Paths, components, assignments of clauses, forests, ancestors, ordered
\* permutations, ranks, hulls, nearest points and intersections are those of the
\* definitions.
GraphsAndPointsExact ==
    Given =>
    CASE part = "loops"            -> G3!SearchExact /\ G3!ComponentsExact /\ G3!AllPairsExact
      [] part = "positive weights" -> G4!SingleSourceExact
      [] part = "weights 0 and 1"  -> G4!SingleSourceExact /\ G4!RepresentationsExact
      [] part = "cells"            -> G3!CellsExact
      [] part = "plain graphs"     -> G4!SearchExact /\ G4!ComponentsExact
      [] part = "nearly ordered"   -> G4!SearchExact
      [] part = "undirected"       -> G4!SpanningForestsLeast
      [] part = "clauses"          -> G2!TwoSatExact
      [] part = "many clauses"     -> G3!TwoSatExact
      [] part = "trees"            -> G6!AncestorsExact
      [] part = "two searches"     -> TS!SearchSound
      [] part = "sorting"          -> BH!SortsExactly
      [] part = "selections"       -> BH!SelectsRank
      [] part \in {"many to select from", "most to select from"} -> BH!RanksWithoutChance
      [] part = "sorting 4"        -> Sorted4!SortsExactly
      [] part = "segments"         -> RT!SegmentsExact(1 .. 8)
      [] part \in {"triangles", "quadrilaterals"} -> RT!PolygonsExact(Grid33)
      [] part = "clouds"           -> RT!HullsExact
      [] part \in {"close points", "spread points"} -> RT!ClosestExact
      [] part = "sweeps"           -> RT!SweepsExact
      [] part \in {"nearest", "nearest of 5"} ->
             RT!NearestExact(Grid33, {s \in RT!SegmentsOf(Grid33) : s[1][2] <= s[2][2]})
      [] OTHER -> TRUE

\* Borders, periods, occurrences, palindromes, suffixes and alignments are those of
\* the definitions; so are the sums, minima, ranks, inversions, products and areas
\* of arrays, of bits and of the numbers in them.
TextsAndArraysExact ==
    Given =>
    CASE part \in {"strings", "strings of 3"} -> /\ SA3!PrefixesExact /\ SA3!PalindromesExact
                                                /\ SA3!SuffixesExact
      [] part = "text and pattern" -> SA!SearchesExact
      [] part = "text and pattern of 3" -> SA3!HashLcpExact
      [] part = "alignments" -> SA!AlignmentsExact
      [] part = "patterns" -> SA!AutomatonExact
      [] part = "arrays" -> LS!TablesExact /\ LS!PrefixSumsExact
      [] part = "tables" -> LS!RectanglesExact
      [] part = "additions" -> LS!AdditionsExact(3)
      [] part = "rectangles" -> LS!RectangleAdditionsExact(2, 2)
      [] part = "queries" -> LS!QueriesAnswered
      [] part = "points" -> LS!DominanceExact
      [] part = "profiles" -> LN!MonotonicExact
      [] part = "bits" -> BV!RanksAndSelectsExact
      [] part = "symbols" -> BV!WaveletExact(0, 4)
      [] part = "limits" -> BV!SieveExact(rep)
      [] part = "heights" -> I3!LayoutExact(rep)
      [] part = "packed keys" -> I3!ParallelRankExact(2)
      [] part = "divided" -> PD!DivisionsExact
      [] part = "numbers" -> PD!ProductsExact
      [] part = "runs and sweeps" -> PD!SweepsAndRunsExact
      [] part = "fork and join" -> PD!TasksApart
      [] OTHER -> TRUE

\* What is called best is the best of all choices: schedules, knapsacks, chains,
\* codes, assignments, tours, searches with pruning, answers found by halving.
ChoicesBest ==
    Given =>
    CASE part = "naturals" -> DP!FibonacciExact
      [] part = "grids" -> DP!GridPathsExact
      [] part = "knapsacks" -> DP!KnapsacksExact
      [] part = "increasing" -> DP!IncreasingExact
      [] part = "chains" -> DP!IntervalsExact(4)
      [] part = "assignments" -> DP!PermutationsExact
      [] part = "masks" -> DP!SubsetsExact
      [] part = "weighted trees" -> DP!TreesExact
      [] part = "schedules" -> PD!IntervalsScheduled
      [] part = "weighted schedules" -> PD!IntervalsScheduled
      [] part = "jobs" -> PD!LatenessLeast
      [] part = "items" -> PD!KnapsackBounded
      [] part = "frequencies" -> PD!CodesShortest
      [] part = "coins" -> PD!CoinsFewest
      [] part = "halves" -> PD!HalvesMeet
      [] part = "choices" -> PD!SearchesComplete
      [] part = "queens" -> PD!QueensPlaced
      [] part = "answers" -> PD!AnswersBest
      [] part = "sorted matrices" -> PD!MatrixRanksExact
      [] OTHER -> TRUE
=============================================================================
