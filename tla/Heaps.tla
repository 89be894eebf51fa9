-------------------------------- MODULE Heaps --------------------------------
(***************************************************************************)
(* The priority queues of binary_heap.cpp, d_ary_heap.cpp,                 *)
(* indexed_priority_queue.cpp, pairing_heap.cpp, binomial_heaps.cpp,       *)
(* fibonacci_heap.cpp and median_maintenance.cpp, and the selections of    *)
(* quickselect_and_median_of_medians.cpp.                                  *)
(***************************************************************************)
EXTENDS Integers, SequencesExt, FiniteSetsExt

CONSTANTS MaxNodes,   \* bound: nodes in the heap at a time
          Priority,
          Arity       \* D of the d-ary heap, 2 for the binary heap

VARIABLES rep,      \* the heap in memory
          content   \* what the user has put in: node -> value, or how often
                    \* each value

heapVars == <<rep, content>>

Node == 1 .. MaxNodes
NIL == 0
-----------------------------------------------------------------------------
(* fibonacci_heap.cpp.  A circular list is a sequence that starts at the     *)
(* node the pointer into it names: roots[1] is min_, and kids[n][1] is n's   *)
(* child pointer; list_insert_after() the pointer puts a node second.  Each  *)
(* node has a value, children, a degree, a parent and a mark.                *)

EmptyHeap ==
    [roots |-> << >>,
     val |-> [n \in Node |-> 0], kids |-> [n \in Node |-> << >>],
     degree |-> [n \in Node |-> 0], parent |-> [n \in Node |-> NIL],
     mark |-> [n \in Node |-> FALSE]]

FHInit == rep = EmptyHeap /\ content = [n \in {} |-> 0]

InsertAfterHead(ring, n) == IF ring = << >> THEN <<n>> ELSE <<ring[1], n>> \o Tail(ring)

\* The ring from its element n on
StartAt(ring, n) ==
    LET i == CHOOSE j \in DOMAIN ring : ring[j] = n
    IN  SubSeq(ring, i, Len(ring)) \o SubSeq(ring, 1, i - 1)

\* min_ moves to n, a root, if n's value is less.
MinOf(H, n) ==
    IF H.val[n] < H.val[H.roots[1]] THEN [H EXCEPT !.roots = StartAt(@, n)] ELSE H

Pushed(H, n, v) ==
    MinOf([H EXCEPT !.roots = InsertAfterHead(@, n), !.val[n] = v], n)

Push(v) ==
    LET n == Min(Node \ DOMAIN content)
    IN  /\ DOMAIN content # Node
        /\ rep' = Pushed(rep, n, v)
        /\ content' = [m \in DOMAIN content \union {n} |-> IF m = n THEN v ELSE content[m]]

-----------------------------------------------------------------------------
(* pop()                                                                    *)

Link(H, y, x) ==
    [H EXCEPT !.parent[y] = x, !.mark[y] = FALSE,
              !.kids[x] = InsertAfterHead(@, y), !.degree[x] = @ + 1]

\* The root x meets the root of its degree already seen, until there is none.
RECURSIVE Absorb(_, _, _, _)
Absorb(H, table, x, d) ==
    IF d \notin DOMAIN table
    THEN [heap |-> H, table |-> [e \in DOMAIN table \union {d} |->
                                    IF e = d THEN x ELSE table[e]]]
    ELSE LET y == table[d]
             low == IF H.val[y] < H.val[x] THEN x ELSE y
             top == IF low = x THEN y ELSE x
         IN  Absorb(Link(H, low, top), [e \in DOMAIN table \ {d} |-> table[e]], top, d + 1)

\* The roots in the table, by degree, become the new ring.
RECURSIVE Rebuild(_, _, _)
Rebuild(H, table, d) ==
    IF DOMAIN table = {} THEN H
    ELSE IF d \notin DOMAIN table THEN Rebuild(H, table, d + 1)
    ELSE LET n == table[d]
             H1 == [H EXCEPT !.roots = InsertAfterHead(@, n), !.parent[n] = NIL]
         IN  Rebuild(MinOf(H1, n), [e \in DOMAIN table \ {d} |-> table[e]], d + 1)

Consolidated(H) ==
    LET step(acc, w) == Absorb(acc.heap, acc.table, w, acc.heap.degree[w])
        done == FoldLeft(step, [heap |-> H, table |-> [d \in {} |-> NIL]], H.roots)
    IN  Rebuild([done.heap EXCEPT !.roots = << >>], done.table, 0)

\* The children of min_ go to the root ring, min_ leaves it.
Popped(H0) ==
    LET z == H0.roots[1]
        promoted == FoldLeft(LAMBDA H, c : [H EXCEPT !.parent[c] = NIL,
                                                     !.roots = InsertAfterHead(@, c)],
                             H0, H0.kids[z])
        rest == [promoted EXCEPT !.roots = Tail(@), !.val[z] = 0, !.kids[z] = << >>,
                                 !.degree[z] = 0, !.mark[z] = FALSE]
    IN  IF rest.roots = << >> THEN rest ELSE Consolidated(rest)

Pop ==
    /\ rep.roots # << >>
    /\ rep' = Popped(rep)
    /\ content' = [m \in DOMAIN content \ {rep.roots[1]} |-> content[m]]

\* A heap into which all nodes were pushed, of which the first was popped: the
\* others hang together in trees, in which cuts can cascade.
GrownInit ==
    LET high == Max(Priority)
        all == FoldLeft(LAMBDA H, n : Pushed(H, n, IF n = 1 THEN Min(Priority) ELSE high),
                        EmptyHeap, [n \in Node |-> n])
    IN  rep = Popped(all) /\ content = [n \in Node \ {1} |-> high]

-----------------------------------------------------------------------------
(* decrease_key()                                                           *)

\* y's child pointer moves on to x's right neighbour, whichever child it named.
Cut(H, x, y) ==
    [H EXCEPT !.kids[y] = Tail(StartAt(@, x)), !.degree[y] = @ - 1,
              !.parent[x] = NIL, !.mark[x] = FALSE,
              !.roots = InsertAfterHead(@, x)]

RECURSIVE CascadingCut(_, _)
CascadingCut(H, y) ==
    LET z == H.parent[y]
    IN  IF z = NIL THEN H
        ELSE IF ~H.mark[y] THEN [H EXCEPT !.mark[y] = TRUE]
        ELSE CascadingCut(Cut(H, y, z), z)

DecreaseKey(x, v) ==
    LET H == [rep EXCEPT !.val[x] = v]
        y == rep.parent[x]
        H1 == IF y = NIL THEN H
              ELSE IF v < H.val[y] THEN CascadingCut(Cut(H, x, y), y)
              ELSE H
    IN  /\ x \in DOMAIN content /\ v <= rep.val[x]
        /\ rep' = IF v < H1.val[H1.roots[1]] THEN [H1 EXCEPT !.roots = StartAt(@, x)] ELSE H1
        /\ content' = [content EXCEPT ![x] = v]

Shrink == Pop \/ \E x \in Node, v \in Priority : DecreaseKey(x, v)

FHNext == Shrink \/ \E v \in Priority : Push(v)

FHSpec == FHInit /\ [][FHNext]_heapVars
-----------------------------------------------------------------------------
(* Bags of priorities: how often each has been put in                       *)

NoItems == [v \in Priority |-> 0]
Count(bag) == FoldFunction(+, 0, bag)
Items(bag) == {v \in Priority : bag[v] > 0}
Added(bag, v) == [bag EXCEPT ![v] = @ + 1]
Taken(bag, v) == [bag EXCEPT ![v] = @ - 1]
BagOf(seq) == [v \in Priority |-> Cardinality({i \in DOMAIN seq : seq[i] = v})]
-----------------------------------------------------------------------------
(* binary_heap.cpp, d_ary_heap.cpp: rep is data_, from 1                     *)

Parent(i) == (i - 2) \div Arity + 1
Children(i, n) == (Arity * (i - 1) + 2 .. Arity * i + 1) \intersect (1 .. n)
Swapped(a, i, j) == [a EXCEPT ![i] = a[j], ![j] = a[i]]

RECURSIVE SiftUp(_, _), SiftDown(_, _, _)
SiftUp(a, i) ==
    IF i = 1 \/ a[i] >= a[Parent(i)] THEN a ELSE SiftUp(Swapped(a, i, Parent(i)), Parent(i))

\* Below i, among the first n items; the first of the least children.
SiftDown(a, i, n) ==
    LET kids == Children(i, n)
        best == CHOOSE c \in kids : \A d \in kids : a[c] < a[d] \/ (a[c] = a[d] /\ c <= d)
    IN  IF kids = {} \/ a[i] <= a[best] THEN a ELSE SiftDown(Swapped(a, i, best), best, n)

\* The constructor from a sequence.
Heapified(a) ==
    IF Len(a) <= 1 THEN a
    ELSE LET last == Parent(Len(a))
         IN  FoldLeft(LAMBDA h, k : SiftDown(h, last + 1 - k, Len(a)), a,
                      [k \in 1 .. last |-> k])

\* heapsort(): what the comparison puts first comes last.
Heapsorted(a) ==
    FoldLeft(LAMBDA h, k : SiftDown(Swapped(h, 1, Len(a) + 1 - k), 1, Len(a) - k),
             Heapified(a), [k \in 1 .. Len(a) - 1 |-> k])

\* Any sequence, to be sorted.
AnyArray(n) == rep' \in BoundedSeq(Priority, n)

BHInit == rep = << >> /\ content = NoItems

BHPush(v) ==
    /\ Len(rep) < MaxNodes
    /\ rep' = SiftUp(Append(rep, v), Len(rep) + 1)
    /\ content' = Added(content, v)

BHPop ==
    /\ rep # << >>
    /\ LET rest == Front([rep EXCEPT ![1] = Last(rep)])
       IN  rep' = IF rest = << >> THEN rest ELSE SiftDown(rest, 1, Len(rest))
    /\ content' = Taken(content, rep[1])

BHNext == BHPop \/ \E v \in Priority : BHPush(v)

BHSpec == BHInit /\ [][BHNext]_heapVars
-----------------------------------------------------------------------------
(* indexed_priority_queue.cpp: pq_ and qp_ are inverse to each other; items    *)
(* are the nodes, content their keys                                          *)

IPInit ==
    /\ rep = [n |-> 0, pq |-> [p \in Node |-> -1], qp |-> [i \in Node |-> -1],
              keys |-> [i \in Node |-> 0]]
    /\ content = [i \in {} |-> 0]

KeyAt(Q, p) == Q.keys[Q.pq[p]]

Exch(Q, a, b) ==
    [Q EXCEPT !.pq = Swapped(@, a, b), !.qp = [@ EXCEPT ![Q.pq[b]] = a, ![Q.pq[a]] = b]]

RECURSIVE Swim(_, _), Sink(_, _)
Swim(Q, k) ==
    IF k > 1 /\ KeyAt(Q, k \div 2) > KeyAt(Q, k) THEN Swim(Exch(Q, k, k \div 2), k \div 2) ELSE Q

Sink(Q, k) ==
    LET j == IF 2 * k < Q.n /\ KeyAt(Q, 2 * k) > KeyAt(Q, 2 * k + 1) THEN 2 * k + 1 ELSE 2 * k
    IN  IF 2 * k > Q.n \/ KeyAt(Q, k) <= KeyAt(Q, j) THEN Q ELSE Sink(Exch(Q, k, j), j)

IPInsert(i, v) ==
    /\ rep.qp[i] = -1
    /\ rep' = Swim([rep EXCEPT !.n = @ + 1, !.qp[i] = rep.n + 1, !.pq[rep.n + 1] = i,
                               !.keys[i] = v], rep.n + 1)
    /\ content' = [j \in DOMAIN content \union {i} |-> IF j = i THEN v ELSE content[j]]

\* The last position is given up; the key of an item that left is forgotten here.
Left(Q, i) == [Q EXCEPT !.qp[i] = -1, !.pq[Q.n + 1] = -1, !.keys[i] = 0]
Without(f, i) == [j \in DOMAIN f \ {i} |-> f[j]]

IPPop ==
    /\ rep.n > 0
    /\ LET i == rep.pq[1]
       IN  /\ rep' = Left(Sink([Exch(rep, 1, rep.n) EXCEPT !.n = @ - 1], 1), i)
           /\ content' = Without(content, i)

IPErase(i) ==
    /\ rep.qp[i] # -1
    /\ LET pos == rep.qp[i]
           Q == [Exch(rep, pos, rep.n) EXCEPT !.n = @ - 1]
       IN  rep' = Left(IF pos <= Q.n THEN Sink(Swim(Q, pos), pos) ELSE Q, i)
    /\ content' = Without(content, i)

\* decrease_key(), increase_key(), change_key(); an equal key is left where it is.
IPChange(i, v) ==
    /\ rep.qp[i] # -1
    /\ LET Q == [rep EXCEPT !.keys[i] = v]
       IN  rep' = IF v < rep.keys[i] THEN Swim(Q, Q.qp[i])
                  ELSE IF v > rep.keys[i] THEN Sink(Q, Q.qp[i]) ELSE Q
    /\ content' = [content EXCEPT ![i] = v]

IPNext ==
    IPPop \/ \E i \in Node : IPErase(i) \/ \E v \in Priority : IPInsert(i, v) \/ IPChange(i, v)

IPSpec == IPInit /\ [][IPNext]_heapVars
-----------------------------------------------------------------------------
(* pairing_heap.cpp: two heaps that can be melded; a heap is empty or a tree   *)
(* of a value and the trees of the children, the leftmost first                *)

PHInit == rep = <<<< >>, << >>>> /\ content = <<NoItems, NoItems>>

Tree(v, kids) == <<[val |-> v, kids |-> kids]>>

\* The one of higher priority, with the other as its leftmost child; the first if
\* they are equal.
Meld(a, b) ==
    IF a = << >> THEN b
    ELSE IF b = << >> THEN a
    ELSE IF b[1].val < a[1].val THEN Tree(b[1].val, a \o b[1].kids)
    ELSE Tree(a[1].val, b \o a[1].kids)

RECURSIVE Pairs(_)
Pairs(trees) ==
    IF Len(trees) <= 1 THEN IF trees = << >> THEN << >> ELSE <<trees>>
    ELSE <<Meld(<<trees[1]>>, <<trees[2]>>)>> \o Pairs(SubSeq(trees, 3, Len(trees)))

\* From left to right in pairs, then from right to left.
TwoPassMerge(trees) == FoldRight(LAMBDA pair, result : Meld(pair, result), Pairs(trees), << >>)

PHPush(h, v) ==
    /\ Count(content[1]) + Count(content[2]) < MaxNodes
    /\ rep' = [rep EXCEPT ![h] = Meld(@, Tree(v, << >>))]
    /\ content' = [content EXCEPT ![h] = Added(@, v)]

PHPop(h) ==
    /\ rep[h] # << >>
    /\ rep' = [rep EXCEPT ![h] = TwoPassMerge(@[1].kids)]
    /\ content' = [content EXCEPT ![h] = Taken(@, rep[h][1].val)]

\* The other heap is emptied.
PHMeld(h) ==
    /\ rep[3 - h] # << >>
    /\ rep' = [rep EXCEPT ![h] = Meld(@, rep[3 - h]), ![3 - h] = << >>]
    /\ content' = [content EXCEPT ![h] = [v \in Priority |-> @[v] + content[3 - h][v]],
                                  ![3 - h] = NoItems]

PHNext == \E h \in 1 .. 2 : PHPop(h) \/ PHMeld(h) \/ \E v \in Priority : PHPush(h, v)

PHSpec == PHInit /\ [][PHNext]_heapVars
-----------------------------------------------------------------------------
(* binomial_heaps.cpp: rep is the list of roots; the degree of a root is the    *)
(* number of its children, the first of them of the highest degree             *)

BNInit == rep = << >> /\ content = NoItems

Degree(t) == Len(t.kids)

\* link_trees(): y under z.
Linked(y, z) == [z EXCEPT !.kids = <<y>> \o @]

RECURSIVE MergeRoots(_, _), UnionFrom(_, _, _)
MergeRoots(h1, h2) ==
    IF h1 = << >> \/ h2 = << >> THEN h1 \o h2
    ELSE IF Degree(h1[1]) <= Degree(h2[1]) THEN <<h1[1]>> \o MergeRoots(Tail(h1), h2)
    ELSE <<h2[1]>> \o MergeRoots(h1, Tail(h2))

\* The roots passed, the current one and those after it.
UnionFrom(passed, curr, rest) ==
    IF rest = << >> THEN Append(passed, curr)
    ELSE IF \/ Degree(curr) # Degree(rest[1])
            \/ Len(rest) > 1 /\ Degree(rest[2]) = Degree(curr)
    THEN UnionFrom(Append(passed, curr), rest[1], Tail(rest))
    ELSE UnionFrom(passed, IF curr.val <= rest[1].val THEN Linked(rest[1], curr)
                           ELSE Linked(curr, rest[1]), Tail(rest))

UnionHeaps(h1, h2) ==
    LET merged == MergeRoots(h1, h2)
    IN  IF merged = << >> THEN << >> ELSE UnionFrom(<< >>, Head(merged), Tail(merged))

BNInsert(v) ==
    /\ Count(content) < MaxNodes
    /\ rep' = UnionHeaps(rep, Tree(v, << >>))
    /\ content' = Added(content, v)

\* The first of the least roots.
MinRoot ==
    CHOOSE i \in DOMAIN rep : \A j \in DOMAIN rep :
        rep[i].val < rep[j].val \/ (rep[i].val = rep[j].val /\ i <= j)

BNExtract ==
    /\ rep # << >>
    /\ rep' = UnionHeaps(RemoveAt(rep, MinRoot), Reverse(rep[MinRoot].kids))
    /\ content' = Taken(content, rep[MinRoot].val)

\* merge() with a heap into which the items of "others" were inserted.
BNMerge(others) ==
    /\ Count(content) + Len(others) <= MaxNodes
    /\ rep' = UnionHeaps(rep, FoldLeft(LAMBDA h, v : UnionHeaps(h, Tree(v, << >>)),
                                       << >>, others))
    /\ content' = [v \in Priority |-> content[v] + BagOf(others)[v]]

\* decrease_key() of the node that "path" leads to: the value moves up by swaps.
RECURSIVE Decreased(_, _, _), At(_, _)
At(trees, path) ==
    IF Len(path) = 1 THEN trees[path[1]].val ELSE At(trees[path[1]].kids, Tail(path))
Decreased(trees, path, v) ==
    IF Len(path) = 1 THEN [trees EXCEPT ![path[1]].val = v]
    ELSE LET t == trees[path[1]]
             kids == Decreased(t.kids, Tail(path), v)
             c == kids[path[2]]
         IN  [trees EXCEPT ![path[1]] =
                 IF c.val < t.val THEN [val |-> c.val, kids |-> [kids EXCEPT ![path[2]].val = t.val]]
                 ELSE [t EXCEPT !.kids = kids]]

RECURSIVE Paths(_)
Paths(trees) ==
    UNION {{<<i>>} \union {<<i>> \o p : p \in Paths(trees[i].kids)} : i \in DOMAIN trees}

BNDecrease(path, v) ==
    /\ v <= At(rep, path)
    /\ rep' = Decreased(rep, path, v)
    /\ content' = Added(Taken(content, At(rep, path)), v)

BNNext ==
    \/ BNExtract
    \/ \E v \in Priority : BNInsert(v) \/ \E path \in Paths(rep) : BNDecrease(path, v)
    \/ \E others \in [1 .. 3 -> Priority] : BNMerge(others)

BNSpec == BNInit /\ [][BNNext]_heapVars
-----------------------------------------------------------------------------
(* quickselect_and_median_of_medians.cpp: arrays count from 1, ranks from   *)
(* 0.  A random pivot is any; what a selection can end with is a set.       *)

\* The array and the place of the pivot, which was last.
LomutoPartition(a, left, right) ==
    LET pass == FoldLeft(LAMBDA s, j : IF s.a[j] < a[right]
                                       THEN [a |-> Swapped(s.a, s.i, j), i |-> s.i + 1] ELSE s,
                         [a |-> a, i |-> left], [n \in 1 .. right - left |-> left + n - 1])
    IN  [a |-> Swapped(pass.a, pass.i, right), place |-> pass.i]

RECURSIVE QuickselectLomuto(_, _, _, _), Flag(_, _, _, _, _), QuickselectThreeWay(_, _, _, _),
          MedianOfMedians(_, _)
QuickselectLomuto(a, left, right, k) ==
    UNION {LET P == LomutoPartition(Swapped(a, m, right), left, right)
           IN  IF P.place = k + 1 THEN {P.a[P.place]}
               ELSE IF k + 1 < P.place THEN QuickselectLomuto(P.a, left, P.place - 1, k)
               ELSE QuickselectLomuto(P.a, P.place + 1, right, k) : m \in left .. right}

\* Less than the pivot before lt, more after gt, the same up to i.
Flag(a, pivot, lt, i, gt) ==
    IF i > gt THEN [a |-> a, lt |-> lt, gt |-> gt]
    ELSE IF a[i] < pivot THEN Flag(Swapped(a, lt, i), pivot, lt + 1, i + 1, gt)
    ELSE IF a[i] > pivot THEN Flag(Swapped(a, i, gt), pivot, lt, i, gt - 1)
    ELSE Flag(a, pivot, lt, i + 1, gt)

\* The arrays in place, with the answer at rank k.
QuickselectThreeWay(a, left, right, k) ==
    UNION {LET F == Flag(a, a[m], left, left, right)
           IN  IF k + 1 < F.lt THEN QuickselectThreeWay(F.a, left, F.lt - 1, k)
               ELSE IF k + 1 > F.gt THEN QuickselectThreeWay(F.a, F.gt + 1, right, k)
               ELSE {F.a} : m \in left .. right}

InOrder(a) == SortSeq(a, LAMBDA x, y : x < y)

MedianOfMedians(a, rank) ==
    LET n == Len(a)
        group(g) == InOrder(SubSeq(a, 5 * g - 4, Min({5 * g, n})))
        medians == [g \in 1 .. (n + 4) \div 5 |-> group(g)[Len(group(g)) \div 2 + 1]]
        pivot == MedianOfMedians(medians, Len(medians) \div 2)
        lows == SelectSeq(a, LAMBDA x : x < pivot)
        highs == SelectSeq(a, LAMBDA x : x > pivot)
    IN  IF n <= 5 THEN InOrder(a)[rank + 1]
        ELSE IF rank < Len(lows) THEN MedianOfMedians(lows, rank)
        ELSE IF rank < n - Len(highs) THEN pivot
        ELSE MedianOfMedians(highs, rank - (n - Len(highs)))

TopKSmallest(a, k) ==
    IF k = 0 THEN {<< >>}
    ELSE IF k >= Len(a) THEN {a}
    ELSE {SubSeq(b, 1, k) : b \in QuickselectThreeWay(a, 1, Len(a), k - 1)}

\* A heap with the greatest on top that is kept at k + 1 items
HeapSelect(a, k) ==
    Last(FoldLeft(LAMBDA heap, x : LET grown == InOrder(Append(heap, x))
                                   IN  IF Len(grown) > k + 1 THEN Front(grown) ELSE grown,
                  << >>, a))
-----------------------------------------------------------------------------
(* median_maintenance.cpp: the two heaps as bags; in the sliding window some    *)
(* items are delayed, that is removed but still in a heap, and the valid ones   *)
(* are counted.  Without removals it is the first class of the file.            *)

MMInit ==
    /\ rep = [low |-> NoItems, high |-> NoItems, delayed |-> NoItems,
              lowValid |-> 0, highValid |-> 0]
    /\ content = NoItems

TopLow(M) == Max(Items(M.low))
TopHigh(M) == Min(Items(M.high))

RECURSIVE PruneLow(_), PruneHigh(_)
PruneLow(M) ==
    IF Items(M.low) = {} \/ M.delayed[TopLow(M)] = 0 THEN M
    ELSE PruneLow([M EXCEPT !.delayed = Taken(@, TopLow(M)), !.low = Taken(@, TopLow(M))])
PruneHigh(M) ==
    IF Items(M.high) = {} \/ M.delayed[TopHigh(M)] = 0 THEN M
    ELSE PruneHigh([M EXCEPT !.delayed = Taken(@, TopHigh(M)), !.high = Taken(@, TopHigh(M))])

Rebalanced(M) ==
    IF M.lowValid > M.highValid + 1
    THEN PruneLow([M EXCEPT !.high = Added(@, TopLow(M)), !.low = Taken(@, TopLow(M)),
                            !.lowValid = @ - 1, !.highValid = @ + 1])
    ELSE IF M.highValid > M.lowValid
    THEN PruneHigh([M EXCEPT !.low = Added(@, TopHigh(M)), !.high = Taken(@, TopHigh(M)),
                             !.highValid = @ - 1, !.lowValid = @ + 1])
    ELSE M

MMAdd(x) ==
    /\ Count(rep.low) + Count(rep.high) < MaxNodes
    /\ rep' = Rebalanced(IF Items(rep.low) = {} \/ x <= TopLow(rep)
                         THEN [rep EXCEPT !.low = Added(@, x), !.lowValid = @ + 1]
                         ELSE [rep EXCEPT !.high = Added(@, x), !.highValid = @ + 1])
    /\ content' = Added(content, x)

\* Of something that is in the window.
MMRemove(x) ==
    /\ content[x] > 0
    /\ LET M == [rep EXCEPT !.delayed = Added(@, x)]
           inLow == Items(M.low) # {} /\ x <= TopLow(M)
           L == [M EXCEPT !.lowValid = @ - 1]
           H == [M EXCEPT !.highValid = @ - 1]
       IN  rep' = Rebalanced(IF inLow THEN IF x = TopLow(M) THEN PruneLow(L) ELSE L
                             ELSE IF Items(M.high) # {} /\ x = TopHigh(M) THEN PruneHigh(H) ELSE H)
    /\ content' = Taken(content, x)

MMNext == \E x \in Priority : MMAdd(x) \/ MMRemove(x)

MMSpec == MMInit /\ [][MMNext]_heapVars

\* find_median(), twice the value
Median ==
    LET M == PruneHigh(PruneLow(rep))
    IN  IF M.lowValid > M.highValid THEN 2 * TopLow(M) ELSE TopLow(M) + TopHigh(M)
-----------------------------------------------------------------------------
(* Properties                                                               *)

RECURSIVE Below(_), Fib(_)
Below(n) == {n} \union UNION {Below(k) : k \in Range(rep.kids[n])}
Fib(i) == IF i <= 2 THEN 1 ELSE Fib(i - 1) + Fib(i - 2)

\* The forest holds the values put in, each node once, with the parents and
\* degrees its lists say, in heap order, with the least at min_.  A node of
\* degree d has at least Fib(d + 2) nodes below and with it: the marks have
\* stopped every node from losing two children, from which the logarithmic
\* bound of pop() follows.
FibonacciSound ==
    /\ UNION {Below(r) : r \in Range(rep.roots)} = DOMAIN content
    /\ Len(rep.roots) + MapThenSumSet(LAMBDA n : Len(rep.kids[n]), DOMAIN content)
           = Cardinality(DOMAIN content)
    /\ \A r \in Range(rep.roots) : rep.parent[r] = NIL /\ rep.val[rep.roots[1]] <= rep.val[r]
    /\ \A n \in DOMAIN content :
        /\ rep.val[n] = content[n]
        /\ rep.degree[n] = Len(rep.kids[n])
        /\ \A k \in Range(rep.kids[n]) : rep.parent[k] = n /\ rep.val[n] <= rep.val[k]
        /\ Cardinality(Below(n)) >= Fib(rep.degree[n] + 2)

\* Every parent comes before its children, and nothing is lost.
ArrayHeapSound ==
    /\ \A i \in 2 .. Len(rep) : rep[Parent(i)] <= rep[i]
    /\ BagOf(rep) = content

\* The constructor makes a heap of any sequence, and heapsort() sorts it.
SortsExactly ==
    LET h == Heapified(rep)
        a == Heapsorted(rep)
    IN  /\ \A i \in 2 .. Len(h) : h[Parent(i)] <= h[i]
        /\ BagOf(h) = BagOf(rep) /\ BagOf(a) = BagOf(rep)
        /\ \A i \in 2 .. Len(a) : a[i] <= a[i - 1]

\* The two maps are inverse to each other whatever was inserted, erased and
\* changed, the keys are those of the user, and the positions are in heap order.
IndexedSound ==
    /\ rep.n = Cardinality(DOMAIN content)
    /\ \A i \in Node : rep.qp[i] # -1 <=> i \in DOMAIN content
    /\ \A i \in DOMAIN content : rep.pq[rep.qp[i]] = i /\ rep.keys[i] = content[i]
    /\ \A p \in 1 .. rep.n : rep.qp[rep.pq[p]] = p
    /\ \A p \in 2 .. rep.n : KeyAt(rep, p \div 2) <= KeyAt(rep, p)

RECURSIVE TreeItems(_), HeapOrdered(_), IsBinomial(_)
TreeItems(trees) ==
    FoldLeft(LAMBDA seq, t : seq \o <<t.val>> \o TreeItems(t.kids), << >>, trees)
HeapOrdered(trees) ==
    \A t \in ToSet(trees) : /\ \A c \in ToSet(t.kids) : t.val <= c.val
                            /\ HeapOrdered(t.kids)
IsBinomial(t) ==
    \A i \in DOMAIN t.kids : Degree(t.kids[i]) = Len(t.kids) - i /\ IsBinomial(t.kids[i])

PairingSound ==
    \A h \in 1 .. 2 : HeapOrdered(rep[h]) /\ BagOf(TreeItems(rep[h])) = content[h]

\* The roots have the degrees of the binary digits of the size.
BinomialSound ==
    /\ HeapOrdered(rep) /\ BagOf(TreeItems(rep)) = content
    /\ \A t \in ToSet(rep) : IsBinomial(t)
    /\ \A i \in 2 .. Len(rep) : Degree(rep[i - 1]) < Degree(rep[i])

Sorted(bag) ==
    LET upTo(v) == Cardinality({u \in Priority \X (1 .. MaxNodes) : u[1] <= v /\ u[2] <= bag[u[1]]})
    IN  [i \in 1 .. Count(bag) |-> Min({v \in Priority : upTo(v) >= i})]

\* The tops are never delayed items, each heap has as many valid items as it
\* counts, and the median is that of the window.
MedianExact ==
    LET s == Sorted(content)
        n == Len(s)
    IN  /\ Items(rep.low) # {} => rep.delayed[TopLow(rep)] = 0
        /\ Items(rep.high) # {} => rep.delayed[TopHigh(rep)] = 0
        /\ rep.lowValid + rep.highValid = n
        /\ rep.lowValid - rep.highValid \in 0 .. 1
        /\ n > 0 => Median = s[(n + 1) \div 2] + s[n \div 2 + 1]
\* Whatever the pivots, a selection ends with the item of the rank asked for, and the
\* smallest k are the k smallest.
SelectsRank ==
    \A k \in 0 .. Len(rep) - 1 :
        /\ QuickselectLomuto(rep, 1, Len(rep), k) = {InOrder(rep)[k + 1]}
        /\ {a[k + 1] : a \in QuickselectThreeWay(rep, 1, Len(rep), k)} = {InOrder(rep)[k + 1]}
        /\ \A top \in TopKSmallest(rep, k) : InOrder(top) = SubSeq(InOrder(rep), 1, k)

\* The median of medians as pivot finds every rank, as the bounded heap does.
RanksWithoutChance ==
    \A k \in 0 .. Len(rep) - 1 :
        MedianOfMedians(rep, k) = InOrder(rep)[k + 1] /\ HeapSelect(rep, k) = InOrder(rep)[k + 1]
=============================================================================
