----------------------------- MODULE IntegerSets -----------------------------
(***************************************************************************)
(* Ordered sets of machine integers: van_emde_boas_trees.cpp,              *)
(* x_fast_and_y_fast_tries.cpp and the B-tree of fusion_trees.cpp.  All     *)
(* answer the same questions; rep is what one of them keeps in memory,     *)
(* content the set that the calls have built.                              *)
(***************************************************************************)
EXTENDS Integers, SequencesExt, FiniteSetsExt, TLC

CONSTANTS Bits,         \* the universe is 0 .. 2^Bits - 1 (32 or 64 bits in the code)
          MaxLeaves,    \* of a cluster of the y-fast trie (2 * W in the code)
          MinLeaves,    \* (W / 2 in the code)
          T,            \* minimum degree of the B-tree (4 in the code)
          Keys,         \* bound: the integers inserted and erased
          MaxKeys       \* bound: elements of the set

VARIABLES rep, content

intVars == <<rep, content>>

Universe == 0 .. 2 ^ Bits - 1
None == -1      \* no answer

Inserted(x) == content' = content \union {x} /\ Cardinality(content') <= MaxKeys
Erased(x) == content' = content \ {x}
-----------------------------------------------------------------------------
(* VanEmdeBoasTree: the least element is kept outside the clusters, and the *)
(* summary holds the clusters that are not empty                            *)

Upper(bits) == (bits + 1) \div 2
Lower(bits) == bits \div 2
High(V, x) == x \div 2 ^ Lower(V.bits)
Low(V, x) == x % 2 ^ Lower(V.bits)
IndexOf(V, c, i) == c * 2 ^ Lower(V.bits) + i

RECURSIVE VEBNew(_)
VEBNew(bits) ==
    IF bits = 1 THEN [bits |-> 1, empty |-> TRUE, min |-> 0, max |-> 0]
    ELSE [bits |-> bits, empty |-> TRUE, min |-> 0, max |-> 0,
          summary |-> VEBNew(Upper(bits)),
          clusters |-> [c \in 0 .. 2 ^ Upper(bits) - 1 |-> VEBNew(Lower(bits))]]

RECURSIVE VEBContains(_, _), VEBInsert(_, _), VEBSuccessor(_, _), VEBPredecessor(_, _), VEBErase(_, _)
VEBContains(V, x) ==
    /\ ~V.empty /\ x \in V.min .. V.max
    /\ \/ x \in {V.min, V.max}
       \/ V.bits > 1 /\ VEBContains(V.clusters[High(V, x)], Low(V, x))

VEBInsert(V, x0) ==
    LET x == IF x0 < V.min THEN V.min ELSE x0       \* swapped with the least
        c == High(V, x)
        V1 == [V EXCEPT !.min = IF x0 < @ THEN x0 ELSE @]
        V2 == IF V.bits = 1 THEN V1
              ELSE [V1 EXCEPT !.summary = IF V.clusters[c].empty THEN VEBInsert(@, c) ELSE @,
                              !.clusters[c] = VEBInsert(@, Low(V, x))]
    IN  IF V.empty THEN [V EXCEPT !.empty = FALSE, !.min = x0, !.max = x0]
        ELSE IF x0 \in {V.min, V.max} THEN V
        ELSE [V2 EXCEPT !.max = IF x > @ THEN x ELSE @]

VEBSuccessor(V, x) ==
    IF V.empty THEN None
    ELSE IF V.bits = 1 THEN IF x = 0 /\ V.max = 1 THEN V.max ELSE None
    ELSE IF x < V.min THEN V.min
    ELSE LET c == High(V, x)
             own == V.clusters[c]
             within == IF ~own.empty /\ Low(V, x) < own.max THEN VEBSuccessor(own, Low(V, x))
                       ELSE None
             next == VEBSuccessor(V.summary, c)
         IN  IF within # None THEN IndexOf(V, c, within)
             ELSE IF next = None THEN None
             ELSE IndexOf(V, next, V.clusters[next].min)

VEBPredecessor(V, x) ==
    IF V.empty THEN None
    ELSE IF V.bits = 1 THEN IF x = 1 /\ V.min = 0 THEN V.min ELSE None
    ELSE IF x > V.max THEN V.max
    ELSE LET c == High(V, x)
             own == V.clusters[c]
             within == IF ~own.empty /\ Low(V, x) > own.min THEN VEBPredecessor(own, Low(V, x))
                       ELSE None
             previous == VEBPredecessor(V.summary, c)
         IN  IF within # None THEN IndexOf(V, c, within)
             ELSE IF previous # None THEN IndexOf(V, previous, V.clusters[previous].max)
             ELSE IF x > V.min THEN V.min ELSE None

VEBErase(V, x0) ==
    LET first == V.summary.min
        \* the least of the clusters takes the place of the least
        x == IF x0 = V.min THEN IndexOf(V, first, V.clusters[first].min) ELSE x0
        c == High(V, x)
        smaller == VEBErase(V.clusters[c], Low(V, x))
        V2 == [V EXCEPT !.min = IF x0 = @ THEN x ELSE @, !.clusters[c] = smaller,
                        !.summary = IF smaller.empty THEN VEBErase(@, c) ELSE @]
        last == V2.summary.max
    IN  IF V.empty \/ x0 \notin V.min .. V.max THEN V
        ELSE IF V.min = V.max THEN [V EXCEPT !.empty = TRUE, !.min = 0, !.max = 0]
        ELSE IF V.bits = 1 THEN [V EXCEPT !.min = 1 - x0, !.max = 1 - x0]
        ELSE IF x # V.max THEN V2
        ELSE IF ~smaller.empty THEN [V2 EXCEPT !.max = IndexOf(V, c, smaller.max)]
        ELSE IF V2.summary.empty THEN [V2 EXCEPT !.max = V2.min]
        ELSE [V2 EXCEPT !.max = IndexOf(V, last, V2.clusters[last].max)]

VEBInit == rep = VEBNew(Bits) /\ content = {}

VEBNext ==
    \E x \in Keys : \/ rep' = VEBInsert(rep, x) /\ Inserted(x)
                    \/ rep' = VEBErase(rep, x) /\ Erased(x)

\* The elements above and below, strictly
Above(x) == {y \in content : y > x}
Below(x) == {y \in content : y < x}
LeastOf(S) == IF S = {} THEN None ELSE Min(S)
GreatestOf(S) == IF S = {} THEN None ELSE Max(S)

\* Membership, least and greatest, and the neighbours of every integer, in the
\* set or not, after any insertions and deletions, of absent elements too.
VEBExact ==
    /\ (IF rep.empty THEN None ELSE rep.min) = LeastOf(content)
    /\ (IF rep.empty THEN None ELSE rep.max) = GreatestOf(content)
    /\ \A x \in Universe :
        /\ VEBContains(rep, x) <=> x \in content
        /\ VEBSuccessor(rep, x) = LeastOf(Above(x))
        /\ VEBPredecessor(rep, x) = GreatestOf(Below(x))
-----------------------------------------------------------------------------
(* CacheObliviousSearchTree: a complete tree in the recursive order of       *)
(* blocks.  Nodes count from 1, positions in memory from 1.                 *)

\* Flattening the bottom trees after the top tree
RECURSIVE VEBLayout(_, _)
VEBLayout(root, h) ==
    LET top == h \div 2
    IN  IF h = 1 THEN <<root>>
        ELSE FoldLeft(LAMBDA s, i : s \o VEBLayout(root * 2 ^ top + i - 1, h - top),
                      VEBLayout(root, top), [i \in 1 .. 2 ^ top |-> i])

RECURSIVE InorderNodes(_, _)
InorderNodes(u, n) ==
    IF u > n THEN << >> ELSE InorderNodes(2 * u, n) \o <<u>> \o InorderNodes(2 * u + 1, n)

PositionIn(s, x) == CHOOSE i \in DOMAIN s : s[i] = x

\* layout[p] is the key at position p: node order[p] holds the key of its turn.
Layout(h, keys) ==
    LET order == VEBLayout(1, h)
        turns == InorderNodes(1, 2 ^ h - 1)
    IN  [p \in DOMAIN order |-> keys[PositionIn(turns, order[p])]]

RECURSIVE LayoutSearch(_, _, _, _)
LayoutSearch(h, layout, key, u) ==
    /\ u <= 2 ^ h - 1
    /\ LET val == layout[PositionIn(VEBLayout(1, h), u)]
       IN  \/ key = val
           \/ key < val /\ LayoutSearch(h, layout, key, 2 * u)
           \/ key > val /\ LayoutSearch(h, layout, key, 2 * u + 1)

\* Every node has one place, the places are all used, and a search finds the keys
\* and no other.
LayoutExact(h) ==
    LET n == 2 ^ h - 1
        order == VEBLayout(1, h)
        layout == Layout(h, [i \in 1 .. n |-> 2 * i])
    IN  /\ Len(order) = n /\ ToSet(order) = 1 .. n
        /\ \A key \in 1 .. 2 * n + 1 : LayoutSearch(h, layout, key, 1) <=> key % 2 = 0
-----------------------------------------------------------------------------
(* XFastTrie: a node for every prefix <<depth, prefix>> of an element, in a  *)
(* table per depth; leaves in a list; a node knows the least and greatest   *)
(* leaf below it                                                            *)

Prefix(x, d) == <<d, x \div 2 ^ (Bits - d)>>
Bit(x, d) == (x \div 2 ^ (Bits - d)) % 2        \* the bit below depth d - 1
NoChild == << >>
Root == <<0, 0>>

XNew == [node |-> Root :> [left |-> NoChild, right |-> NoChild, min |-> None, max |-> None],
         next |-> << >>, prev |-> << >>, first |-> None, last |-> None]

XContains(X, x) == x \in DOMAIN X.next

\* The list: next and prev of the leaves, None at its ends
Linked(X, x) ==
    LET before == GreatestOf({y \in DOMAIN X.next : y < x})
        after == IF before = None THEN X.first ELSE X.next[before]
    IN  [X EXCEPT !.next = [y \in DOMAIN @ \union {x} |->
                                IF y = x THEN after ELSE IF y = before THEN x ELSE @[y]],
                  !.prev = [y \in DOMAIN @ \union {x} |->
                                IF y = x THEN before ELSE IF y = after THEN x ELSE @[y]],
                  !.first = IF before = None THEN x ELSE @,
                  !.last = IF after = None THEN x ELSE @]

Unlinked(X, x) ==
    LET before == X.prev[x]
        after == X.next[x]
    IN  [X EXCEPT !.next = [y \in DOMAIN @ \ {x} |-> IF y = before THEN after ELSE @[y]],
                  !.prev = [y \in DOMAIN @ \ {x} |-> IF y = after THEN before ELSE @[y]],
                  !.first = IF before = None THEN after ELSE @,
                  !.last = IF after = None THEN before ELSE @]

\* desc_min and desc_max of a node from its children, the left or else the right
LowestBelow(N, u) ==
    IF u.left # NoChild THEN N[u.left].min ELSE IF u.right # NoChild THEN N[u.right].min ELSE None
HighestBelow(N, u) ==
    IF u.right # NoChild THEN N[u.right].max ELSE IF u.left # NoChild THEN N[u.left].max ELSE None

WithChild(u, bit, child) == IF bit = 0 THEN [u EXCEPT !.left = child] ELSE [u EXCEPT !.right = child]
Described(N, p) == [N EXCEPT ![p].min = LowestBelow(N, N[p]), ![p].max = HighestBelow(N, N[p])]

XInsert(X, x) ==
    LET leaf == [left |-> NoChild, right |-> NoChild, min |-> x, max |-> x]
        path == {Prefix(x, d) : d \in 1 .. Bits - 1}
        fresh == (Prefix(x, Bits) :> leaf) @@ X.node
                 @@ [p \in path |-> [leaf EXCEPT !.min = None, !.max = None]]
        children == FoldLeft(LAMBDA N, d : [N EXCEPT ![Prefix(x, d - 1)] =
                                                WithChild(@, Bit(x, d), Prefix(x, d))],
                             fresh, [d \in 1 .. Bits |-> d])
    IN  IF XContains(X, x) THEN X
        ELSE [Linked(X, x) EXCEPT !.node =
                FoldLeft(LAMBDA N, i : Described(N, Prefix(x, Bits - i)),
                         children, [i \in 1 .. Bits |-> i])]

\* Upwards: a child that was deleted is cut off, a node without children is deleted
XErase(X, x) ==
    LET Step(S, i) ==
            LET d == Bits - i
                p == Prefix(x, d)
                u == IF S.deleted THEN WithChild(S.node[p], Bit(x, d + 1), NoChild) ELSE S.node[p]
            IN  IF d > 0 /\ u.left = NoChild /\ u.right = NoChild
                THEN [node |-> [q \in DOMAIN S.node \ {p} |-> S.node[q]], deleted |-> TRUE]
                ELSE [node |-> Described([S.node EXCEPT ![p] = u], p), deleted |-> FALSE]
        leafless == [q \in DOMAIN X.node \ {Prefix(x, Bits)} |-> X.node[q]]
    IN  IF ~XContains(X, x) THEN X
        ELSE [Unlinked(X, x) EXCEPT !.node =
                FoldLeft(Step, [node |-> leafless, deleted |-> TRUE], [i \in 1 .. Bits |-> i]).node]

\* The depth of the longest prefix that is in the tables, by halving
RECURSIVE LcpDepth(_, _, _, _, _)
LcpDepth(X, x, low, high, lcp) ==
    LET mid == low + (high - low) \div 2
    IN  IF low > high THEN lcp
        ELSE IF Prefix(x, mid) \in DOMAIN X.node THEN LcpDepth(X, x, mid + 1, high, mid)
        ELSE LcpDepth(X, x, low, mid - 1, lcp)

\* The leaf next to where x would be
Candidate(X, x) ==
    LET lcp == LcpDepth(X, x, 0, Bits, 0)
        u == X.node[Prefix(x, lcp)]
    IN  IF Bit(x, lcp + 1) = 0 THEN u.min ELSE u.max

XPredecessor(X, x) ==
    IF X.first = None THEN None
    ELSE IF XContains(X, x) THEN x
    ELSE LET c == Candidate(X, x)
         IN  IF c > x THEN X.prev[c] ELSE c

XSuccessor(X, x) ==
    IF X.first = None THEN None
    ELSE IF XContains(X, x) THEN x
    ELSE LET c == Candidate(X, x)
         IN  IF c < x THEN X.next[c] ELSE c

XInit == rep = XNew /\ content = {}

XNext ==
    \E x \in Keys : \/ rep' = XInsert(rep, x) /\ Inserted(x)
                    \/ rep' = XErase(rep, x) /\ Erased(x)

\* At or above, at or below
AtOrAbove(x) == {y \in content : y >= x}
AtOrBelow(x) == {y \in content : y <= x}

\* Membership and the neighbours of every integer; the nodes are the prefixes of
\* the elements and know what is below them.
XFastExact ==
    /\ DOMAIN rep.next = content
    /\ DOMAIN rep.node = {Root} \union {Prefix(y, d) : y \in content, d \in 1 .. Bits}
    /\ \A p \in DOMAIN rep.node :
        LET below == {y \in content : Prefix(y, p[1]) = p}
        IN  rep.node[p].min = LeastOf(below) /\ rep.node[p].max = GreatestOf(below)
    /\ \A x \in Universe :
        /\ XSuccessor(rep, x) = LeastOf(AtOrAbove(x))
        /\ XPredecessor(rep, x) = GreatestOf(AtOrBelow(x))
-----------------------------------------------------------------------------
(* YFastTrie: clusters of elements in a list, found by their greatest, the   *)
(* representatives, which an x-fast trie holds                              *)

YNew == [trie |-> XNew, cluster |-> << >>, list |-> << >>, tree |-> << >>, rep |-> << >>]
YEmpty(Y) == Y.list = << >>

\* What rep_to_cluster_ says of the next representative, or the tail
FindCluster(Y, x) ==
    LET r == XSuccessor(Y.trie, x)
    IN  IF r # None THEN Y.cluster[r] ELSE Last(Y.list)

YContains(Y, x) == ~YEmpty(Y) /\ x \in Y.tree[FindCluster(Y, x)]

Without(f, x) == [y \in DOMAIN f \ {x} |-> f[y]]
With(f, x, v) == [y \in DOMAIN f \union {x} |-> IF y = x THEN v ELSE f[y]]

\* A cluster's representative changes to the greatest of its tree.
Represented(Y, c) ==
    LET m == Max(Y.tree[c])
    IN  [Y EXCEPT !.cluster = With(Without(@, Y.rep[c]), m, c),
                  !.trie = XInsert(XErase(@, Y.rep[c]), m),
                  !.rep[c] = m]

Refreshed(Y, c) == IF Max(Y.tree[c]) # Y.rep[c] THEN Represented(Y, c) ELSE Y

\* Clusters are named by numbers that are not in use.
NewCluster(Y) == Min((1 .. Len(Y.list) + 1) \ ToSet(Y.list))

\* n is put after c in the list and gets the greater half of its elements.
Moved(Y, c, n, moved) ==
    [Y EXCEPT !.list = InsertAt(@, PositionIn(Y.list, c) + 1, n),
              !.tree = With([@ EXCEPT ![c] = @ \ moved], n, moved)]

SplitCluster(Y, c) ==
    LET n == NewCluster(Y)
        half == Cardinality(Y.tree[c]) \div 2
        moved == {x \in Y.tree[c] : Cardinality({y \in Y.tree[c] : y < x}) >= half}
        most == Max(moved)
    IN  [Represented(Moved(Y, c, n, moved), c) EXCEPT
            !.rep = With(@, n, most),
            !.trie = XInsert(@, most),
            !.cluster = With(@, most, n)]
SplitIfFull(Y, c) == IF Cardinality(Y.tree[c]) > MaxLeaves THEN SplitCluster(Y, c) ELSE Y

InsertInto(Y, x, c) ==
    IF x \in Y.tree[c] THEN Y
    ELSE SplitIfFull(Refreshed([Y EXCEPT !.tree[c] = @ \union {x}], c), c)
YInsert(Y, x) ==
    IF YEmpty(Y)
    THEN [trie |-> XInsert(Y.trie, x), cluster |-> x :> 1, list |-> <<1>>,
          tree |-> 1 :> {x}, rep |-> 1 :> x]
    ELSE InsertInto(Y, x, FindCluster(Y, x))

Dropped(Y, c) ==
    [trie |-> XErase(Y.trie, Y.rep[c]), cluster |-> Without(Y.cluster, Y.rep[c]),
     list |-> SelectSeq(Y.list, LAMBDA n : n # c),
     tree |-> Without(Y.tree, c), rep |-> Without(Y.rep, c)]

\* A small cluster takes the elements of the next one, if both fit into one.
Merged(Y, c) ==
    LET place == PositionIn(Y.list, c)
        n == Y.list[place + 1]
    IN  IF \/ Cardinality(Y.tree[c]) >= MinLeaves
           \/ place = Len(Y.list)
           \/ Cardinality(Y.tree[c]) + Cardinality(Y.tree[n]) > MaxLeaves
        THEN Y
        ELSE Refreshed([Dropped(Y, n) EXCEPT !.tree[c] = @ \union Y.tree[n]], c)

EraseFrom(Y, x, c) ==
    IF Y.tree[c] = {x} THEN Dropped(Y, c)
    ELSE Merged(Refreshed([Y EXCEPT !.tree[c] = @ \ {x}], c), c)
YErase(Y, x) == IF YContains(Y, x) THEN EraseFrom(Y, x, FindCluster(Y, x)) ELSE Y

Neighbour(Y, c, step) ==
    LET place == PositionIn(Y.list, c) + step
    IN  IF place \in DOMAIN Y.list THEN Y.tree[Y.list[place]] ELSE {}

YPredecessor(Y, x) ==
    IF YEmpty(Y) THEN None
    ELSE LET c == FindCluster(Y, x)
             own == {y \in Y.tree[c] : y <= x}
         IN  GreatestOf(IF own # {} THEN own ELSE Neighbour(Y, c, -1))

YSuccessor(Y, x) ==
    IF YEmpty(Y) THEN None
    ELSE LET c == FindCluster(Y, x)
             own == {y \in Y.tree[c] : y >= x}
         IN  LeastOf(IF own # {} THEN own ELSE Neighbour(Y, c, 1))

YInit == rep = YNew /\ content = {}

YNext ==
    \E x \in Keys : \/ rep' = YInsert(rep, x) /\ Inserted(x)
                    \/ rep' = YErase(rep, x) /\ Erased(x)

\* Neighbours, whichever cluster holds them; the representatives in the trie, in
\* the table and in the clusters are the same, and the sizes within their bounds.
YFastExact ==
    /\ DOMAIN rep.trie.next = DOMAIN rep.cluster
    /\ \A c \in ToSet(rep.list) : /\ rep.rep[c] = Max(rep.tree[c])
                                  /\ rep.cluster[rep.rep[c]] = c
                                  /\ Cardinality(rep.tree[c]) <= MaxLeaves
    /\ DOMAIN rep.cluster = {rep.rep[c] : c \in ToSet(rep.list)}
    /\ \A x \in Universe :
        /\ YContains(rep, x) <=> x \in content
        /\ YSuccessor(rep, x) = LeastOf(AtOrAbove(x))
        /\ YPredecessor(rep, x) = GreatestOf(AtOrBelow(x))
-----------------------------------------------------------------------------
(* FusionTree: a B-tree of keys; nodes are split on the way down to an       *)
(* insertion, filled on the way down to a deletion                          *)

Leaf(keys) == [keys |-> keys, children |-> << >>]
IsLeaf(n) == n.children = << >>
FullNode(n) == Len(n.keys) = 2 * T - 1

\* The number of keys less than x; children count from 1
FindKey(n, x) == Cardinality({i \in DOMAIN n.keys : n.keys[i] < x})
Holds(n, x) == FindKey(n, x) < Len(n.keys) /\ n.keys[FindKey(n, x) + 1] = x

RECURSIVE FusionContains(_, _)
FusionContains(n, x) ==
    Holds(n, x) \/ (~IsLeaf(n) /\ FusionContains(n.children[FindKey(n, x) + 1], x))

\* The child at place i and the key above it are split.
SplitChild(n, i) ==
    LET full == n.children[i]
        left == [keys |-> SubSeq(full.keys, 1, T - 1),
                 children |-> SubSeq(full.children, 1, IF IsLeaf(full) THEN 0 ELSE T)]
        right == [keys |-> SubSeq(full.keys, T + 1, 2 * T - 1),
                  children |-> SubSeq(full.children, T + 1, Len(full.children))]
    IN  [keys |-> InsertAt(n.keys, i, full.keys[T]),
         children |-> InsertAt([n.children EXCEPT ![i] = left], i + 1, right)]

RECURSIVE InsertNonFull(_, _)
InsertNonFull(n, x) ==
    LET i == FindKey(n, x) + 1
        split == SplitChild(n, i)
        j == IF split.keys[i] < x THEN i + 1 ELSE i
    IN  IF IsLeaf(n) THEN Leaf(InsertAt(n.keys, i, x))
        ELSE IF FullNode(n.children[i]) THEN [split EXCEPT !.children[j] = InsertNonFull(@, x)]
        ELSE [n EXCEPT !.children[i] = InsertNonFull(@, x)]

FusionInsert(root, x) ==
    IF FusionContains(root, x) THEN root
    ELSE IF FullNode(root) THEN InsertNonFull(SplitChild([keys |-> << >>, children |-> <<root>>], 1), x)
    ELSE InsertNonFull(root, x)

\* The child at place i is given a key of its left or right sibling, through the
\* node, or is joined with the right one.
BorrowFromPrev(n, i) ==
    LET child == n.children[i]
        sibling == n.children[i - 1]
    IN  [keys |-> [n.keys EXCEPT ![i - 1] = Last(sibling.keys)],
         children |-> [n.children EXCEPT
             ![i] = [keys |-> <<n.keys[i - 1]>> \o child.keys,
                     children |-> IF IsLeaf(child) THEN << >>
                                  ELSE <<Last(sibling.children)>> \o child.children],
             ![i - 1] = [keys |-> Front(sibling.keys),
                         children |-> IF IsLeaf(child) THEN << >> ELSE Front(sibling.children)]]]

BorrowFromNext(n, i) ==
    LET child == n.children[i]
        sibling == n.children[i + 1]
    IN  [keys |-> [n.keys EXCEPT ![i] = sibling.keys[1]],
         children |-> [n.children EXCEPT
             ![i] = [keys |-> Append(child.keys, n.keys[i]),
                     children |-> IF IsLeaf(child) THEN << >>
                                  ELSE Append(child.children, sibling.children[1])],
             ![i + 1] = [keys |-> Tail(sibling.keys),
                         children |-> IF IsLeaf(child) THEN << >> ELSE Tail(sibling.children)]]]

Merge(n, i) ==
    [keys |-> RemoveAt(n.keys, i),
     children |-> RemoveAt([n.children EXCEPT
         ![i] = [keys |-> @.keys \o <<n.keys[i]>> \o n.children[i + 1].keys,
                 children |-> @.children \o n.children[i + 1].children]], i + 1)]

\* Fewer than T keys: one more than the least
Poor(n) == Len(n.keys) < T

FillChild(n, i) ==
    IF i # 1 /\ ~Poor(n.children[i - 1]) THEN BorrowFromPrev(n, i)
    ELSE IF i <= Len(n.keys) /\ ~Poor(n.children[i + 1]) THEN BorrowFromNext(n, i)
    ELSE Merge(n, IF i <= Len(n.keys) THEN i ELSE i - 1)

RECURSIVE LastKey(_), FirstKey(_), RemoveKey(_, _)
LastKey(n) == IF IsLeaf(n) THEN Last(n.keys) ELSE LastKey(Last(n.children))
FirstKey(n) == IF IsLeaf(n) THEN n.keys[1] ELSE FirstKey(n.children[1])

RemoveFromNonLeaf(n, i) ==
    LET pred == LastKey(n.children[i])
        succ == FirstKey(n.children[i + 1])
    IN  IF ~Poor(n.children[i])
        THEN [n EXCEPT !.keys[i] = pred, !.children[i] = RemoveKey(@, pred)]
        ELSE IF ~Poor(n.children[i + 1])
        THEN [n EXCEPT !.keys[i] = succ, !.children[i + 1] = RemoveKey(@, succ)]
        ELSE [Merge(n, i) EXCEPT !.children[i] = RemoveKey(@, n.keys[i])]

RemoveKey(n, x) ==
    LET i == FindKey(n, x) + 1
        n1 == IF Poor(n.children[i]) THEN FillChild(n, i) ELSE n
        \* the last child may have been joined with the one before
        j == IF i = Len(n.keys) + 1 /\ i > Len(n1.keys) + 1 THEN i - 1 ELSE i
    IN  IF Holds(n, x)
        THEN IF IsLeaf(n) THEN Leaf(RemoveAt(n.keys, i)) ELSE RemoveFromNonLeaf(n, i)
        ELSE IF IsLeaf(n) THEN n
        ELSE [n1 EXCEPT !.children[j] = RemoveKey(@, x)]

FusionErase(root, x) ==
    LET r == RemoveKey(root, x)
    IN  IF ~FusionContains(root, x) THEN root
        ELSE IF r.keys = << >> /\ ~IsLeaf(r) THEN r.children[1] ELSE r

RECURSIVE FusionPredecessor(_, _, _), FusionSuccessor(_, _, _)
FusionPredecessor(n, x, best) ==
    LET i == FindKey(n, x)
        better == IF i > 0 THEN n.keys[i] ELSE best
    IN  IF Holds(n, x) THEN x
        ELSE IF IsLeaf(n) THEN better ELSE FusionPredecessor(n.children[i + 1], x, better)

FusionSuccessor(n, x, best) ==
    LET i == FindKey(n, x)
        better == IF i < Len(n.keys) THEN n.keys[i + 1] ELSE best
    IN  IF Holds(n, x) THEN x
        ELSE IF IsLeaf(n) THEN better ELSE FusionSuccessor(n.children[i + 1], x, better)

FusionInit == rep = Leaf(<< >>) /\ content = {}

FusionNext ==
    \E x \in Keys : \/ rep' = FusionInsert(rep, x) /\ Inserted(x)
                    \/ rep' = FusionErase(rep, x) /\ Erased(x)

RECURSIVE BTree(_, _), KeysOf(_)
KeysOf(n) ==
    IF IsLeaf(n) THEN n.keys
    ELSE FoldLeft(LAMBDA s, i : s \o <<n.keys[i]>> \o KeysOf(n.children[i + 1]),
                  KeysOf(n.children[1]), [i \in DOMAIN n.keys |-> i])

\* Depth h below: as many children as keys and one, T - 1 keys at least and
\* 2T - 1 at most, except at the root
BTree(n, h) ==
    /\ Len(n.keys) < 2 * T
    /\ IF h = 0 THEN IsLeaf(n)
       ELSE /\ Len(n.children) = Len(n.keys) + 1
            /\ \A i \in DOMAIN n.children : /\ Len(n.children[i].keys) >= T - 1
                                            /\ BTree(n.children[i], h - 1)

RECURSIVE HeightOf(_)
HeightOf(n) == IF IsLeaf(n) THEN 0 ELSE HeightOf(n.children[1]) + 1

\* A B-tree of the elements in order, and the neighbours of every integer.
FusionExact ==
    /\ BTree(rep, HeightOf(rep))
    /\ LET keys == KeysOf(rep)
       IN  ToSet(keys) = content /\ \A i \in 2 .. Len(keys) : keys[i - 1] < keys[i]
    /\ \A x \in Universe :
        /\ FusionContains(rep, x) <=> x \in content
        /\ FusionSuccessor(rep, x, None) = LeastOf(AtOrAbove(x))
        /\ FusionPredecessor(rep, x, None) = GreatestOf(AtOrBelow(x))
-----------------------------------------------------------------------------
(* parallel_rank: k keys of F bits in the fields of one word, each with a    *)
(* bit above that a subtraction leaves set if the key is not less than q    *)

Fields == 4     \* 8 in the code
Pack(keys, F) ==
    MapThenSumSet(LAMBDA i : (keys[i] + 2 ^ F) * 2 ^ ((F + 1) * (i - 1)), DOMAIN keys)

ParallelRank(packed, k, q, F) ==
    LET Q == MapThenSumSet(LAMBDA i : (q % 2 ^ F) * 2 ^ ((F + 1) * i), 0 .. Fields - 1)
        diff == (packed - Q) % 2 ^ ((F + 1) * Fields)
        indicators == {i \in 0 .. k - 1 : (diff \div 2 ^ ((F + 1) * i + F)) % 2 = 1}
    IN  k - Cardinality(indicators)

\* No borrow reaches the field of another key.
ParallelRankExact(F) ==
    \A q \in 0 .. 2 ^ F - 1 :
        ParallelRank(Pack(rep, F), Len(rep), q, F) = Cardinality({i \in DOMAIN rep : rep[i] < q})
=============================================================================
