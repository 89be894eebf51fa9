----------------------------- MODULE SearchTrees -----------------------------
(***************************************************************************)
(* The search trees of binary_search_tree.cpp, avl_tree.cpp,               *)
(* scapegoat_and_aa_trees.cpp, treap.cpp, order_statistic_trees.cpp,       *)
(* interval_trees.cpp and authenticated_data_structures.cpp; Kind says     *)
(* which.                                                                  *)
(*                                                                         *)
(* A tree is a record of its root and the trees below it; note is what     *)
(* the nodes remember of their subtree: height, level, size, max_high or   *)
(* digest.  As in the code it is stale until it is updated.  In the three  *)
(* randomised trees val is the priority of a node, in the authenticated    *)
(* one 10 * priority + value.  The interval [low, high] is the key         *)
(* 10 * low + high.  A digest is what was hashed.                          *)
(***************************************************************************)
EXTENDS AbstractMap, Integers, FiniteSetsExt, SequencesExt

CONSTANT Kind   \* "binary", "AVL", "AA", "scapegoat", "treap", "order", "interval",
                \* "authenticated"

VARIABLE rep    \* [root, size], in a scapegoat tree also q_, under the name "most"

stVars == <<rep, kv>>

\* nullptr; the hash of no tree is that of a string which is no node's
Nil == [note |-> IF Kind = "authenticated" THEN << >> ELSE 0]
Low(k) == k \div 10
High(k) == k % 10
ValueOf(v) == IF Kind = "authenticated" THEN v % 10 ELSE v
PriorityOf(v) == IF Kind = "authenticated" THEN v \div 10 ELSE v
HashNode(k, value, left, right) == <<k, value, left, right>>
NoteOf(k, v) ==
    CASE Kind = "binary" -> 0
      [] Kind = "interval" -> High(k)
      [] Kind = "authenticated" -> HashNode(k, ValueOf(v), Nil.note, Nil.note)
      [] OTHER -> 1
Leaf(k, v) == [key |-> k, val |-> v, note |-> NoteOf(k, v), left |-> Nil, right |-> Nil]

STInit == rep = [root |-> Nil, size |-> 0, most |-> 0]

\* update_height(), update_size(), update_node(), update_hash(); the other kinds
\* have none.
Updated(t) ==
    CASE Kind = "AVL" -> [t EXCEPT !.note = 1 + Max({t.left.note, t.right.note})]
      [] Kind \in {"treap", "order"} -> [t EXCEPT !.note = 1 + t.left.note + t.right.note]
      [] Kind = "interval" -> [t EXCEPT !.note = Max({High(t.key), t.left.note, t.right.note})]
      [] Kind = "authenticated" ->
            [t EXCEPT !.note = HashNode(t.key, ValueOf(t.val), t.left.note, t.right.note)]
      [] OTHER -> t

RECURSIVE Find(_, _), Minimum(_), Maximum(_), InsertKey(_, _, _), EraseKey(_, _),
          Inorder(_), Merge(_, _), SplitKey(_, _), Balanced(_)

Find(t, k) ==
    IF t = Nil \/ t.key = k THEN t ELSE Find(IF k < t.key THEN t.left ELSE t.right, k)
Minimum(t) == IF t.left = Nil THEN t ELSE Minimum(t.left)
Maximum(t) == IF t.right = Nil THEN t ELSE Maximum(t.right)
Inorder(t) == IF t = Nil THEN << >> ELSE Inorder(t.left) \o <<t>> \o Inorder(t.right)

RotateRight(y) ==
    LET x == y.left
    IN  Updated([x EXCEPT !.right = Updated([y EXCEPT !.left = x.right])])
RotateLeft(x) ==
    LET y == x.right
    IN  Updated([y EXCEPT !.left = Updated([x EXCEPT !.right = y.left])])
-----------------------------------------------------------------------------
(* AVL                                                                      *)

BalanceFactor(t) == t.left.note - t.right.note

Balance(t) ==
    IF BalanceFactor(t) > 1
    THEN RotateRight(IF BalanceFactor(t.left) < 0
                     THEN [t EXCEPT !.left = RotateLeft(@)] ELSE t)
    ELSE IF BalanceFactor(t) < -1
    THEN RotateLeft(IF BalanceFactor(t.right) > 0
                    THEN [t EXCEPT !.right = RotateRight(@)] ELSE t)
    ELSE t
Rebalance(t) == Balance(Updated(t))
-----------------------------------------------------------------------------
(* AA                                                                       *)

Skew(t) ==
    IF t = Nil \/ t.left = Nil \/ t.left.note # t.note THEN t
    ELSE [t.left EXCEPT !.right = [t EXCEPT !.left = t.left.right]]

Split(t) ==
    IF t = Nil \/ t.right = Nil \/ t.right.right = Nil \/ t.right.right.note # t.note THEN t
    ELSE [t.right EXCEPT !.left = [t EXCEPT !.right = t.right.left], !.note = @ + 1]

Lowered(t) ==
    LET level == 1 + Min({t.left.note, t.right.note})
    IN  IF level >= t.note THEN t
        ELSE IF t.right # Nil /\ t.right.note > level
             THEN [t EXCEPT !.note = level, !.right.note = level]
             ELSE [t EXCEPT !.note = level]

\* What erase_internal() does on the way back up.
SkewRight(t) == IF t.right = Nil THEN t ELSE [t EXCEPT !.right = Skew(@)]
SkewRightRight(t) ==
    IF t.right = Nil \/ t.right.right = Nil THEN t ELSE [t EXCEPT !.right.right = Skew(@)]
SplitRight(t) == IF t.right = Nil THEN t ELSE [t EXCEPT !.right = Split(@)]
Relevelled(t) == SplitRight(Split(SkewRightRight(SkewRight(Skew(Lowered(t))))))
-----------------------------------------------------------------------------
(* Insertion and removal by recursion: binary, AVL, AA, order, interval;    *)
(* the authenticated tree only has insertion                                *)

\* A child of higher priority is rotated above its parent.
Sifted(t) ==
    LET above(c) == c # Nil /\ PriorityOf(c.val) > PriorityOf(t.val)
    IN  Updated(IF above(t.left) THEN RotateRight(t)
                ELSE IF above(t.right) THEN RotateLeft(t) ELSE t)

Inserted(t) ==
    CASE Kind = "binary" -> t
      [] Kind = "AVL" -> Rebalance(t)
      [] Kind = "AA" -> Split(Skew(t))
      [] OTHER -> Sifted(t)

Removed(t) ==
    CASE Kind = "binary" -> t
      [] Kind = "AVL" -> Rebalance(t)
      [] Kind = "AA" -> Relevelled(t)
      [] OTHER -> Updated(t)

\* The value is replaced where the nodes have one.
InsertKey(t, k, v) ==
    IF t = Nil THEN Leaf(k, v)
    ELSE IF k < t.key THEN Inserted([t EXCEPT !.left = InsertKey(@, k, v)])
    ELSE IF k > t.key THEN Inserted([t EXCEPT !.right = InsertKey(@, k, v)])
    ELSE IF Kind \in {"AVL", "AA"} THEN [t EXCEPT !.val = v]
    ELSE IF Kind = "authenticated"
         THEN Updated([t EXCEPT !.val = 10 * PriorityOf(@) + ValueOf(v)])
    ELSE t

Successor(t) == Minimum(t.right)
Predecessor(t) == Maximum(t.left)
BySuccessor(t) == [t EXCEPT !.key = Successor(t).key, !.val = Successor(t).val,
                            !.right = EraseKey(@, Successor(t).key)]
ByPredecessor(t) == [t EXCEPT !.key = Predecessor(t).key, !.val = Predecessor(t).val,
                              !.left = EraseKey(@, Predecessor(t).key)]

\* The node to erase goes down below the child of higher priority.
Sunk(t) ==
    IF t.left.val > t.right.val
    THEN [RotateRight(t) EXCEPT !.right = EraseKey(@, t.key)]
    ELSE [RotateLeft(t) EXCEPT !.left = EraseKey(@, t.key)]

EraseKey(t, k) ==
    IF t = Nil THEN Nil
    ELSE IF k < t.key THEN Removed([t EXCEPT !.left = EraseKey(@, k)])
    ELSE IF k > t.key THEN Removed([t EXCEPT !.right = EraseKey(@, k)])
    ELSE IF t.left = Nil /\ t.right = Nil THEN Nil
    ELSE IF Kind = "AA"
         THEN Removed(IF t.left = Nil THEN BySuccessor(t) ELSE ByPredecessor(t))
    ELSE IF t.left = Nil THEN t.right
    ELSE IF t.right = Nil THEN t.left
    ELSE Removed(IF Kind \in {"order", "interval"} THEN Sunk(t) ELSE BySuccessor(t))
-----------------------------------------------------------------------------
(* Treap                                                                    *)

\* split(): the keys up to k and those above.
SplitKey(t, k) ==
    IF t = Nil THEN <<Nil, Nil>>
    ELSE IF t.key <= k
         THEN LET s == SplitKey(t.right, k) IN <<Updated([t EXCEPT !.right = s[1]]), s[2]>>
         ELSE LET s == SplitKey(t.left, k) IN <<s[1], Updated([t EXCEPT !.left = s[2]])>>

Merge(l, r) ==
    IF l = Nil THEN r
    ELSE IF r = Nil THEN l
    ELSE IF l.val >= r.val THEN Updated([l EXCEPT !.right = Merge(@, r)])
    ELSE Updated([r EXCEPT !.left = Merge(l, @)])

TreapInsert(t, k, p) ==
    IF Find(t, k) # Nil THEN t
    ELSE LET s == SplitKey(t, k) IN Merge(Merge(s[1], Leaf(k, p)), s[2])

TreapErase(t, k) ==
    IF Find(t, k) = Nil THEN t
    ELSE LET s == SplitKey(t, k - 1) IN Merge(s[1], SplitKey(s[2], k)[2])
-----------------------------------------------------------------------------
(* Scapegoat                                                                *)

\* floor(log(n) / log(1.5))
MaxHeight(n) == IF n = 0 THEN 0 ELSE Max({h \in 0 .. n : 3 ^ h <= n * 2 ^ h})

Size(t) == Len(Inorder(t))

\* build_balanced(): the middle node on top; rebuild() of what is in order.
Balanced(nodes) ==
    IF nodes = << >> THEN Nil
    ELSE LET mid == (Len(nodes) + 1) \div 2
         IN  [nodes[mid] EXCEPT !.left = Balanced(SubSeq(nodes, 1, mid - 1)),
                                !.right = Balanced(SubSeq(nodes, mid + 1, Len(nodes)))]
Rebuilt(t) == Balanced(Inorder(t))

\* The nodes on the way to k.
RECURSIVE Path(_, _), Grafted(_, _, _)
Path(t, k) ==
    IF t = Nil THEN << >>
    ELSE <<t>> \o (IF t.key = k THEN << >>
                   ELSE Path(IF k < t.key THEN t.left ELSE t.right, k))

\* The tree u in the place where the search for k passes the node that has its
\* keys, or where it ends.
Grafted(t, k, u) ==
    IF t = Nil \/ t.key = k THEN u
    ELSE IF k < t.key THEN [t EXCEPT !.left = Grafted(@, k, u)]
    ELSE [t EXCEPT !.right = Grafted(@, k, u)]

Scapegoat(t) == 3 * Size(t.left) > 2 * Size(t) \/ 3 * Size(t.right) > 2 * Size(t)

\* insert(): a node too deep has an ancestor that is out of balance; the lowest
\* one is rebuilt.
ScapegoatInsert(k, v) ==
    IF Find(rep.root, k) # Nil
    THEN [rep EXCEPT !.root = Grafted(@, k, [Find(@, k) EXCEPT !.val = v])]
    ELSE LET depth == Len(Path(rep.root, k))
             n == rep.size + 1
             root == Grafted(rep.root, k, Leaf(k, v))
             above == Front(Path(root, k))
             heavy == {i \in DOMAIN above : Scapegoat(above[i])}
             top == IF heavy = {} THEN root ELSE above[Max(heavy)]
         IN  [root |-> IF depth <= MaxHeight(n) THEN root
                       ELSE Grafted(root, top.key, Rebuilt(top)),
              size |-> n, most |-> Max({rep.most, n})]

\* The node with its successor in its place, or its only child.
Bypassed(t) ==
    IF t.left = Nil THEN t.right
    ELSE IF t.right = Nil THEN t.left
    ELSE LET s == Minimum(t.right)
         IN  [s EXCEPT !.left = t.left, !.right = Grafted(t.right, s.key, s.right)]

ScapegoatErase(k) ==
    LET t == Find(rep.root, k)
        root == Grafted(rep.root, k, Bypassed(t))
        n == rep.size - 1
    IN  IF t = Nil THEN rep
        ELSE IF 3 * n < 2 * rep.most
             THEN [root |-> Rebuilt(root), size |-> n, most |-> n]
             ELSE [root |-> root, size |-> n, most |-> rep.most]
-----------------------------------------------------------------------------
(* The operations                                                           *)

STInsert(k, v) ==
    /\ rep' = IF Kind = "scapegoat" THEN ScapegoatInsert(k, v)
              ELSE [rep EXCEPT !.root = IF Kind = "treap" THEN TreapInsert(@, k, v)
                                        ELSE InsertKey(@, k, v),
                               !.size = @ + (IF Find(rep.root, k) = Nil THEN 1 ELSE 0)]
    /\ IF Kind \in {"AVL", "AA", "scapegoat", "authenticated"} \/ kv[k] = NoValue
       THEN AMPut(k, ValueOf(v)) ELSE UNCHANGED kv

STErase(k) ==
    /\ Kind # "authenticated"
    /\ rep' = IF Kind = "scapegoat" THEN ScapegoatErase(k)
              ELSE [rep EXCEPT !.root = IF Kind = "treap" THEN TreapErase(@, k)
                                        ELSE EraseKey(@, k),
                               !.size = @ - (IF Find(rep.root, k) = Nil THEN 0 ELSE 1)]
    /\ AMRemove(k)

STNext == \E k \in Key : STErase(k) \/ \E v \in Value : STInsert(k, v)

STSpec == STInit /\ AMInit /\ [][STNext]_stVars
-----------------------------------------------------------------------------
(* splay_trees.cpp: the nodes in memory, named by their keys, which are       *)
(* positive; kid[k] are the left and the right child, 0 is a null pointer.    *)

SPInit == rep = [root |-> 0, size |-> 0, kid |-> [k \in Key |-> <<0, 0>>],
                 parent |-> [k \in Key |-> 0], val |-> [k \in Key |-> NoValue]]

SetParent(S, k, p) == IF k = 0 THEN S ELSE [S EXCEPT !.parent[k] = p]

\* What pointed to p, its parent g or root, points to x.
Relink(S, g, p, x) ==
    IF g = 0 THEN [S EXCEPT !.root = x]
    ELSE [S EXCEPT !.kid[g][IF S.kid[g][1] = p THEN 1 ELSE 2] = x]

Rotate(S, x) ==
    LET p == S.parent[x]
        g == S.parent[p]
        d == IF S.kid[p][2] = x THEN 2 ELSE 1
        b == S.kid[x][3 - d]
        T == SetParent([S EXCEPT !.kid[p][d] = b, !.kid[x][3 - d] = p], b, p)
    IN  Relink([T EXCEPT !.parent[p] = x, !.parent[x] = g], g, p, x)

RECURSIVE Splay(_, _), LastFor(_, _, _), Outermost(_, _, _)

\* Two rotations at a time, the first of the parent when both are on the same side
Splay(S, x) ==
    LET p == S.parent[x]
        g == S.parent[p]
        first == IF (S.kid[g][1] = p) = (S.kid[p][1] = x) THEN p ELSE x
    IN  IF x = 0 THEN S
        ELSE IF p = 0 THEN [S EXCEPT !.root = x]
        ELSE Splay(Rotate(IF g = 0 THEN S ELSE Rotate(S, first), x), x)

\* The node of k, or the last one on the way to it.
LastFor(S, x, k) ==
    LET next == S.kid[x][IF k < x THEN 1 ELSE 2]
    IN  IF x = k \/ next = 0 THEN x ELSE LastFor(S, next, k)
FindInternal(S, k) == IF S.root = 0 THEN S ELSE Splay(S, LastFor(S, S.root, k))

Outermost(S, x, d) == IF S.kid[x][d] = 0 THEN x ELSE Outermost(S, S.kid[x][d], d)

\* The root r comes below the new node, on the side of its key.
AboveRoot(S, r, k, v) ==
    LET d == IF k < r THEN 1 ELSE 2
    IN  [SetParent(S, S.kid[r][d], k) EXCEPT
            !.kid[k] = IF d = 1 THEN <<S.kid[r][1], r>> ELSE <<r, S.kid[r][2]>>,
            !.kid[r][d] = 0, !.parent[r] = k, !.root = k, !.val[k] = v, !.size = @ + 1]

Placed(S, k, v) ==
    IF S.root = 0 THEN [S EXCEPT !.root = k, !.val[k] = v, !.size = 1]
    ELSE IF S.root = k THEN [S EXCEPT !.val[k] = v]
    ELSE AboveRoot(S, S.root, k, v)

SPInsert(k, v) == rep' = Placed(FindInternal(rep, k), k, v) /\ AMPut(k, v)

\* The greatest node of the left subtree is splayed on its own and gets the right
\* subtree r.
Joined(S, r) == SetParent([S EXCEPT !.kid[S.root][2] = r], r, S.root)

\* The memory of the erased node is forgotten.
WithoutRoot(S, k) ==
    LET l == S.kid[k][1]
        r == S.kid[k][2]
        F == [S EXCEPT !.kid[k] = <<0, 0>>, !.val[k] = NoValue, !.size = @ - 1]
    IN  IF S.root # k THEN S
        ELSE IF l = 0 THEN SetParent([F EXCEPT !.root = r], r, 0)
        ELSE Joined(Splay([F EXCEPT !.root = l, !.parent[l] = 0], Outermost(S, l, 2)), r)

SPErase(k) == rep' = WithoutRoot(FindInternal(rep, k), k) /\ AMRemove(k)

SPFind(k) == rep' = FindInternal(rep, k) /\ UNCHANGED kv

\* min() and max()
SPOutermost(d) ==
    rep.root # 0 /\ rep' = Splay(rep, Outermost(rep, rep.root, d)) /\ UNCHANGED kv

SPNext ==
    \/ \E k \in Key : SPErase(k) \/ SPFind(k) \/ \E v \in Value : SPInsert(k, v)
    \/ \E d \in 1 .. 2 : SPOutermost(d)

SPSpec == SPInit /\ AMInit /\ [][SPNext]_stVars
-----------------------------------------------------------------------------
(* Questions                                                                *)

RECURSIVE Kth(_, _), Rank(_, _), Overlaps(_, _), FindOverlap(_, _),
          Above(_, _, _), Below(_, _, _)

\* kth_element(), find_by_order(): from 0.
Kth(t, i) ==
    IF i = t.left.note THEN t.key
    ELSE IF i < t.left.note THEN Kth(t.left, i)
    ELSE Kth(t.right, i - t.left.note - 1)

\* order_of_key()
Rank(t, k) ==
    IF t = Nil THEN 0
    ELSE IF k <= t.key THEN Rank(t.left, k)
    ELSE t.left.note + 1 + Rank(t.right, k)

\* successor() and predecessor(): best is the last key passed on the way.
Above(t, k, best) ==
    IF t = Nil THEN best
    ELSE IF k < t.key THEN Above(t.left, k, t.key) ELSE Above(t.right, k, best)
Below(t, k, best) ==
    IF t = Nil THEN best
    ELSE IF k > t.key THEN Below(t.right, k, t.key) ELSE Below(t.left, k, best)

Overlap(k, q) == Low(k) <= High(q) /\ Low(q) <= High(k)

\* try_find_overlap()
FindOverlap(t, q) ==
    IF t = Nil \/ Overlap(t.key, q) THEN t
    ELSE FindOverlap(IF t.left # Nil /\ t.left.note >= Low(q) THEN t.left ELSE t.right, q)

\* find_all_overlaps()
Overlaps(t, q) ==
    IF t = Nil THEN << >>
    ELSE (IF t.left.note >= Low(q) THEN Overlaps(t.left, q) ELSE << >>)
            \o (IF Overlap(t.key, q) THEN <<t.key>> ELSE << >>)
            \o (IF Low(t.key) <= High(q) THEN Overlaps(t.right, q) ELSE << >>)
-----------------------------------------------------------------------------
(* Proofs of the authenticated tree                                         *)

\* The nodes passed on the way to k or to where it would be, from the root; of each
\* the digest of the subtree that is not on the way.
Ancestors(t, k) ==
    LET way == Path(t, k)
        passed == SelectSeq(way, LAMBDA u : u.key # k)
    IN  [i \in DOMAIN passed |->
            LET u == passed[i]
                right == k > u.key
            IN  [key |-> u.key, val |-> ValueOf(u.val), went_right |-> right,
                 sibling |-> IF right THEN u.left.note ELSE u.right.note]]

\* prove_membership() and prove_non_membership(), which go the same way; of a key
\* that is there the second only says so.
Proof(t, k) ==
    LET u == Find(t, k)
    IN  [exists |-> u # Nil, key |-> k,
         value |-> IF u = Nil THEN NoValue ELSE ValueOf(u.val),
         left |-> IF u = Nil THEN Nil.note ELSE u.left.note,
         right |-> IF u = Nil THEN Nil.note ELSE u.right.note,
         ancestors |-> Ancestors(t, k)]

\* The order along the way is checked, then the digests are folded up to the root.
Folded(start, ancestors) ==
    FoldRight(LAMBDA s, h : IF s.went_right THEN HashNode(s.key, s.val, s.sibling, h)
                            ELSE HashNode(s.key, s.val, h, s.sibling),
              ancestors, start)
Ordered(P) ==
    \A i \in DOMAIN P.ancestors :
        LET s == P.ancestors[i] IN IF s.went_right THEN P.key > s.key ELSE P.key < s.key

VerifyMembership(root, P) ==
    /\ P.exists /\ Ordered(P)
    /\ Folded(HashNode(P.key, P.value, P.left, P.right), P.ancestors) = root
VerifyNonMembership(root, P) ==
    ~P.exists /\ Ordered(P) /\ Folded(Nil.note, P.ancestors) = root
-----------------------------------------------------------------------------
(* tree_traversals.cpp: recursive, with a stack, and by levels              *)

RECURSIVE Preorder(_), Postorder(_), PreorderLoop(_, _), InorderLoop(_, _, _),
          PostorderLoop(_, _), LevelLoop(_, _)

Preorder(t) == IF t = Nil THEN << >> ELSE <<t.key>> \o Preorder(t.left) \o Preorder(t.right)
Postorder(t) == IF t = Nil THEN << >> ELSE Postorder(t.left) \o Postorder(t.right) \o <<t.key>>

Kids(t) == SelectSeq(<<t.left, t.right>>, LAMBDA c : c # Nil)

\* The top of a stack is its first item.
PreorderLoop(stack, out) ==
    IF stack = << >> THEN out
    ELSE PreorderLoop(Kids(Head(stack)) \o Tail(stack), Append(out, Head(stack).key))

InorderLoop(curr, stack, out) ==
    IF curr # Nil THEN InorderLoop(curr.left, <<curr>> \o stack, out)
    ELSE IF stack = << >> THEN out
    ELSE InorderLoop(Head(stack).right, Tail(stack), Append(out, Head(stack).key))

\* The second stack is the output from its end.
PostorderLoop(stack, out) ==
    IF stack = << >> THEN out
    ELSE PostorderLoop(Reverse(Kids(Head(stack))) \o Tail(stack), <<Head(stack).key>> \o out)

\* level_order_by_levels(): the queue holds one level after the other.
LevelLoop(level, out) ==
    IF level = << >> THEN out
    ELSE LevelLoop(FoldLeft(LAMBDA next, t : next \o Kids(t), << >>, level),
                   Append(out, [i \in DOMAIN level |-> level[i].key]))

TreeOrNone(t) == IF t = Nil THEN << >> ELSE <<t>>
-----------------------------------------------------------------------------
(* Properties                                                               *)

RECURSIVE Subtrees(_), Height(_), Digest(_)
Subtrees(t) == IF t = Nil THEN {} ELSE {t} \union Subtrees(t.left) \union Subtrees(t.right)
Height(t) == IF t = Nil THEN 0 ELSE 1 + Max({Height(t.left), Height(t.right)})

Digest(t) ==
    IF t = Nil THEN Nil.note
    ELSE HashNode(t.key, ValueOf(t.val), Digest(t.left), Digest(t.right))

Present == {k \in Key : kv[k] # NoValue}
HeapOrder(t) ==
    \A c \in {t.left, t.right} \ {Nil} : PriorityOf(c.val) <= PriorityOf(t.val)

\* The shape each kind promises, and that what the nodes remember is true after
\* every sequence of insertions and removals.  A scapegoat tree may be one level
\* higher than a tree of q_ nodes that is balanced by height.
TreeSound ==
    /\ {t.key : t \in Subtrees(rep.root)} = Present
    /\ \A i, j \in 1 .. Size(rep.root) :
          i < j => Inorder(rep.root)[i].key < Inorder(rep.root)[j].key
    /\ rep.size = Cardinality(Present)
    /\ Kind = "scapegoat" => Height(rep.root) <= MaxHeight(rep.most) + 1
    /\ \A t \in Subtrees(rep.root) :
          CASE Kind = "AVL" -> t.note = Height(t) /\ BalanceFactor(t) \in -1 .. 1
            [] Kind = "AA" -> /\ t.left.note = t.note - 1
                              /\ t.right.note \in {t.note - 1, t.note}
                              /\ t.right # Nil => t.right.right.note < t.note
            [] Kind \in {"treap", "order"} -> t.note = Size(t) /\ HeapOrder(t)
            [] Kind = "interval" ->
                  HeapOrder(t) /\ t.note = Max({High(s.key) : s \in Subtrees(t)})
            [] Kind = "authenticated" -> HeapOrder(t) /\ t.note = Digest(t)
            [] OTHER -> TRUE

RECURSIVE DepthOf(_, _)
DepthOf(t, k) == IF t.key = k THEN 1 ELSE 1 + DepthOf(IF k < t.key THEN t.left ELSE t.right, k)

\* The traversals with a stack visit what the recursive ones visit, and level d
\* is the keys of depth d in their order.
TraversalsAgree(t) ==
    LET levels == LevelLoop(TreeOrNone(t), << >>)
        keys == [i \in 1 .. Size(t) |-> Inorder(t)[i].key]
    IN  /\ PreorderLoop(TreeOrNone(t), << >>) = Preorder(t)
        /\ InorderLoop(t, << >>, << >>) = keys
        /\ PostorderLoop(TreeOrNone(t), << >>) = Postorder(t)
        /\ Len(levels) = Height(t)
        /\ \A d \in DOMAIN levels :
              levels[d] = SelectSeq(keys, LAMBDA k : DepthOf(t, k) = d)

\* The proof for a key convinces a holder of the root's digest of what the tree says
\* of that key, presence with the value or absence, and of nothing else.
ProofsConvince(t) ==
    \A k \in Key :
        LET P == Proof(t, k)
            others == {ValueOf(v) : v \in Value} \ {kv[k]}
        IN  /\ VerifyMembership(t.note, P) = (k \in Present)
            /\ VerifyNonMembership(t.note, P) = (k \notin Present)
            /\ P.value = kv[k]
            /\ \A w \in others : ~VerifyMembership(t.note, [P EXCEPT !.value = w])
            /\ k \in Present => ~VerifyNonMembership(t.note, [P EXCEPT !.exists = FALSE])

\* Every question is answered from the keys that are there.
TreeAnswers ==
    LET t == rep.root
        greatest(S) == IF S = {} THEN NoValue ELSE Max(S)
        least(S) == IF S = {} THEN NoValue ELSE Min(S)
    IN  /\ \A k \in Key : kv[k] = IF Find(t, k) = Nil THEN NoValue ELSE ValueOf(Find(t, k).val)
        /\ Kind = "authenticated" => ProofsConvince(t)
        /\ Kind \in {"treap", "order"} =>
              \A k \in Key : /\ Rank(t, k) = Cardinality({j \in Present : j < k})
                             /\ k \in Present => Kth(t, Rank(t, k)) = k
        /\ Kind = "binary" => TraversalsAgree(t)
        /\ Kind = "binary" =>
              \A k \in Key : /\ Above(t, k, NoValue) = least({j \in Present : j > k})
                             /\ Below(t, k, NoValue) = greatest({j \in Present : j < k})
        /\ Kind = "interval" =>
              \A q \in Key : LET all == {k \in Present : Overlap(k, q)}
                             IN  /\ ToSet(Overlaps(t, q)) = all /\ Len(Overlaps(t, q)) = Cardinality(all)
                                 /\ IF all = {} THEN FindOverlap(t, q) = Nil
                                    ELSE FindOverlap(t, q).key \in all

RECURSIVE Reached(_, _)
Reached(S, x) ==
    IF x = 0 THEN << >>
    ELSE Reached(S, S.kid[x][1]) \o <<x>> \o Reached(S, S.kid[x][2])

\* Both directions of every pointer agree, and the keys are reached in order with
\* the last value put.
SplaySound ==
    LET keys == Reached(rep, rep.root)
    IN  /\ rep.root # 0 => rep.parent[rep.root] = 0
        /\ \A k \in ToSet(keys), d \in 1 .. 2 :
              rep.kid[k][d] # 0 => rep.parent[rep.kid[k][d]] = k
        /\ \A i, j \in 1 .. Len(keys) : i < j => keys[i] < keys[j]
        /\ rep.size = Len(keys)
        /\ \A k \in Key : kv[k] = IF k \in ToSet(keys) THEN rep.val[k] ELSE NoValue
=============================================================================
