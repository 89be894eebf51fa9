------------------------------- MODULE Forests -------------------------------
(***************************************************************************)
(* Forests in memory: the three union-find structures of                   *)
(* disjoint_set_union.cpp and the forest of link_cut_trees.cpp.            *)
(***************************************************************************)
EXTENDS Integers, Sequences, FiniteSets

CONSTANTS Size,      \* the number of elements
          Settable   \* the values a node of the link-cut forest can be given: sets
                     \* of bits

VARIABLES rep,      \* what is in memory
          content   \* what the requests so far say

dsVars == <<rep, content>>
-----------------------------------------------------------------------------
(* Union-find.  All three share union by size; DisjointSetUnion and         *)
(* ParityDSU compress the path in find(), RollbackDSU does not and keeps a  *)
(* history to undo unions from.  rep is parent_, size_, num_components_ and *)
(* history_, for ParityDSU also parity_ and is_bipartite_; kind says which  *)
(* one it is.  content holds what follows from the requests: sets of        *)
(* <<x, y, r>>, "x and y are together, apart by r", the current one last,   *)
(* those a rollback may return to before it; and whether no request has     *)
(* contradicted it.                                                         *)

Element == 0 .. Size - 1
Kinds == {"compressing", "rollback", "parity"}

DSInit ==
    /\ rep \in [kind : Kinds,
                parent : {[x \in Element |-> x]}, size : {[x \in Element |-> 1]},
                components : {Size}, history : {<< >>},
                parity : {[x \in Element |-> 0]}, bipartite : {TRUE}]
    /\ content = [known |-> <<{<<x, x, 0>> : x \in Element}>>, consistent |-> TRUE]

RECURSIVE Root(_, _), PathParity(_, _)
Root(T, x) == IF T.parent[x] = x THEN x ELSE Root(T, T.parent[x])

\* The parities met on the way up, the root's own included.
PathParity(T, x) ==
    IF T.parent[x] = x THEN T.parity[x]
    ELSE (T.parity[x] + PathParity(T, T.parent[x])) % 2

RECURSIVE OnPath(_, _)
OnPath(T, x) == IF T.parent[x] = x THEN {x} ELSE {x} \union OnPath(T, T.parent[x])

\* find() hangs everything on its path under the root and gives it its parity
\* relative to the root; the rollback structure leaves the path alone.
Compressed(T, x) ==
    IF T.kind = "rollback" THEN T
    ELSE [T EXCEPT
        !.parent = [y \in Element |-> IF y \in OnPath(T, x) THEN Root(T, x) ELSE @[y]],
        !.parity = [y \in Element |-> IF y \in OnPath(T, x) /\ T.parent[y] # y
                                      THEN PathParity(T, y) ELSE @[y]]]

\* The smaller root, or rb when they are equal, goes below the other.
Linked(T, ra, rb, bit) ==
    LET top == IF T.size[ra] < T.size[rb] THEN rb ELSE ra
        low == IF top = ra THEN rb ELSE ra
    IN  [T EXCEPT !.parent[low] = top,
                  !.parity[low] = bit,
                  !.size[top] = @ + T.size[low],
                  !.components = @ - 1,
                  !.history = IF T.kind # "rollback" THEN @
                              ELSE Append(@, [child |-> low, parent |-> top,
                                              old |-> T.size[top]])]

\* What a and b being rel apart adds to what is known.
Joined(K, a, b, rel) ==
    LET across == {<<p[1], q[2], (p[3] + rel + q[3]) % 2>> :
                      p \in {k \in K : k[2] = a}, q \in {k \in K : k[1] = b}}
    IN  K \union across \union {<<q[2], q[1], q[3]>> : q \in across}

Current == content.known[Len(content.known)]

Known(a, b, rel) ==
    content' =
        IF <<a, b, 1 - rel>> \in Current THEN [content EXCEPT !.consistent = FALSE]
        ELSE IF <<a, b, rel>> \in Current THEN content
        ELSE LET K == Joined(Current, a, b, rel)
             IN  [content EXCEPT !.known = IF rep.kind = "rollback" THEN Append(@, K)
                                           ELSE <<K>>]

\* unite(a, b), and add_relation(a, b, rel) of ParityDSU
Unite(a, b, rel) ==
    LET T == Compressed(Compressed(rep, a), b)
        ra == Root(T, a)
        rb == Root(T, b)
        relative == (T.parity[a] + T.parity[b]) % 2
    IN  /\ rel = 1 => rep.kind = "parity"
        /\ rep' = IF ra # rb THEN Linked(T, ra, rb, (relative + rel) % 2)
                  ELSE IF rep.kind = "parity" /\ relative # rel
                  THEN [T EXCEPT !.bipartite = FALSE]
                  ELSE T
        /\ Known(a, b, rel)

\* find(x), of the structures in which it changes something
Find(x) ==
    /\ rep' = Compressed(rep, x)
    /\ UNCHANGED content

RECURSIVE Undone(_, _)
Undone(T, cp) ==
    LET op == T.history[Len(T.history)]
    IN  IF Len(T.history) <= cp THEN T
        ELSE Undone([T EXCEPT !.parent[op.child] = op.child,
                              !.size[op.parent] = op.old,
                              !.components = @ + 1,
                              !.history = SubSeq(@, 1, Len(@) - 1)], cp)

\* rollback_to() a number checkpoint() has returned
RollbackTo(cp) ==
    /\ rep.kind = "rollback" /\ cp <= Len(rep.history)
    /\ rep' = Undone(rep, cp)
    /\ content' = [content EXCEPT !.known = SubSeq(@, 1, cp + 1)]

DSNext ==
    \/ \E a, b \in Element, rel \in {0, 1} : Unite(a, b, rel)
    \/ \E x \in Element : Find(x)
    \/ \E cp \in 0 .. Size : RollbackTo(cp)

DSSpec == DSInit /\ [][DSNext]_dsVars
-----------------------------------------------------------------------------
(* LinkCutTree: the nodes are 1 .. Size, 0 is the null node; ch, p, val,    *)
(* agg and rev as in the code.  A path of the forest is a splay tree; rev   *)
(* turns the order around below a node.  A value is a set of bits, and xor  *)
(* what is in one of two sets.  content has the edges, the root of each     *)
(* node's tree and the values.                                              *)

Vertex == 1 .. Size
Xor(a, b) == (a \ b) \union (b \ a)

LCInit ==
    LET bits == [x \in Vertex |-> {x}]
    IN  /\ rep = [ch |-> [x \in Vertex |-> <<0, 0>>], p |-> [x \in Vertex |-> 0],
                  val |-> bits, agg |-> bits, rev |-> [x \in Vertex |-> FALSE]]
        /\ content = [edges |-> {}, top |-> [x \in Vertex |-> x], val |-> bits]

IsRoot(L, x) == L.p[x] = 0 \/ x \notin {L.ch[L.p[x]][1], L.ch[L.p[x]][2]}
AggOf(L, x) == IF x = 0 THEN {} ELSE L.agg[x]
PushUp(L, x) ==
    [L EXCEPT !.agg[x] = Xor(Xor(AggOf(L, L.ch[x][1]), L.val[x]), AggOf(L, L.ch[x][2]))]

PushDown(L, x) ==
    IF ~L.rev[x] THEN L
    ELSE [L EXCEPT !.ch[x] = <<@[2], @[1]>>,
                   !.rev = [y \in Vertex |-> IF y = x THEN FALSE
                                             ELSE IF y \in {L.ch[x][1], L.ch[x][2]} THEN ~@[y]
                                             ELSE @[y]]]

Rotated(L, x) ==
    LET y == L.p[x]
        z == L.p[y]
        k == IF L.ch[y][2] = x THEN 2 ELSE 1
        inner == L.ch[x][3 - k]
        A == IF IsRoot(L, y) THEN L ELSE [L EXCEPT !.ch[z][IF L.ch[z][2] = y THEN 2 ELSE 1] = x]
        B == [A EXCEPT !.ch[y][k] = inner, !.ch[x][3 - k] = y,
                       !.p = [v \in Vertex |-> CASE v = x -> z [] v = y -> x
                                                 [] v = inner -> y [] OTHER -> @[v]]]
    IN  PushUp(PushUp(B, y), x)

\* Mutant: only x itself is pushed down.
PushedHere(L, x) == PushDown(L, x)

\* splay(): what was put off is pushed down on the way from the top to x, then
\* x is rotated to the top.
RECURSIVE Pushed(_, _), Risen(_, _), AccessFrom(_, _, _), Above(_, _), LeftEnd(_, _)
Pushed(L, x) == PushDown(IF IsRoot(L, x) THEN L ELSE Pushed(L, L.p[x]), x)
Risen(L, x) ==
    LET y == L.p[x]
        z == L.p[y]
        first == IF (L.ch[y][2] = x) = (L.ch[z][2] = y) THEN y ELSE x
    IN  IF IsRoot(L, x) THEN L
        ELSE Risen(Rotated(IF IsRoot(L, y) THEN L ELSE Rotated(L, first), x), x)
SplayTop(L, x) == Risen(Pushed(L, x), x)

\* access() makes t, the path below, what follows x on its path, and goes on above.
AccessFrom(L, x, t) ==
    IF x = 0 THEN L ELSE Above(PushUp([SplayTop(L, x) EXCEPT !.ch[x][2] = t], x), x)
Above(L, x) == AccessFrom(L, L.p[x], x)
Access(L, x) == AccessFrom(L, x, 0)
Exposed(L, x) == SplayTop(Access(L, x), x)
MakeRoot(L, x) == [Exposed(L, x) EXCEPT !.rev[x] = ~@]

\* The walk of find_root(): a node is looked at before it is pushed down.
LeftEnd(L, x) ==
    IF x = 0 \/ L.ch[x][1] = 0 THEN [forest |-> L, node |-> x]
    ELSE LET D == PushDown(L, x) IN LeftEnd(D, D.ch[x][1])

\* The forest after the call and the answer; 0 is a call that does not return:
\* splay(0) climbs for ever.
Ended(end) ==
    [forest |-> IF end.node = 0 THEN end.forest ELSE SplayTop(end.forest, end.node),
     answer |-> end.node]
FindRoot(L, x) == Ended(LeftEnd(Exposed(L, x), x))
RootSeen(L, x, y) == FindRoot(MakeRoot(L, x), y)

QueryPath(L, x, y) ==
    LET A == Exposed(MakeRoot(L, x), y) IN [forest |-> A, answer |-> A.agg[y]]

IsConnected(L, x, y) ==
    IF x = y THEN [forest |-> L, answer |-> TRUE]
    ELSE [RootSeen(L, x, y) EXCEPT !.answer = @ = x]

Hung(f, x, y) ==
    [forest |-> IF f.answer = x THEN f.forest ELSE [f.forest EXCEPT !.p[x] = y],
     answer |-> f.answer # x]
TryLink(L, x, y) == Hung(RootSeen(L, x, y), x, y)

Severed(L, x, y) == PushUp([L EXCEPT !.ch[y][1] = 0, !.p[x] = 0], y)
Cut(L, x, y) == Severed(Exposed(MakeRoot(L, x), y), x, y)

Parted(L, x, y) ==
    LET adjacent == L.ch[y][1] = x /\ L.ch[x][2] = 0
    IN  [forest |-> IF adjacent THEN Severed(L, x, y) ELSE L, answer |-> adjacent]
CutIf(f, x, y) ==
    IF f.answer # x THEN [f EXCEPT !.answer = FALSE] ELSE Parted(Exposed(f.forest, y), x, y)
TryCut(L, x, y) == CutIf(RootSeen(L, x, y), x, y)
-----------------------------------------------------------------------------
(* What the calls mean                                                      *)

RECURSIVE ReachedBy(_, _)
ReachedBy(E, X) ==
    LET Y == X \union UNION {e \in E : e \cap X # {}}
    IN  IF Y = X THEN X ELSE ReachedBy(E, Y)
Connected(x, y) == content.top[x] = content.top[y]

\* The nodes without which x and y would not be connected
OnPathBetween(x, y) ==
    {x, y} \union {z \in Vertex : /\ Connected(x, z)
                                 /\ y \notin ReachedBy({e \in content.edges : z \notin e}, {x})}

XorBetween(x, y) ==
    {b \in UNION {content.val[z] : z \in Vertex} :
        Cardinality({z \in OnPathBetween(x, y) : b \in content.val[z]}) % 2 = 1}

Turned(x) == [z \in Vertex |-> IF Connected(x, z) THEN x ELSE content.top[z]]
Rooted(x) == content' = [content EXCEPT !.top = Turned(x)]

LCMakeRoot(x) == rep' = MakeRoot(rep, x) /\ Rooted(x)
LCAccess(x) == rep' = Access(rep, x) /\ UNCHANGED content
LCFindRoot(x) == rep' = FindRoot(rep, x).forest /\ UNCHANGED content
LCGetVal(x) == rep' = SplayTop(rep, x) /\ UNCHANGED content
LCSetVal(x, v) ==
    /\ rep' = PushUp([SplayTop(rep, x) EXCEPT !.val[x] = v], x)
    /\ content' = [content EXCEPT !.val[x] = v]

LCQueryPath(x, y) ==
    Connected(x, y) /\ rep' = QueryPath(rep, x, y).forest /\ Rooted(x)

LCIsConnected(x, y) ==
    x # y /\ rep' = IsConnected(rep, x, y).forest /\ Rooted(x)

\* link() asserts with the same calls what try_link() tests with them.
LCTryLink(x, y) ==
    /\ rep' = TryLink(rep, x, y).forest
    /\ IF Connected(x, y) THEN Rooted(x)
       ELSE content' = [content EXCEPT
                !.edges = @ \union {{x, y}},
                !.top = [z \in Vertex |-> IF Connected(x, z) THEN content.top[y] ELSE @[z]]]

Without(x, y) ==
    LET E == content.edges \ {{x, y}}
    IN  [content EXCEPT !.edges = E,
            !.top = [z \in Vertex |-> IF z \in ReachedBy(E, {x}) THEN x
                                      ELSE IF z \in ReachedBy(E, {y}) THEN y ELSE @[z]]]

LCCut(x, y) == {x, y} \in content.edges /\ rep' = Cut(rep, x, y) /\ content' = Without(x, y)

LCTryCut(x, y) ==
    /\ rep' = TryCut(rep, x, y).forest
    /\ IF {x, y} \in content.edges THEN content' = Without(x, y) ELSE Rooted(x)

LCNext ==
    \/ \E x \in Vertex : \/ LCMakeRoot(x) \/ LCAccess(x) \/ LCFindRoot(x) \/ LCGetVal(x)
                         \/ \E v \in Settable : LCSetVal(x, v)
    \/ \E x, y \in Vertex : \/ LCQueryPath(x, y) \/ LCIsConnected(x, y)
                            \/ LCTryLink(x, y) \/ LCCut(x, y) \/ LCTryCut(x, y)

LCSpec == LCInit /\ [][LCNext]_dsVars
-----------------------------------------------------------------------------
(* Properties                                                               *)

RECURSIVE Depth(_)
Depth(x) == IF rep.parent[x] = x THEN 0 ELSE 1 + Depth(rep.parent[x])

\* Two elements have the same root exactly when the unions not undone connect
\* them, and then their parities differ as the relations require; is_bipartite_
\* is lost exactly by the first contradiction.  A root counts its elements,
\* and a path is never longer than the logarithm of that count, also after
\* rollbacks of unions of trees of equal size.
PartitionExact ==
    /\ \A x, y \in Element :
        LET together == Root(rep, x) = Root(rep, y)
            apart == (PathParity(rep, x) + PathParity(rep, y)) % 2
        IN  /\ together => <<x, y, apart>> \in Current
            /\ ~together => \A r \in {0, 1} : <<x, y, r>> \notin Current
    /\ rep.bipartite = content.consistent
    /\ rep.components = Cardinality({x \in Element : rep.parent[x] = x})
    /\ \A x \in Element :
        /\ rep.parent[x] = x =>
              rep.size[x] = Cardinality({y \in Element : Root(rep, y) = x})
        /\ 2 ^ Depth(x) <= rep.size[Root(rep, x)]

\* Every answer is that of the forest the calls have built: the root of a tree, who
\* is connected (which decides try_link() too), the xor of a path, whether an edge
\* could be removed, whatever reversals are still to be pushed down.
ForestExact ==
    \A x \in Vertex :
        /\ FindRoot(rep, x).answer = content.top[x]
        /\ \A y \in Vertex :
              /\ IsConnected(rep, x, y).answer = Connected(x, y)
              /\ Connected(x, y) => QueryPath(rep, x, y).answer = XorBetween(x, y)
              /\ TryCut(rep, x, y).answer = ({x, y} \in content.edges)
=============================================================================
