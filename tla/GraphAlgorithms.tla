--------------------------- MODULE GraphAlgorithms ---------------------------
(***************************************************************************)
(* The functions of graph_traversals.cpp, topological_sort.cpp,            *)
(* graph_representations.cpp, cut_and_cycle_properties.cpp,                *)
(* shortest_paths.cpp, all_pairs_shortest_paths.cpp,                       *)
(* strongly_connected_components.cpp, minimum_spanning_trees.cpp and       *)
(* lowest_common_ancestor.cpp, as operators on a graph.                    *)
(*                                                                         *)
(* A graph is a sequence of edges [from, to, weight]; where the code has   *)
(* adjacency lists, G[v] is the list of v, in the order of the edges.      *)
(* A loop over a list is a fold, a loop until a queue is empty an operator *)
(* that calls itself.  A priority queue of pairs is a set: the code never  *)
(* has the same pair in it twice, for it adds one only when it is less     *)
(* than what the vertex had before.                                        *)
(***************************************************************************)
EXTENDS Integers, FiniteSets, SequencesExt

CONSTANT N              \* vertices 0 .. N - 1

VARIABLE rep            \* the input: a graph, clauses, or the parents in a tree

INF == 1000
NONE == -1              \* parent of a root, distance of what is not reached

Vertex == 0 .. N - 1
Vertices == [i \in 1 .. N |-> i - 1]

\* The input: any choice of edges among a sequence of pairs, in its order, and of
\* their weights.
AnyGraph(pairs, weights) ==
    \E w \in [DOMAIN pairs -> weights \union {INF}] :
        rep' = SelectSeq([i \in DOMAIN pairs |->
                             [from |-> pairs[i][1], to |-> pairs[i][2], weight |-> w[i]]],
                         LAMBDA e : e.weight # INF)

\* Any set of at most "size" of the pairs of literals, in their order.
AnyClauses(pairs, size) ==
    \E C \in UNION {kSubset(k, DOMAIN pairs) : k \in 0 .. size} :
        rep' = LET in == SelectSeq([i \in DOMAIN pairs |-> i], LAMBDA i : i \in C)
               IN  [i \in DOMAIN in |-> pairs[in[i]]]

AnyTree == rep' \in {p \in [1 .. N -> 1 .. N] : p[1] = 1 /\ \A v \in 2 .. N : p[v] < v}

Out(v) == SelectSeq(rep, LAMBDA e : e.from = v)
Targets(edges) == [i \in DOMAIN edges |-> edges[i].to]
Directed == [v \in Vertex |-> Targets(Out(v))]
Reversed(e) == [e EXCEPT !.from = e.to, !.to = e.from]
\* Both directions of an edge are added when it is.
Incident(v) ==
    LET E == SelectSeq(rep, LAMBDA e : v \in {e.from, e.to})
    IN  [i \in DOMAIN E |-> IF E[i].from = v THEN E[i] ELSE Reversed(E[i])]
Undirected == [v \in Vertex |-> Targets(Incident(v))]

-----------------------------------------------------------------------------
(* graph_traversals.cpp                                                     *)

RECURSIVE BfsLoop(_, _), Visit(_, _, _), IterativeLoop(_, _, _), ZeroOneLoop(_)

BfsLoop(G, S) ==
    IF S.queue = << >> THEN S
    ELSE LET u == Head(S.queue)
             look(T, v) == IF T.dist[v] # NONE THEN T
                           ELSE [T EXCEPT !.dist[v] = T.dist[u] + 1, !.parent[v] = u,
                                          !.queue = Append(@, v)]
         IN  BfsLoop(G, FoldLeft(look, [S EXCEPT !.queue = Tail(@)], G[u]))

\* bfs() from one source, multi_source_bfs() from several.
Bfs(G, sources) ==
    BfsLoop(G, [dist |-> [v \in DOMAIN G |-> IF v \in ToSet(sources) THEN 0 ELSE NONE],
                parent |-> [v \in DOMAIN G |-> NONE], queue |-> sources])

\* A vertex goes to the front of the deque over an edge of weight 0.
ZeroOneLoop(S) ==
    IF S.queue = << >> THEN S.dist
    ELSE LET u == Head(S.queue)
             look(T, e) ==
                 IF T.dist[u] + e.weight >= T.dist[e.to] THEN T
                 ELSE [T EXCEPT !.dist[e.to] = T.dist[u] + e.weight,
                                !.queue = IF e.weight = 0 THEN <<e.to>> \o @
                                          ELSE Append(@, e.to)]
         IN  ZeroOneLoop(FoldLeft(look, [S EXCEPT !.queue = Tail(@)], Out(u)))

ZeroOneBfs(s) ==
    ZeroOneLoop([dist |-> [v \in Vertex |-> IF v = s THEN 0 ELSE INF], queue |-> <<s>>])

\* dfs_recursive_helper(): the order is also the set of the visited.
Visit(G, order, u) ==
    FoldLeft(LAMBDA o, v : IF v \in ToSet(o) THEN o ELSE Visit(G, o, v),
             Append(order, u), G[u])

DfsRecursive(G, s) == Visit(G, << >>, s)

IterativeLoop(G, stack, order) ==
    IF stack = << >> THEN order
    ELSE LET u == Head(stack)
             seen == ToSet(order) \union {u}
         IN  IF u \in ToSet(order) THEN IterativeLoop(G, Tail(stack), order)
             ELSE IterativeLoop(G, SelectSeq(G[u], LAMBDA v : v \notin seen) \o Tail(stack),
                                Append(order, u))

DfsIterative(G, s) == IterativeLoop(G, <<s>>, << >>)

\* has_cycle_undirected_helper(): nothing is looked at once a cycle is found.
RECURSIVE CycleFrom(_, _, _, _)
CycleFrom(G, S, u, parent) ==
    FoldLeft(LAMBDA T, v : IF T.cycle THEN T
                           ELSE IF v \notin T.visited THEN CycleFrom(G, T, v, u)
                           ELSE [T EXCEPT !.cycle = v # parent],
             [S EXCEPT !.visited = @ \union {u}], G[u])

HasCycleUndirected(G) ==
    FoldLeft(LAMBDA S, v : IF S.cycle \/ v \in S.visited THEN S
                           ELSE CycleFrom(G, S, v, NONE),
             [visited |-> {}, cycle |-> FALSE], Vertices).cycle

\* The three colours of has_cycle_directed() and topological_sort_dfs(), which
\* also notes the vertices as they are finished, and throws at a cycle.
RECURSIVE Colour(_, _, _)
Colour(G, S, u) ==
    LET look(T, v) == IF T.cycle THEN T
                      ELSE IF T.color[v] = "gray" THEN [T EXCEPT !.cycle = TRUE]
                      ELSE IF T.color[v] = "white" THEN Colour(G, T, v)
                      ELSE T
        done == FoldLeft(look, [S EXCEPT !.color[u] = "gray"], G[u])
    IN  IF done.cycle THEN done
        ELSE [done EXCEPT !.color[u] = "black", !.order = <<u>> \o @]

DfsAll(G) ==
    FoldLeft(LAMBDA S, u : IF S.cycle \/ S.color[u] # "white" THEN S ELSE Colour(G, S, u),
             [color |-> [v \in DOMAIN G |-> "white"], order |-> << >>, cycle |-> FALSE],
             [i \in 1 .. Cardinality(DOMAIN G) |-> i - 1])

HasCycleDirected(G) == DfsAll(G).cycle

ConnectedComponents(G) ==
    FoldLeft(LAMBDA comps, v :
                 IF \E c \in ToSet(comps) : v \in c THEN comps
                 ELSE Append(comps, {w \in Vertex : Bfs(G, <<v>>).dist[w] # NONE}),
             << >>, Vertices)
-----------------------------------------------------------------------------
(* topological_sort.cpp                                                     *)

\* The reverse of the order in which depth-first search leaves the vertices.
TopologicalSortDfs(G) == DfsAll(G).order

RECURSIVE PeelLoop(_, _, _)
\* A queue, or with "least" a priority queue, of the vertices without an edge in.
PeelLoop(G, S, least) ==
    IF S.queue = << >> THEN S.order
    ELSE LET u == IF least THEN Min(ToSet(S.queue)) ELSE Head(S.queue)
             look(T, v) ==
                 [T EXCEPT !.indegree[v] = @ - 1,
                           !.queue = IF T.indegree[v] = 1 THEN Append(@, v) ELSE @]
         IN  PeelLoop(G, FoldLeft(look, [S EXCEPT !.queue = Remove(@, u),
                                                  !.order = Append(@, u)], G[u]), least)

\* What is short of N vertices makes the code throw.
Peeled(G, least) ==
    LET indegree == [v \in Vertex |-> Cardinality({u \in Vertex : v \in ToSet(G[u])})]
    IN  PeelLoop(G, [indegree |-> indegree, order |-> << >>,
                     queue |-> SelectSeq(Vertices, LAMBDA v : indegree[v] = 0)], least)

TopologicalSortKahn(G) == Peeled(G, FALSE)
LexicographicallySmallest(G) == Peeled(G, TRUE)

LongestPathDag ==
    LET look(dist, e) == IF dist[e.from] + e.weight <= dist[e.to] THEN dist
                         ELSE [dist EXCEPT ![e.to] = dist[e.from] + e.weight]
        dist == FoldLeft(LAMBDA d, u : FoldLeft(look, d, Out(u)),
                         [v \in Vertex |-> 0], TopologicalSortKahn(Directed))
    IN  Max({0} \union {dist[v] : v \in Vertex})
-----------------------------------------------------------------------------
(* shortest_paths.cpp                                                       *)

Start(s) == [dist |-> [v \in Vertex |-> IF v = s THEN 0 ELSE INF],
             parent |-> [v \in Vertex |-> NONE]]

Improves(S, e) == S.dist[e.from] # INF /\ S.dist[e.from] + e.weight < S.dist[e.to]

Relax(S, e) ==
    IF ~Improves(S, e) THEN S
    ELSE [S EXCEPT !.dist[e.to] = S.dist[e.from] + e.weight, !.parent[e.to] = e.from]

RECURSIVE DijkstraLoop(_, _), SpfaLoop(_), PathTo(_, _, _)

\* Adj[v] are the edges out of v.  A pair that is no longer the distance of its
\* vertex is dropped.
DijkstraLoop(Adj, S) ==
    IF S.pq = {} THEN S
    ELSE LET top == CHOOSE p \in S.pq : \A q \in S.pq :
                        p[1] < q[1] \/ (p[1] = q[1] /\ p[2] <= q[2])
             rest == [S EXCEPT !.pq = @ \ {top}]
             look(T, e) == IF Improves(T, e)
                           THEN [Relax(T, e) EXCEPT
                                    !.pq = @ \union {<<T.dist[e.from] + e.weight, e.to>>}]
                           ELSE T
         IN  DijkstraLoop(Adj, IF top[1] > S.dist[top[2]] THEN rest
                               ELSE FoldLeft(look, rest, Adj[top[2]]))

Dijkstra(Adj, s) ==
    DijkstraLoop(Adj, [dist |-> Start(s).dist, parent |-> Start(s).parent, pq |-> {<<0, s>>}])

\* reconstruct_path()
PathTo(parent, v, path) ==
    IF v = NONE THEN path ELSE PathTo(parent, parent[v], <<v>> \o path)
ReconstructPath(s, v, parent) ==
    IF s = v THEN <<s>>
    ELSE IF parent[v] = NONE \/ Head(PathTo(parent, v, << >>)) # s THEN << >>
    ELSE PathTo(parent, v, << >>)

DagShortestPaths(order, s) ==
    FoldLeft(LAMBDA S, u : FoldLeft(Relax, S, Out(u)), Start(s), order)

\* The same with the signs of lengths and weights reversed.
DagLongestPaths(order, s) ==
    LET look(dist, e) ==
            IF dist[e.from] # -INF /\ dist[e.from] + e.weight > dist[e.to]
            THEN [dist EXCEPT ![e.to] = dist[e.from] + e.weight] ELSE dist
    IN  FoldLeft(LAMBDA d, u : FoldLeft(look, d, Out(u)),
                 [v \in Vertex |-> IF v = s THEN 0 ELSE -INF], order)

\* Rounds over all edges; a round without an improvement would be repeated in
\* vain, so leaving the loop early is not told apart.
BellmanFord(S0, edges, rounds) ==
    LET S == FoldLeft(LAMBDA T, i : FoldLeft(Relax, T, edges), S0,
                      [i \in 1 .. rounds |-> i])
    IN  [ok |-> ~\E e \in ToSet(edges) : Improves(S, e), dist |-> S.dist,
         parent |-> S.parent]

SpfaLoop(S) ==
    IF S.queue = << >> \/ ~S.ok THEN S
    ELSE LET u == Head(S.queue)
             look(T, e) ==
                 IF ~T.ok \/ ~Improves(T, e) THEN T
                 ELSE IF e.to \in ToSet(T.queue) THEN Relax(T, e)
                 ELSE [Relax(T, e) EXCEPT !.queue = Append(@, e.to),
                                          !.relaxed[e.to] = @ + 1,
                                          !.ok = T.relaxed[e.to] + 1 < N]
         IN  SpfaLoop(FoldLeft(look, [S EXCEPT !.queue = Tail(@)], Out(u)))

Spfa(s) ==
    SpfaLoop([dist |-> Start(s).dist, parent |-> Start(s).parent, queue |-> <<s>>,
              relaxed |-> [v \in Vertex |-> 0], ok |-> TRUE])
-----------------------------------------------------------------------------
(* all_pairs_shortest_paths.cpp                                             *)

WeightOf(i, j) ==
    LET E == {e \in ToSet(rep) : e.from = i /\ e.to = j}
    IN  IF E = {} THEN INF ELSE Min({e.weight : e \in E})

\* dist is improved in place; next is the first hop.
FloydWarshall ==
    LET through(S, k, i, j) ==
            IF S.dist[i][k] = INF \/ S.dist[k][j] = INF
               \/ S.dist[i][k] + S.dist[k][j] >= S.dist[i][j] THEN S
            ELSE [S EXCEPT !.dist[i][j] = S.dist[i][k] + S.dist[k][j],
                           !.next[i][j] = S.next[i][k]]
        start == [dist |-> [i \in Vertex |-> [j \in Vertex |->
                               IF i = j THEN Min({0, WeightOf(i, i)}) ELSE WeightOf(i, j)]],
                  next |-> [i \in Vertex |-> [j \in Vertex |->
                               IF i = j \/ WeightOf(i, j) # INF THEN j ELSE NONE]]]
        row(S, k, i) == FoldLeft(LAMBDA T, j : through(T, k, i, j), S, Vertices)
        table(S, k) == FoldLeft(LAMBDA T, i : row(T, k, i), S, Vertices)
    IN  FoldLeft(table, start, Vertices)

HasNegativeCycle(dist) == \E i \in Vertex : dist[i][i] < 0

RECURSIVE Hops(_, _, _, _)
\* reconstruct_path(): the hops from u to v, or none if they do not end.
Hops(next, u, v, path) ==
    IF u = v THEN path
    ELSE IF next[u][v] = NONE \/ Len(path) > N THEN << >>
    ELSE Hops(next, next[u][v], v, Append(path, next[u][v]))

\* bellman_ford_potential(): an edge of weight 0 from a new vertex N to all.
Potentials ==
    BellmanFord([dist |-> [v \in 0 .. N |-> IF v = N THEN 0 ELSE INF],
                 parent |-> [v \in 0 .. N |-> NONE]],
                rep \o [i \in 1 .. N |-> [from |-> N, to |-> i - 1, weight |-> 0]], N)

\* Dijkstra on weights that the potentials make non-negative.
Johnson ==
    LET h == Potentials.dist
        adj == [u \in Vertex |->
                   [i \in DOMAIN Out(u) |->
                       [Out(u)[i] EXCEPT !.weight = @ + h[u] - h[Out(u)[i].to]]]]
        from(u) == Dijkstra(adj, u).dist
    IN  [u \in Vertex |-> [v \in Vertex |->
            IF from(u)[v] = INF THEN INF ELSE from(u)[v] - h[u] + h[v]]]

\* warshall_transitive_closure(), and the same with rows of bits, here sets.
TransitiveClosure ==
    FoldLeft(LAMBDA row, k : [i \in Vertex |->
                 IF k \in row[i] THEN row[i] \union row[k] ELSE row[i]],
             [i \in Vertex |-> {i} \union ToSet(Directed[i])], Vertices)
-----------------------------------------------------------------------------
(* strongly_connected_components.cpp                                        *)

RECURSIVE Finish(_, _, _), TarjanDfs(_, _, _)

\* dfs1(): S is the finishing order so far and the set of the visited.
Finish(G, S, u) ==
    LET done == FoldLeft(LAMBDA T, v : IF v \in T.visited THEN T ELSE Finish(G, T, v),
                         [S EXCEPT !.visited = @ \union {u}], G[u])
    IN  [done EXCEPT !.order = <<u>> \o @]

Kosaraju(G) ==
    LET all == [i \in 1 .. Cardinality(DOMAIN G) |-> i - 1]
        transpose == [v \in DOMAIN G |-> SelectSeq(all, LAMBDA u : v \in ToSet(G[u]))]
        order == FoldLeft(LAMBDA S, u : IF u \in S.visited THEN S ELSE Finish(G, S, u),
                          [visited |-> {}, order |-> << >>], all).order
        collect(S, u) ==
            IF u \in ToSet(S.seen) THEN S
            ELSE LET seen == Visit(transpose, S.seen, u)
                 IN  [seen |-> seen,
                      comps |-> Append(S.comps, ToSet(seen) \ ToSet(S.seen))]
    IN  FoldLeft(collect, [seen |-> << >>, comps |-> << >>], order).comps

TarjanDfs(G, S, u) ==
    LET look(T, v) ==
            IF T.disc[v] = NONE
            THEN LET W == TarjanDfs(G, T, v) IN [W EXCEPT !.low[u] = Min({@, W.low[v]})]
            ELSE IF v \in ToSet(T.stack) THEN [T EXCEPT !.low[u] = Min({@, T.disc[v]})]
            ELSE T
        done == FoldLeft(look, [S EXCEPT !.disc[u] = S.timer, !.low[u] = S.timer,
                                         !.timer = @ + 1, !.stack = <<u>> \o @], G[u])
        depth == CHOOSE i \in DOMAIN done.stack : done.stack[i] = u
    IN  IF done.low[u] # done.disc[u] THEN done
        ELSE [done EXCEPT !.comps = Append(@, ToSet(SubSeq(done.stack, 1, depth))),
                          !.stack = SubSeq(@, depth + 1, Len(@))]

\* The components, each before those it can be reached from.
Tarjan(G) ==
    FoldLeft(LAMBDA S, u : IF S.disc[u] # NONE THEN S ELSE TarjanDfs(G, S, u),
             [disc |-> [v \in DOMAIN G |-> NONE], low |-> [v \in DOMAIN G |-> NONE],
              stack |-> << >>, timer |-> 0, comps |-> << >>],
             [i \in 1 .. Cardinality(DOMAIN G) |-> i - 1]).comps

ComponentId(G, comps) == [v \in DOMAIN G |-> CHOOSE c \in DOMAIN comps : v \in comps[c]]

CondensationDag(G, id) ==
    {<<id[u], id[v]>> : <<u, v>> \in {p \in (DOMAIN G) \X (DOMAIN G) :
                                          p[2] \in ToSet(G[p[1]]) /\ id[p[1]] # id[p[2]]}}

\* Literal 2 x says that variable x holds, 2 x + 1 that it does not.
Negated(l) == IF l % 2 = 0 THEN l + 1 ELSE l - 1

\* add_clause(): each literal of a clause follows from the negation of the other.
Implications(clauses) ==
    [l \in 0 .. 2 * N - 1 |->
        FoldLeft(LAMBDA list, c :
                     list \o (IF Negated(c[1]) = l THEN <<c[2]>> ELSE << >>)
                          \o (IF Negated(c[2]) = l THEN <<c[1]>> ELSE << >>),
                 << >>, clauses)]

\* Mutant: the components compared the wrong way round.
TwoSatReversed(clauses) ==
    LET id == ComponentId(Implications(clauses), Tarjan(Implications(clauses)))
    IN  [ok |-> \A x \in Vertex : id[2 * x] # id[2 * x + 1],
         assignment |-> [x \in Vertex |-> id[2 * x] > id[2 * x + 1]]]

\* solve(): a variable holds if its literal is in the earlier component.
TwoSat(clauses) ==
    LET id == ComponentId(Implications(clauses), Tarjan(Implications(clauses)))
    IN  [ok |-> \A x \in Vertex : id[2 * x] # id[2 * x + 1],
         assignment |-> [x \in Vertex |-> id[2 * x] < id[2 * x + 1]]]
-----------------------------------------------------------------------------
(* minimum_spanning_trees.cpp                                               *)

\* DSU::unite(): comp[v] names the component of v.
Unite(comp, u, v) == [w \in Vertex |-> IF comp[w] = comp[v] THEN comp[u] ELSE comp[w]]
Apart == [v \in Vertex |-> v]
Total(edges) == FoldLeft(LAMBDA sum, e : sum + e.weight, 0, edges)

RECURSIVE ByWeight(_), PrimLoop(_), BoruvkaLoop(_)

ByWeight(E) ==
    IF E = << >> THEN << >>
    ELSE LET least == Min({e.weight : e \in ToSet(E)})
         IN  SelectSeq(E, LAMBDA e : e.weight = least)
                 \o ByWeight(SelectSeq(E, LAMBDA e : e.weight # least))

\* An edge is taken if it joins two components.
Take(S, e) ==
    IF S.comp[e.from] = S.comp[e.to] THEN S
    ELSE [comp |-> Unite(S.comp, e.from, e.to), mst |-> Append(S.mst, e)]

Kruskal(edges) == FoldLeft(Take, [comp |-> Apart, mst |-> << >>], ByWeight(edges)).mst

PrimLoop(S) ==
    IF S.pq = {} THEN S.mst
    ELSE LET top == CHOOSE p \in S.pq : \A q \in S.pq :
                        p[1] < q[1] \/ (p[1] = q[1] /\ p[2] <= q[2])
             u == top[2]
             look(T, e) ==
                 IF e.to \in T.visited \/ e.weight >= T.best[e.to] THEN T
                 ELSE [T EXCEPT !.best[e.to] = e.weight, !.parent[e.to] = u,
                                !.pq = @ \union {<<e.weight, e.to>>}]
             added == [S EXCEPT !.pq = @ \ {top}, !.visited = @ \union {u},
                                !.mst = IF S.parent[u] = NONE THEN @
                                        ELSE Append(@, [from |-> S.parent[u], to |-> u,
                                                        weight |-> top[1]])]
         IN  PrimLoop(IF u \in S.visited THEN [S EXCEPT !.pq = @ \ {top}]
                      ELSE FoldLeft(look, added, Incident(u)))

Prim(s) ==
    PrimLoop([pq |-> {<<0, s>>}, visited |-> {}, mst |-> << >>,
              best |-> [v \in Vertex |-> IF v = s THEN 0 ELSE INF],
              parent |-> [v \in Vertex |-> NONE]])

\* A round: the first of the lightest edges out of each component, by its name.
BoruvkaLoop(S) ==
    LET out(c) == {i \in DOMAIN rep : /\ S.comp[rep[i].from] # S.comp[rep[i].to]
                                      /\ c \in {S.comp[rep[i].from], S.comp[rep[i].to]}}
        best(c) == CHOOSE i \in out(c) : \A j \in out(c) :
                       \/ rep[i].weight < rep[j].weight
                       \/ rep[i].weight = rep[j].weight /\ i <= j
        names == SelectSeq(Vertices, LAMBDA c : out(c) # {})
    IN  IF names = << >> THEN S.mst
        ELSE BoruvkaLoop(FoldLeft(LAMBDA T, c : Take(T, rep[best(c)]), S, names))

Boruvka == BoruvkaLoop([comp |-> Apart, mst |-> << >>])

Opposite(edges) == [i \in DOMAIN edges |-> [edges[i] EXCEPT !.weight = -@]]
MaximumSpanningTree == Opposite(Kruskal(Opposite(rep)))
-----------------------------------------------------------------------------
(* cut_and_cycle_properties.cpp: the weight of a least spanning tree         *)

KruskalTotal ==
    Total(FoldLeft(LAMBDA S, e : IF Len(S.mst) = N - 1 THEN S ELSE Take(S, e),
                   [comp |-> Apart, mst |-> << >>], ByWeight(rep)).mst)

\* The lightest edge out of the cut, unless it leads back into it
RECURSIVE CutLoop(_)
CutLoop(S) ==
    LET top == CHOOSE p \in S.pq : \A q \in S.pq :
                    p[1] < q[1] \/ (p[1] = q[1] /\ p[2] <= q[2])
        cut == S.cut \union {top[2]}
        out == SelectSeq(Incident(top[2]), LAMBDA e : e.to \notin cut)
    IN  IF S.pq = {} \/ S.cut = Vertex THEN S.total
        ELSE IF top[2] \in S.cut THEN CutLoop([S EXCEPT !.pq = @ \ {top}])
        ELSE CutLoop([pq |-> (S.pq \ {top}) \union {<<e.weight, e.to>> : e \in ToSet(out)},
                      cut |-> cut, total |-> S.total + top[1]])

PrimTotal == CutLoop([pq |-> {<<0, 0>>}, cut |-> {}, total |-> 0])

\* An edge is deleted, the heaviest first, if the rest still connects all.
Connects(E) ==
    LET comp == FoldLeft(LAMBDA c, e : Unite(c, e.from, e.to), Apart, E)
    IN  \A v, w \in Vertex : comp[v] = comp[w]

DeletedIf(E, e) ==
    LET rest == SelectSeq(E, LAMBDA f : f # e) IN IF Connects(rest) THEN rest ELSE E

ReverseDelete ==
    LET heaviest == Opposite(ByWeight(Opposite(rep)))
    IN  Total(FoldLeft(DeletedIf, heaviest, heaviest))
-----------------------------------------------------------------------------
(* graph_representations.cpp                                                *)

\* Both directions of an edge are added one after the other.
Arcs(directed) ==
    IF directed THEN rep ELSE FlattenSeq([i \in DOMAIN rep |-> <<rep[i], Reversed(rep[i])>>])

AdjacencyList(arcs) ==
    [v \in Vertex |-> LET out == SelectSeq(arcs, LAMBDA e : e.from = v)
                      IN  [k \in DOMAIN out |-> [to |-> out[k].to, weight |-> out[k].weight]]]
EdgeList(adj) ==
    FlattenSeq([i \in 1 .. N |-> [k \in DOMAIN adj[i - 1] |->
                   [from |-> i - 1, to |-> adj[i - 1][k].to, weight |-> adj[i - 1][k].weight]]])

\* INF is NO_EDGE; of several edges between two vertices the last one is kept.
AdjacencyMatrix(adj) ==
    FoldLeft(LAMBDA m, e : [m EXCEPT ![e.from][e.to] = e.weight],
             [u \in Vertex |-> [v \in Vertex |-> IF u = v THEN 0 ELSE INF]], EdgeList(adj))
MatrixToList(mat) ==
    [u \in Vertex |->
        LET next == SelectSeq(Vertices, LAMBDA v : u # v /\ mat[u][v] # INF)
        IN  [k \in DOMAIN next |-> [to |-> next[k], weight |-> mat[u][next[k]]]]]

\* from_edges(): degrees are counted one place further on, summed up, and then say
\* where the next edge of a vertex goes.
Offsets(arcs) ==
    FoldLeft(LAMBDA o, i : [o EXCEPT ![i] = @ + o[i - 1]],
             FoldLeft(LAMBDA o, e : [o EXCEPT ![e.from + 1] = @ + 1],
                      [i \in 0 .. N |-> 0], arcs),
             [i \in 1 .. N |-> i])
CSR(arcs) ==
    FoldLeft(LAMBDA g, e : [g EXCEPT !.head[e.from] = @ + 1,
                                     !.next[g.head[e.from]] = [to |-> e.to, weight |-> e.weight]],
             [offsets |-> Offsets(arcs), head |-> Offsets(arcs),
              next |-> [i \in 0 .. Len(arcs) - 1 |-> [to |-> 0, weight |-> 0]]], arcs)
Degree(g, u) == g.offsets[u + 1] - g.offsets[u]

\* ImplicitGrid: the offsets that lead to a cell of the grid
Neighbors(rows, cols, r, c, offsets) ==
    SelectSeq([k \in DOMAIN offsets |-> <<r + offsets[k][1], c + offsets[k][2]>>],
              LAMBDA q : q[1] \in 0 .. rows - 1 /\ q[2] \in 0 .. cols - 1)
Neighbors4(rows, cols, r, c) ==
    Neighbors(rows, cols, r, c, <<<<-1, 0>>, <<1, 0>>, <<0, -1>>, <<0, 1>>>>)
Neighbors8(rows, cols, r, c) ==
    Neighbors(rows, cols, r, c, <<<<-1, -1>>, <<-1, 0>>, <<-1, 1>>, <<0, -1>>, <<0, 1>>,
                                  <<1, -1>>, <<1, 0>>, <<1, 1>>>>)
-----------------------------------------------------------------------------
(* lowest_common_ancestor.cpp: vertices 1 .. N, rep[v] the parent of v, and  *)
(* the root its own parent.                                                  *)

\* ceil(log2(max(n, 2))) + 1
Log == 1 + CHOOSE k \in 1 .. N + 1 : 2 ^ k >= N /\ \A j \in 1 .. k - 1 : 2 ^ j < N

RECURSIVE Up(_, _), Depth(_)
Up(v, i) == IF i = 0 THEN rep[v] ELSE Up(Up(v, i - 1), i - 1)
Depth(v) == IF rep[v] = v THEN 0 ELSE Depth(rep[v]) + 1

\* query() with u not above v: u is lifted to the depth of v, then both as far
\* as they stay apart.
Lift(u, diff) ==
    FoldLeft(LAMBDA w, i : IF (diff \div 2 ^ i) % 2 = 1 THEN Up(w, i) ELSE w,
             u, [i \in 1 .. Log |-> i - 1])

Lca(u, v) ==
    LET deep == IF Depth(u) < Depth(v) THEN v ELSE u
        high == IF Depth(u) < Depth(v) THEN u ELSE v
        level == <<Lift(deep, Depth(deep) - Depth(high)), high>>
        jump(p, i) == IF Up(p[1], i) # Up(p[2], i) THEN <<Up(p[1], i), Up(p[2], i)>> ELSE p
        below == FoldLeft(jump, level, [i \in 1 .. Log |-> Log - i])
    IN  IF level[1] = high THEN high ELSE Up(below[1], 0)

Distance(u, v) == Depth(u) + Depth(v) - 2 * Depth(Lca(u, v))
-----------------------------------------------------------------------------
(* Properties: every function against the definition of what it computes.   *)

RECURSIVE Shortest(_, _, _)
\* The least weight of a path from u to v outside "avoid" that visits no vertex
\* twice.
Shortest(u, v, avoid) ==
    IF u = v THEN 0
    ELSE LET rest(e) == Shortest(e.to, v, avoid \union {u})
         IN  Min({INF} \union {e.weight + rest(e) :
                 e \in {d \in ToSet(Out(u)) : d.to \notin avoid \union {u} /\ rest(d) # INF}})

Reaches(u, v) == Shortest(u, v, {}) # INF
NegativeCycleAt(v) ==
    \E e \in ToSet(Out(v)) : Reaches(e.to, v) /\ e.weight + Shortest(e.to, v, {}) < 0

Along(path) ==
    FoldLeft(LAMBDA sum, i : sum + WeightOf(path[i], path[i + 1]), 0,
             [i \in 1 .. Len(path) - 1 |-> i])

\* Distances are those of the shortest paths and parents lead along one; negative
\* cycles are found if and only if the source reaches one.  The queue-based
\* search may count no vertex more often than that.
SingleSourceExact ==
    LET bad == \E v \in Vertex : Reaches(0, v) /\ NegativeCycleAt(v)
        bf == BellmanFord(Start(0), rep, N - 1)
        right(S) == \A v \in Vertex :
            /\ S.dist[v] = Shortest(0, v, {})
            /\ S.dist[v] # INF => Along(ReconstructPath(0, v, S.parent)) = S.dist[v]
            /\ S.dist[v] = INF => ReconstructPath(0, v, S.parent) = << >>
    IN  /\ bf.ok = ~bad /\ Spfa(0).ok = ~bad
        /\ ~bad => right(bf) /\ right(Spfa(0))
        /\ (\A e \in ToSet(rep) : e.weight >= 0) =>
              right(Dijkstra([v \in Vertex |-> Out(v)], 0))
        /\ (\A e \in ToSet(rep) : e.weight \in {0, 1}) =>
              ZeroOneBfs(0) = [v \in Vertex |-> Shortest(0, v, {})]

\* The same for all pairs, of the tables and of the next hops.
AllPairsExact ==
    LET bad == \E v \in Vertex : NegativeCycleAt(v)
        fw == FloydWarshall
        least == [u \in Vertex |-> [v \in Vertex |-> Shortest(u, v, {})]]
    IN  /\ HasNegativeCycle(fw.dist) = bad
        /\ Potentials.ok = ~bad
        /\ ~bad => /\ fw.dist = least
                   /\ Johnson = least
                   /\ \A u, v \in Vertex : LET p == Hops(fw.next, u, v, <<u>>)
                                           IN  IF least[u][v] = INF THEN p = << >>
                                               ELSE Along(p) = least[u][v]
        /\ TransitiveClosure = [u \in Vertex |-> {v \in Vertex : Reaches(u, v)}]

Cyclic(G) == \E u \in Vertex : \E v \in ToSet(G[u]) : Reaches(v, u)

IsTopological(G, order) ==
    /\ Len(order) = N /\ ToSet(order) = Vertex
    /\ \A i, j \in 1 .. N : order[j] \in ToSet(G[order[i]]) => i < j

\* Searches reach what can be reached, in the same order with a stack as with
\* recursion; breadth-first search at the least number of steps.  An order is
\* topological, the least one of all, and found unless there is a cycle.  The
\* longest path follows it.
SearchExact ==
    LET G == Directed
        reached == {v \in Vertex : Reaches(0, v)}
        hops(v) == Bfs(G, <<0>>).dist[v]
    IN  /\ ToSet(DfsRecursive(G, 0)) = reached
        /\ DfsIterative(G, 0) = DfsRecursive(G, 0)
        /\ \A v \in Vertex : hops(v) # NONE <=> v \in reached
        /\ \A e \in ToSet(rep) : hops(e.from) # NONE => hops(e.to) <= hops(e.from) + 1
        /\ \A v \in reached : LET p == PathTo(Bfs(G, <<0>>).parent, v, << >>)
                              IN  Len(p) = hops(v) + 1 /\ Along(p) # INF /\ Head(p) = 0
        /\ \A v \in Vertex :
              Bfs(G, <<0, 1>>).dist[v]
                  = LET d == {Bfs(G, <<s>>).dist[v] : s \in {0, 1}} \ {NONE}
                    IN  IF d = {} THEN NONE ELSE Min(d)
        /\ HasCycleDirected(G) = Cyclic(G)
        /\ IF Cyclic(G) THEN Len(TopologicalSortKahn(G)) < N
           ELSE /\ \A order \in {TopologicalSortDfs(G), TopologicalSortKahn(G),
                                 LexicographicallySmallest(G)} : IsTopological(G, order)
                /\ LET lex == LexicographicallySmallest(G)
                   IN  \A i \in 1 .. N :
                          lex[i] = Min({v \in ToSet(SubSeq(lex, i, N)) :
                                           \A w \in ToSet(SubSeq(lex, i, N)) :
                                               v \notin ToSet(G[w])})
                /\ \A s \in Vertex :
                      LET long == DagLongestPaths(TopologicalSortKahn(G), s)
                      IN  /\ long[s] = 0
                          /\ \A v \in Vertex \ {s} :
                                long[v] = Max({-INF} \union
                                    {long[e.from] + e.weight :
                                        e \in {d \in ToSet(rep) : d.to = v /\ long[d.from] # -INF}})
                          /\ \A v \in Vertex : long[v] <= LongestPathDag
                          /\ DagShortestPaths(TopologicalSortKahn(G), s).dist
                                = [v \in Vertex |-> Shortest(s, v, {})]

\* Both algorithms find the classes of mutual reachability; the condensation
\* goes from a later component of Tarjan's to an earlier one.
ComponentsExact ==
    LET G == Directed
        classes == {{v \in Vertex : Reaches(u, v) /\ Reaches(v, u)} : u \in Vertex}
    IN  /\ ToSet(Kosaraju(G)) = classes
        /\ ToSet(Tarjan(G)) = classes
        /\ Len(Tarjan(G)) = Cardinality(classes)
        /\ \A p \in CondensationDag(G, ComponentId(G, Tarjan(G))) : p[1] > p[2]

\* A set of clauses over N variables, rep, is solved if it can be.
TwoSatExact ==
    LET holds(a, l) == IF l % 2 = 0 THEN a[l \div 2] ELSE ~a[l \div 2]
        satisfies(a) == \A c \in ToSet(rep) : holds(a, c[1]) \/ holds(a, c[2])
    IN  /\ TwoSat(rep).ok = \E a \in [Vertex -> BOOLEAN] : satisfies(a)
        /\ TwoSat(rep).ok => satisfies(TwoSat(rep).assignment)

\* Cycles of an undirected graph, its components, and its spanning forests of
\* least weight, which three algorithms build; the greatest one.
SpanningForestsLeast ==
    LET G == Undirected
        comps == ConnectedComponents(G)
        joined(E) == FoldSet(LAMBDA e, c : Unite(c, e.from, e.to), Apart, E)
        spans(E) == Cardinality({joined(E)[v] : v \in Vertex}) = Len(comps)
        forests == {E \in kSubset(N - Len(comps), ToSet(rep)) : spans(E)}
        weights == {FoldSet(LAMBDA e, sum : sum + e.weight, 0, E) : E \in forests}
        least(T) == Total(T) = Min(weights) /\ Len(T) = N - Len(comps)
    IN  /\ UNION ToSet(comps) = Vertex
        /\ \A c \in ToSet(comps) : \A v \in c : c = ToSet(DfsRecursive(G, v))
        /\ HasCycleUndirected(G) <=> Len(rep) > N - Len(comps)
        /\ least(Kruskal(rep))
        /\ least(Boruvka)
        /\ Len(comps) = 1 => least(Prim(0))
        /\ Len(comps) > 1 => Len(Prim(0)) < N - 1
        /\ Total(MaximumSpanningTree) = Max(weights)
        /\ KruskalTotal = Min(weights)
        /\ Len(comps) = 1 => PrimTotal = Min(weights) /\ ReverseDelete = Min(weights)

\* Every representation has the edges of every vertex, in the order in which they
\* were added; a matrix has the last of those between two vertices, in order.
RepresentationsExact ==
    \A directed \in BOOLEAN :
        LET arcs == Arcs(directed)  adj == AdjacencyList(arcs)  csr == CSR(arcs)
            mat == AdjacencyMatrix(adj)
            between(u, v) == SelectSeq(arcs, LAMBDA e : e.from = u /\ e.to = v)
        IN  /\ Len(EdgeList(adj)) = Len(arcs) /\ AdjacencyList(EdgeList(adj)) = adj
            /\ AdjacencyMatrix(MatrixToList(mat)) = mat
            /\ \A u \in Vertex :
                  /\ adj[u] = [k \in 1 .. Degree(csr, u) |-> csr.next[csr.offsets[u] + k - 1]]
                  /\ \A v \in Vertex \ {u} :
                        mat[u][v] = IF between(u, v) = << >> THEN INF ELSE Last(between(u, v)).weight

\* The neighbours of a cell, rep being the size of the grid, are the cells next to
\* it, each of them once and it one of theirs.
CellsExact ==
    LET cells == (0 .. rep[1] - 1) \X (0 .. rep[2] - 1)
        four(p) == Neighbors4(rep[1], rep[2], p[1], p[2])
        eight(p) == Neighbors8(rep[1], rep[2], p[1], p[2])
        apart(p, q) == {Max({p[i] - q[i], q[i] - p[i]}) : i \in {1, 2}}
    IN  \A p \in cells :
            /\ IsInjective(four(p)) /\ IsInjective(eight(p))
            /\ ToSet(eight(p)) = {q \in cells : Max(apart(p, q)) = 1}
            /\ ToSet(four(p)) = {q \in cells : apart(p, q) = {0, 1}}

RECURSIVE Ancestors(_)
Ancestors(v) == {v} \union (IF rep[v] = v THEN {} ELSE Ancestors(rep[v]))

\* query() answers with the deepest common ancestor, distance() with the steps.
AncestorsExact ==
    \A u, v \in 1 .. N :
        LET common == Ancestors(u) \intersect Ancestors(v)
        IN  /\ Lca(u, v) \in common
            /\ \A w \in common : Depth(w) <= Depth(Lca(u, v))
            /\ Distance(u, v) = Cardinality((Ancestors(u) \union Ancestors(v)) \ common)
=============================================================================
