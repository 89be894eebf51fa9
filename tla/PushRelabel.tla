----------------------------- MODULE PushRelabel -----------------------------
(***************************************************************************)
(* Maximum flow of network_flow_and_push_relabel.cpp: highest-label        *)
(* push-relabel with the gap heuristic and current edges, one action per   *)
(* turn of the loops of compute_max_flow() and discharge().                *)
(*                                                                         *)
(* An input edge i stands for both arcs add_edge() makes of it; the flow   *)
(* of the backward one is the negative of flow[i], as every assignment     *)
(* keeps it.  Edges from a vertex to itself are outside the domain: the    *)
(* index of their reverse arc would be wrong.                              *)
(***************************************************************************)
EXTENDS Integers, FiniteSets, SequencesExt

CONSTANTS N,          \* n_: vertices 0 .. N - 1, the source 0, the sink N - 1
          SourceCap,  \* the capacity of an edge out of the source
          OtherCap    \* and of any other

VARIABLES rep,      \* excess_, height_, current_edge_, count_, buckets_,
                    \* highest_active_, the flow, and u, the vertex discharged
          content   \* the network

prVars == <<rep, content>>

Vertex == 0 .. N - 1
s == 0
t == N - 1
NoVertex == -1

\* The networks: an edge or none between any two vertices.
Network ==
    LET pair == SelectSeq([k \in 1 .. N * N |-> <<(k - 1) \div N, (k - 1) % N>>],
                          LAMBDA p : p[1] # p[2])
        edge(p) == [from |-> p[1], to |-> p[2],
                    cap |-> IF p[1] = s THEN SourceCap ELSE OtherCap]
        chosen(C) == SelectSeq([i \in 1 .. Len(pair) |-> i], LAMBDA i : i \in C)
    IN  {[i \in 1 .. Cardinality(C) |-> edge(pair[chosen(C)[i]])] :
         C \in SUBSET (1 .. Len(pair))}

\* g_[v]: the arcs of v, in the order in which add_edge() makes them.
Arcs(v) == SelectSeq([i \in 1 .. Len(content) |-> i],
                     LAMBDA i : v \in {content[i].from, content[i].to})
Forward(v, i) == content[i].from = v
Target(v, i) == IF Forward(v, i) THEN content[i].to ELSE content[i].from
Residual(R, v, i) ==
    IF Forward(v, i) THEN content[i].cap - R.flow[i] ELSE R.flow[i]

Enqueue(R, v) ==
    IF v \notin {s, t} /\ R.excess[v] > 0 /\ R.height[v] < 2 * N
    THEN [R EXCEPT !.buckets[R.height[v]] = Append(@, v),
                   !.highest = IF R.height[v] > @ THEN R.height[v] ELSE @]
    ELSE R

\* delta more units through arc i of v
Send(R, v, i, delta) ==
    Enqueue([R EXCEPT !.flow[i] = @ + (IF Forward(v, i) THEN delta ELSE -delta),
                      !.excess[v] = @ - delta,
                      !.excess[Target(v, i)] = @ + delta],
            Target(v, i))

\* The edges out of the source are saturated.
PRInit ==
    /\ content \in Network
    /\ LET start == [flow    |-> [i \in 1 .. Len(content) |-> 0],
                     excess  |-> [v \in Vertex |-> 0],
                     height  |-> [v \in Vertex |-> IF v = s THEN N ELSE 0],
                     current |-> [v \in Vertex |-> 1],
                     count   |-> [h \in 0 .. 2 * N |->
                                    IF h = 0 THEN N - 1 ELSE IF h = N THEN 1 ELSE 0],
                     buckets |-> [h \in 0 .. 2 * N |-> << >>],
                     highest |-> 0, u |-> NoVertex]
       IN  rep = FoldLeft(LAMBDA R, i : IF Forward(s, i) /\ content[i].cap > 0
                                        THEN Send(R, s, i, content[i].cap) ELSE R,
                          start, Arcs(s))

\* A turn of the loop of compute_max_flow().
Select ==
    /\ rep.u = NoVertex
    /\ rep.highest >= 0
    /\ LET bucket == rep.buckets[rep.highest]
       IN  rep' = IF bucket = << >> THEN [rep EXCEPT !.highest = @ - 1]
                  ELSE [rep EXCEPT !.u = Last(bucket),
                                   !.buckets[rep.highest] = Front(bucket)]
    /\ UNCHANGED content

Admissible(R, v, i) ==
    Residual(R, v, i) > 0 /\ R.height[v] = R.height[Target(v, i)] + 1

Discharging == rep.u # NoVertex /\ rep.excess[rep.u] > 0

Push ==
    /\ Discharging
    /\ rep.current[rep.u] <= Len(Arcs(rep.u))
    /\ LET i == Arcs(rep.u)[rep.current[rep.u]]
           r == Residual(rep, rep.u, i)
       IN  rep' = IF Admissible(rep, rep.u, i)
                  THEN Send(rep, rep.u, i,
                            IF rep.excess[rep.u] < r THEN rep.excess[rep.u] ELSE r)
                  ELSE [rep EXCEPT !.current[rep.u] = @ + 1]
    /\ UNCHANGED content

\* gap(h): what lies between the gap and height N has no way to the sink.
Gap(R, h) ==
    FoldLeft(LAMBDA T, v :
                 IF v \notin {s, t} /\ T.height[v] > h /\ T.height[v] < N
                 THEN Enqueue([T EXCEPT !.count = [@ EXCEPT ![T.height[v]] = @ - 1,
                                                            ![N + 1] = @ + 1],
                                        !.height[v] = N + 1], v)
                 ELSE T,
             R, [i \in 1 .. N |-> i - 1])

Relabelled(R, v) ==
    LET h == R.height[v]
        open == {Target(v, i) : i \in {j \in ToSet(Arcs(v)) : Residual(R, v, j) > 0}}
        minH == Min({2 * N} \union {R.height[w] : w \in open})
        left == [R EXCEPT !.count[h] = @ - 1]
        gapped == IF left.count[h] = 0 /\ h < N THEN Gap(left, h) ELSE left
        lifted == [gapped EXCEPT !.height[v] = minH + 1, !.current[v] = 1,
                                 !.count = IF minH < 2 * N THEN [@ EXCEPT ![minH + 1] = @ + 1]
                                           ELSE @]
    IN  Enqueue(lifted, v)

Relabel ==
    /\ Discharging
    /\ rep.current[rep.u] > Len(Arcs(rep.u))
    /\ LET R == Relabelled(rep, rep.u)
       IN  rep' = IF R.height[rep.u] >= 2 * N THEN [R EXCEPT !.u = NoVertex] ELSE R
    /\ UNCHANGED content

EndDischarge ==
    /\ rep.u # NoVertex
    /\ rep.excess[rep.u] = 0
    /\ rep' = [rep EXCEPT !.u = NoVertex]
    /\ UNCHANGED content

PRNext == Select \/ Push \/ Relabel \/ EndDischarge

PRSpec == PRInit /\ [][PRNext]_prVars
-----------------------------------------------------------------------------
(* Properties                                                               *)

Sum(f, S) == FoldSet(LAMBDA i, total : total + f[i], 0, S)

\* What the cut around the vertices of S lets through.
CutCapacity(S) ==
    Sum([i \in 1 .. Len(content) |-> content[i].cap],
        {i \in 1 .. Len(content) : content[i].from \in S /\ content[i].to \notin S})

MinCut == Min({CutCapacity(S) : S \in {X \in SUBSET Vertex : s \in X /\ t \notin X}})

\* What compute_max_flow() returns: the flow into the sink.
Returned ==
    Sum([i \in 1 .. Len(content) |->
            IF content[i].to = t THEN rep.flow[i]
            ELSE IF content[i].from = t THEN -rep.flow[i] ELSE 0], DOMAIN content)

Finished == rep.u = NoVertex /\ rep.highest < 0

\* At the end the flow into the sink equals the least cut, and no excess is left
\* on the way.
FlowIsMaximum ==
    Finished => /\ Returned = MinCut
                /\ \A v \in Vertex \ {s, t} : rep.excess[v] = 0

\* The flow is within the capacities and the excesses account for it; count_
\* is the number of vertices at each height, which the gap heuristic trusts; and
\* every vertex with excess waits in some bucket, not above highest_active_, for
\* no vertex is lifted to 2N, where discharge() would give it up.
PreflowSound ==
    /\ \A i \in DOMAIN content : rep.flow[i] \in 0 .. content[i].cap
    /\ \A v \in Vertex \ {s} : rep.excess[v] >= 0
    /\ Sum(rep.excess, Vertex) = 0
    /\ \A h \in 0 .. 2 * N : rep.count[h] = Cardinality({v \in Vertex : rep.height[v] = h})
    /\ \A v \in Vertex \ {s, t, rep.u} :
           rep.excess[v] > 0 => \E h \in 0 .. rep.highest : v \in ToSet(rep.buckets[h])
    /\ \A v \in Vertex : rep.height[v] < 2 * N

\* The distance labels never fall by more than one along a residual edge.  The
\* code breaks this: relabel() takes the least height of the neighbours before
\* the gap heuristic lifts them.
ValidLabels ==
    \A v \in Vertex \ {s} : \A i \in ToSet(Arcs(v)) :
        Residual(rep, v, i) > 0 => rep.height[v] <= rep.height[Target(v, i)] + 1
=============================================================================
