------------------------------ MODULE Sketches ------------------------------
(***************************************************************************)
(* Summaries of sets and streams that use less memory than what they       *)
(* summarise: bloom_filter.cpp (BF), count_min_sketch.cpp (CM),            *)
(* hyperloglog.cpp (HL), and of streaming_models.cpp MisraGries (MG),      *)
(* ReservoirSampler (RV) and DGIM (DG); and the ring of                    *)
(* consistent_hashing.cpp (CR).  rep is what is in memory, content what    *)
(* the calls have said.  A hash is an arbitrary function.                  *)
(***************************************************************************)
EXTENDS Integers, SequencesExt, FiniteSetsExt

CONSTANTS Item,      \* keys, items of a stream, the nodes of the ring
          Hash,      \* BF: the two hashes of a key; CM: its column in each row;
                     \* HL: register and remaining bits; CR: places of a node
          Size,      \* BF: bits; CM: columns; HL: remaining bits; DG: the window;
                     \* CR: places
          K,         \* BF: hash functions; MG, RV, DG: k_
          Count,     \* CM: what update() adds
          Conserved, \* CM: what update_conservative() adds
          Limit      \* bound: calls that add something

VARIABLES rep, content

skVars == <<rep, content>>
-----------------------------------------------------------------------------
(* BloomFilter.  rep is the set of bits that are 1.                         *)

BitsOf(k) == {(Hash[k][1] + i * Hash[k][2]) % Size : i \in 0 .. K - 1}
MayContain(k) == BitsOf(k) \subseteq rep

BFInit == rep = {} /\ content = {}
BFAdd(k) == rep' = rep \cup BitsOf(k) /\ content' = content \cup {k}
BFNext == \E k \in Item : BFAdd(k)

\* A key that was added is never denied, and a bit is set only for a key that was.
BloomExact ==
    /\ \A k \in content : MayContain(k)
    /\ \A b \in rep : \E k \in content : b \in BitsOf(k)
-----------------------------------------------------------------------------
(* CountMinSketch.  content is how often each key was counted.              *)

Estimate(table, k) == Min({table[i][Hash[k][i]] : i \in DOMAIN table})

\* The counters of k, those that satisfy "chosen", grow by n.
Counted(k, n, rows) ==
    [table |-> [i \in DOMAIN rep.table |->
                   IF i \in rows THEN [rep.table[i] EXCEPT ![Hash[k][i]] = @ + n]
                   ELSE rep.table[i]],
     total |-> rep.total + n]

CMInit ==
    /\ rep = [table |-> [i \in DOMAIN Hash[CHOOSE k \in Item : TRUE] |->
                            [c \in 0 .. Size - 1 |-> 0]],
              total |-> 0]
    /\ content = [k \in Item |-> 0]

Update(k, n) ==
    /\ rep.total + n <= Limit
    /\ rep' = Counted(k, n, DOMAIN rep.table)
    /\ content' = [content EXCEPT ![k] = @ + n]

UpdateConservative(k, n) ==
    /\ rep.total + n <= Limit
    /\ rep' = Counted(k, n, {i \in DOMAIN rep.table :
                                rep.table[i][Hash[k][i]] = Estimate(rep.table, k)})
    /\ content' = [content EXCEPT ![k] = @ + n]

CMNext == \E k \in Item : \/ \E n \in Count : Update(k, n)
                          \/ \E n \in Conserved : UpdateConservative(k, n)

\* The columns of three keys in two rows
ThreeKeys == <<<<0, 0>>, <<0, 1>>, <<1, 1>>>>

CMSpec == CMInit /\ [][CMNext]_skVars

\* The error has one side (count_min_sketch.cpp:107): a key is never said to have
\* been counted less often than it was, whichever way it was counted.
NeverUnderestimates == \A k \in Item : Estimate(rep.table, k) >= content[k]

\* It is never said to have been counted more often than all keys that share its
\* column, in any row.
SketchBounded ==
    /\ rep.total = FoldFunction(LAMBDA a, b : a + b, 0, content)
    /\ \A k \in Item, i \in DOMAIN rep.table :
          rep.table[i][Hash[k][i]] <=
              MapThenSumSet(LAMBDA j : content[j], {j \in Item : Hash[j][i] = Hash[k][i]})
-----------------------------------------------------------------------------
(* HyperLogLog.  rep are the registers of two sketches, content what was    *)
(* added to each.                                                           *)

\* The bits of w, and the place of the first 1 among "Size" bits: Size for 0 too
RECURSIVE BitLength(_)
BitLength(w) == IF w = 0 THEN 0 ELSE 1 + BitLength(w \div 2)
CountLeadingZeros(w) == IF w = 0 THEN Size ELSE Min({Size - BitLength(w) + 1, Size})

HLInit ==
    /\ rep = [s \in {1, 2} |-> [r \in {Hash[k][1] : k \in Item} |-> 0]]
    /\ content = [s \in {1, 2} |-> {}]
HLAdd(s, k) ==
    /\ rep' = [rep EXCEPT ![s][Hash[k][1]] = Max({@, CountLeadingZeros(Hash[k][2])})]
    /\ content' = [content EXCEPT ![s] = @ \cup {k}]
HLMerge(s, other) ==
    /\ rep' = [rep EXCEPT ![s] = [r \in DOMAIN @ |-> Max({@[r], rep[other][r]})]]
    /\ content' = [content EXCEPT ![s] = @ \cup content[other]]
HLNext == \E s \in {1, 2} : \/ \E k \in Item : HLAdd(s, k)
                            \/ HLMerge(s, 3 - s)

\* The registers depend on the set of items only: not on their order, on repetitions
\* or on the way they were merged.
RegistersExact ==
    \A s \in {1, 2} : \A r \in DOMAIN rep[s] :
        rep[s][r] = Max({0} \cup {CountLeadingZeros(Hash[k][2]) :
                                     k \in {j \in content[s] : Hash[j][1] = r}})
-----------------------------------------------------------------------------
(* MisraGries.  rep are the counters, content how often each item came.     *)

Seen == FoldFunction(LAMBDA a, b : a + b, 0, content)

\* The counters that are left after each has lost one
Decremented(counters) ==
    [x \in {y \in DOMAIN counters : counters[y] > 1} |-> counters[x] - 1]

MGInit == rep = << >> /\ content = [x \in Item |-> 0]
MGProcess(x) ==
    /\ Seen < Limit
    /\ content' = [content EXCEPT ![x] = @ + 1]
    /\ rep' = IF x \in DOMAIN rep THEN [rep EXCEPT ![x] = @ + 1]
              ELSE IF Cardinality(DOMAIN rep) < K - 1
              THEN [y \in DOMAIN rep \cup {x} |-> IF y = x THEN 1 ELSE rep[y]]
              ELSE Decremented(rep)
MGNext == \E x \in Item : MGProcess(x)

\* An estimate is low by at most a K-th of the stream, and every item that makes up
\* more than a K-th has a counter (streaming_models.cpp:7).
HeavyHittersKept ==
    /\ Cardinality(DOMAIN rep) <= K - 1
    /\ \A x \in Item :
          LET estimate == IF x \in DOMAIN rep THEN rep[x] ELSE 0
          IN  /\ estimate <= content[x]
              /\ K * (content[x] - estimate) <= Seen
              /\ K * content[x] > Seen => x \in DOMAIN rep
-----------------------------------------------------------------------------
(* ReservoirSampler.  The items of the stream are 1, 2, ...; content is how *)
(* many there were.  The generator may draw any place.                      *)

RVInit == rep = << >> /\ content = 0
RVProcess ==
    /\ content < Limit
    /\ content' = content + 1
    /\ \/ Len(rep) < K /\ rep' = Append(rep, content + 1)
       \/ /\ Len(rep) = K
          /\ \E j \in 0 .. content :
                rep' = IF j < K THEN [rep EXCEPT ![j + 1] = content + 1] ELSE rep

\* The sample has all items or K of them, none twice.
SampleExact ==
    /\ Len(rep) = Min({K, content})
    /\ IsInjective(rep) /\ ToSet(rep) \subseteq 1 .. content
-----------------------------------------------------------------------------
(* DGIM.  content is the stream of bits; the newest bucket comes first.     *)

\* The buckets after the two oldest of a size that has more than K became one
OfSize(buckets, size) == {i \in DOMAIN buckets : buckets[i].size = size}
RECURSIVE Merged(_, _)
Merged(buckets, size) ==
    LET older == Max(OfSize(buckets, size))
        newer == Max(OfSize(buckets, size) \ {older})
    IN  IF Cardinality(OfSize(buckets, size)) <= K THEN buckets
        ELSE Merged(RemoveAt([buckets EXCEPT ![newer].size = 2 * size], older), 2 * size)

DGInit == rep = << >> /\ content = << >>
DGProcess(bit) ==
    LET now == Len(content) + 1
        inside == SelectSeq(rep, LAMBDA b : b.timestamp + Size > now)
    IN  /\ Len(content) < Limit
        /\ content' = Append(content, bit)
        /\ rep' = IF bit = 0 THEN inside
                  ELSE Merged(<<[timestamp |-> now, size |-> 1]>> \o inside, 1)
DGNext == \E bit \in {0, 1} : DGProcess(bit)

CountOnes ==
    IF rep = << >> THEN 0
    ELSE FoldLeft(LAMBDA n, b : n + b.size, 0, rep) - Last(rep).size \div 2

\* The ones among the last "Size" bits are counted with a relative error of at most
\* one K-th (streaming_models.cpp:12).
WindowCounted ==
    LET ones == Cardinality({i \in DOMAIN content :
                                content[i] = 1 /\ i + Size > Len(content)})
        off == CountOnes - ones
    IN  K * off <= ones /\ -K * off <= ones
-----------------------------------------------------------------------------
(* ConsistentHashRing.  rep are the nodes added, in order, and the owner of *)
(* each place taken; content are the nodes that should be in the ring.      *)

CRInit == rep = [nodes |-> << >>, ring |-> << >>] /\ content = {}

AddNode(n) ==
    /\ Len(rep.nodes) < Limit
    /\ content' = content \cup {n}
    /\ rep' = [nodes |-> Append(rep.nodes, n),
               ring |-> [p \in DOMAIN rep.ring \cup ToSet(Hash[n]) |->
                            IF p \in ToSet(Hash[n]) THEN n ELSE rep.ring[p]]]

RemoveNode(n) ==
    /\ content' = content \ {n}
    /\ rep' = [nodes |-> IF n \in ToSet(rep.nodes)
                         THEN RemoveAt(rep.nodes, SelectInSeq(rep.nodes, LAMBDA m : m = n))
                         ELSE rep.nodes,
               ring |-> [p \in DOMAIN rep.ring \ ToSet(Hash[n]) |-> rep.ring[p]]]

\* The owner of the first place at or after the key's, around the ring; {} in none
GetNode(ring, key) ==
    LET after == {p \in DOMAIN ring : p >= key}
    IN  IF ring = << >> THEN {}
        ELSE {ring[Min(IF after = {} THEN DOMAIN ring ELSE after)]}

\* A node is added once; the code does not test that.
CRNext == \E n \in Item : (n \notin content /\ AddNode(n)) \/ RemoveNode(n)

\* A key goes to the node whose place is the next one around the ring, as if the
\* nodes that have left had never been there: when a node comes or goes, only the
\* keys that it gets or had go elsewhere.
RoutingExact ==
    LET places == UNION {ToSet(Hash[n]) : n \in content}
    IN  /\ ToSet(rep.nodes) = content /\ Len(rep.nodes) = Cardinality(content)
        /\ DOMAIN rep.ring = places
        /\ \A key \in 0 .. Size - 1 :
              GetNode(rep.ring, key) =
                  {n \in content : \E p \in ToSet(Hash[n]) : \A q \in places :
                                      (p - key) % Size <= (q - key) % Size}
=============================================================================
