---------------------------- MODULE BitStructures ----------------------------
(***************************************************************************)
(* Bits packed into words: the dynamic vector of bitsets_and_bitvectors.cpp *)
(* and the indexes over packed bits of succinct_data_structures.cpp and    *)
(* wavelet_trees.cpp; and the versions of a tree that share nodes, of       *)
(* persistent_data_structures.cpp.  A word is the set of the positions of   *)
(* its bits; a machine's word has 64.                                      *)
(***************************************************************************)
EXTENDS Integers, SequencesExt, FiniteSetsExt

CONSTANTS W,               \* bits of a word
          BlockWords,      \* words of a superblock (8 in the code)
          NumBits,         \* the size of the dynamic vectors
          Item,            \* the values of the versions
          MaxVersions      \* bound: versions of the tree

VARIABLES rep,      \* the structure, or the input of a function
          content   \* what the calls have put into it

bitVars == <<rep, content>>

Word == SUBSET (0 .. W - 1)
Words(n) == (n + W - 1) \div W
Cut(low, high) == low + (high - low) \div 2
Least2(a, b) == IF a <= b THEN a ELSE b

\* `cb` is given the positions from the lowest: word &= word - 1 drops one
RECURSIVE LowestFirst(_)
LowestFirst(word) ==
    IF word = {} THEN << >> ELSE <<Min(word)>> \o LowestFirst(word \ {Min(word)})

\* The words that hold the bits of a sequence
Packed(bits) ==
    [w \in 1 .. Words(Len(bits)) |->
        {b \in 0 .. W - 1 : (w - 1) * W + b < Len(bits) /\ bits[(w - 1) * W + b + 1]}]

\* Bit i of the words, which count from 1
Get(words, i) == i % W \in words[(i \div W) + 1]
Popcount(words) == FoldLeft(LAMBDA n, word : n + Cardinality(word), 0, words)
-----------------------------------------------------------------------------
(* BitVector: rep is two vectors of NumBits bits, content the sets they     *)
(* stand for.  The bits behind the last stay zero.                          *)

Position == 0 .. NumBits - 1

MaskTrailingBits(words) ==
    IF NumBits % W # 0 THEN [words EXCEPT ![Len(words)] = @ \cap (0 .. (NumBits % W) - 1)]
    ELSE words

BVNew(v) == MaskTrailingBits([w \in 1 .. Words(NumBits) |-> IF v THEN 0 .. W - 1 ELSE {}])

BVInit ==
    \E v \in [1 .. 2 -> BOOLEAN] :
        /\ rep = [k \in 1 .. 2 |-> BVNew(v[k])]
        /\ content = [k \in 1 .. 2 |-> IF v[k] THEN Position ELSE {}]

SetTo(words, i, v) ==
    [words EXCEPT ![(i \div W) + 1] = IF v THEN @ \union {i % W} ELSE @ \ {i % W}]

\* set() and reset()
BVSet(k, i, v) ==
    /\ rep' = [rep EXCEPT ![k] = SetTo(@, i, v)]
    /\ content' = [content EXCEPT ![k] = IF v THEN @ \union {i} ELSE @ \ {i}]

Flip(k, i) ==
    /\ rep' = [rep EXCEPT ![k] = SetTo(@, i, ~Get(@, i))]
    /\ content' = [content EXCEPT ![k] = IF i \in @ THEN @ \ {i} ELSE @ \union {i}]

\* clear() and set_all()
Fill(k, v) ==
    /\ rep' = [rep EXCEPT ![k] = BVNew(v)]
    /\ content' = [content EXCEPT ![k] = IF v THEN Position ELSE {}]

Complemented(words) == MaskTrailingBits([w \in DOMAIN words |-> (0 .. W - 1) \ words[w]])

Complement(k) ==
    /\ rep' = [rep EXCEPT ![k] = Complemented(@)]
    /\ content' = [content EXCEPT ![k] = Position \ @]

SymmetricDifference(A, B) == (A \ B) \union (B \ A)

\* &=, |= and ^= with the other vector, or with itself
AndAssign(k, j) ==
    /\ rep' = [rep EXCEPT ![k] = [w \in DOMAIN @ |-> rep[k][w] \cap rep[j][w]]]
    /\ content' = [content EXCEPT ![k] = @ \cap content[j]]
OrAssign(k, j) ==
    /\ rep' = [rep EXCEPT ![k] = [w \in DOMAIN @ |-> rep[k][w] \union rep[j][w]]]
    /\ content' = [content EXCEPT ![k] = @ \union content[j]]
XorAssign(k, j) ==
    /\ rep' = [rep EXCEPT ![k] = [w \in DOMAIN @ |-> SymmetricDifference(rep[k][w], rep[j][w])]]
    /\ content' = [content EXCEPT ![k] = SymmetricDifference(@, content[j])]

BVNext ==
    \E k \in 1 .. 2 :
        \/ \E i \in Position : Flip(k, i) \/ \E v \in BOOLEAN : BVSet(k, i, v)
        \/ \E v \in BOOLEAN : Fill(k, v)
        \/ Complement(k)
        \/ \E j \in 1 .. 2 : AndAssign(k, j) \/ OrAssign(k, j) \/ XorAssign(k, j)

GetSetBits(words) ==
    FoldLeftDomain(LAMBDA found, w :
        found \o [p \in DOMAIN LowestFirst(words[w]) |-> (w - 1) * W + LowestFirst(words[w])[p]],
        << >>, words)

\* What the vectors say of themselves, which words with stray bits would spoil:
\* test(), count(), any(), all(), the positions in order, and equality, which
\* compares words.
VectorsExact ==
    /\ \A k \in 1 .. 2 :
        LET words == rep[k]
            found == GetSetBits(words)
        IN  /\ \A i \in Position : Get(words, i) <=> i \in content[k]
            /\ Popcount(words) = Cardinality(content[k])
            /\ (\E w \in DOMAIN words : words[w] # {}) <=> content[k] # {}
            /\ (Popcount(words) = NumBits) <=> content[k] = Position
            /\ ToSet(found) = content[k]
            /\ \A p \in 2 .. Len(found) : found[p - 1] < found[p]
    /\ (rep[1] = rep[2]) <=> (content[1] = content[2])
-----------------------------------------------------------------------------
(* sieve_primes(limit)                                                      *)

\* Crossing out the multiples of p in words, from its square
RECURSIVE Sieved(_, _, _)
Sieved(words, p, limit) ==
    IF p * p > limit THEN words
    ELSE LET multiples == {m \in p * p .. limit : (m - p * p) % p = 0}
             crossed == [w \in DOMAIN words |->
                            {b \in words[w] : (w - 1) * W + b \notin multiples}]
         IN  Sieved(IF Get(words, p) THEN crossed ELSE words, p + 1, limit)

SievePrimes(limit) ==
    IF limit < 2 THEN << >>
    ELSE GetSetBits(Sieved(Packed([i \in 1 .. limit + 1 |-> i > 2]), 2, limit))

SieveExact(limit) ==
    ToSet(SievePrimes(limit)) =
        {p \in 2 .. limit : \A d \in 2 .. p - 1 : p % d # 0}
-----------------------------------------------------------------------------
(* SuccinctBitVector: the ones before each superblock are counted once      *)

AnyBits(n) == rep' \in BoundedSeq(BOOLEAN, n) \ {<< >>}

Indexed(bits) ==
    LET words == Packed(bits)
        blocks == (Len(words) + BlockWords - 1) \div BlockWords
    IN  [n |-> Len(bits), data |-> words, blocks |-> blocks,
         before |-> [b \in 0 .. blocks |->
                        Popcount(SubSeq(words, 1, Least2(b * BlockWords, Len(words))))]]

\* One bits of the prefix 0 .. i; the search for a bit adds up to i + 1
Rank1(V, i) ==
    IF i < 0 THEN 0
    ELSE LET idx == Least2(i, V.n - 1)
             target == idx \div W
             block == idx \div (W * BlockWords)
         IN  V.before[block]
             + Popcount(SubSeq(V.data, block * BlockWords + 1, target))
             + Cardinality(V.data[target + 1] \cap (0 .. idx % W))

Rank0(V, i) == IF i < 0 THEN 0 ELSE Least2(i, V.n - 1) + 1 - Rank1(V, i)

\* Halving steps; the bits before pos are fewer than r
RECURSIVE SelectInWord(_, _, _, _)
SelectInWord(word, r, pos, step) ==
    IF step = 0 THEN pos
    ELSE SelectInWord(word, r,
             IF Cardinality(word \cap (0 .. pos + step - 1)) < r THEN pos + step ELSE pos,
             step \div 2)

\* The binary search for the superblock: the last that had enough ones
RECURSIVE BlockOf(_, _, _, _, _)
BlockOf(V, k, low, high, found) ==
    LET mid == Cut(low, high)
    IN  IF low > high THEN found
        ELSE IF V.before[mid + 1] >= k
             THEN IF mid = 0 THEN mid ELSE BlockOf(V, k, low, mid - 1, mid)
             ELSE BlockOf(V, k, mid + 1, high, found)

RECURSIVE SelectFrom(_, _, _, _)
SelectFrom(V, w, end, needed) ==
    IF w > end THEN -1
    ELSE IF Cardinality(V.data[w]) >= needed
         THEN (w - 1) * W + SelectInWord(V.data[w], needed, 0, W \div 2)
         ELSE SelectFrom(V, w + 1, end, needed - Cardinality(V.data[w]))

Select1(V, k) ==
    IF k = 0 \/ k > V.before[V.blocks] THEN -1
    ELSE LET block == BlockOf(V, k, 0, V.blocks - 1, 0)
         IN  SelectFrom(V, block * BlockWords + 1,
                        Least2((block + 1) * BlockWords, Len(V.data)), k - V.before[block])

\* select0() searches the positions
RECURSIVE FirstWithZeros(_, _, _, _, _)
FirstWithZeros(V, k, low, high, ans) ==
    LET mid == Cut(low, high)
    IN  IF low > high THEN ans
        ELSE IF Rank0(V, mid) >= k THEN FirstWithZeros(V, k, low, mid - 1, mid)
        ELSE FirstWithZeros(V, k, mid + 1, high, ans)

Select0(V, k) ==
    IF k = 0 \/ k > V.n - V.before[V.blocks] THEN -1
    ELSE FirstWithZeros(V, k, 0, V.n - 1, -1)

\* Where the positions of bits of one kind are, in order, by definition
Occurrences(bits, v) == SelectSeq([i \in 1 .. Len(bits) |-> i], LAMBDA i : bits[i] = v)
Nth(s, k) == IF k \in DOMAIN s THEN s[k] - 1 ELSE -1

\* Ranks count the bits of every prefix, a prefix too long included, and selects
\* find the k-th bit of either kind, or nothing.
RanksAndSelectsExact ==
    LET V == Indexed(rep)
        ones == Occurrences(rep, TRUE)
        zeros == Occurrences(rep, FALSE)
    IN  /\ \A i \in -1 .. Len(rep) :
            /\ Rank1(V, i) = Cardinality({p \in ToSet(ones) : p <= i + 1})
            /\ Rank0(V, i) = Cardinality({p \in ToSet(zeros) : p <= i + 1})
        /\ \A k \in 0 .. Len(rep) + 1 : Select1(V, k) = Nth(ones, k) /\ Select0(V, k) = Nth(zeros, k)
-----------------------------------------------------------------------------
(* WaveletTree: a node says which elements are in the upper half of its     *)
(* range of values; the halves keep the order of the elements               *)

AnyText(values, n) == rep' \in BoundedSeq(values, n) \ {<< >>}

NoTree == << >>

\* The children of a node without elements are null.
RECURSIVE Wavelet(_, _, _)
Wavelet(s, low, high) ==
    IF s = << >> \/ low >= high
    THEN [low |-> low, high |-> high, left |-> NoTree, right |-> NoTree]
    ELSE LET mid == Cut(low, high)
         IN  [low |-> low, high |-> high,
              bits |-> Indexed([i \in DOMAIN s |-> s[i] > mid]),
              left |-> Wavelet(SelectSeq(s, LAMBDA x : x <= mid), low, mid),
              right |-> Wavelet(SelectSeq(s, LAMBDA x : x > mid), mid + 1, high)]

RECURSIVE Access(_, _), Rank(_, _, _), Quantile(_, _, _, _), RangeFrequency(_, _, _, _, _)
Access(T, i) ==
    IF T.low = T.high THEN T.low
    ELSE IF Get(T.bits.data, i) THEN Access(T.right, Rank1(T.bits, i) - 1)
    ELSE Access(T.left, Rank0(T.bits, i) - 1)

Rank(T, i, c) ==
    IF i < 0 \/ c < T.low \/ c > T.high THEN 0
    ELSE IF T.low = T.high THEN i + 1
    ELSE IF c <= Cut(T.low, T.high) THEN Rank(T.left, Rank0(T.bits, i) - 1, c)
    ELSE Rank(T.right, Rank1(T.bits, i) - 1, c)

RangeCount(T, L, R, c) == IF L > R THEN 0 ELSE Rank(T, R, c) - Rank(T, L - 1, c)

\* Mutant: the elements of the lower half are not taken off.
QuantileOfWhole(T, L, R, k) ==
    IF T.low = T.high THEN T.low
    ELSE LET left == <<Rank0(T.bits, L - 1), Rank0(T.bits, R) - 1>>
         IN  IF k <= left[2] - left[1] + 1 THEN Quantile(T.left, left[1], left[2], k)
             ELSE Quantile(T.right, Rank1(T.bits, L - 1), Rank1(T.bits, R) - 1, k)

Quantile(T, L, R, k) ==
    IF T.low = T.high THEN T.low
    ELSE LET left == <<Rank0(T.bits, L - 1), Rank0(T.bits, R) - 1>>
             zeros == IF left[2] >= left[1] THEN left[2] - left[1] + 1 ELSE 0
         IN  IF k <= zeros THEN Quantile(T.left, left[1], left[2], k)
             ELSE Quantile(T.right, Rank1(T.bits, L - 1), Rank1(T.bits, R) - 1, k - zeros)

RangeFrequency(T, L, R, from, to) ==
    IF L > R \/ from > T.high \/ to < T.low THEN 0
    ELSE IF from <= T.low /\ T.high <= to THEN R - L + 1
    ELSE LET left == <<Rank0(T.bits, L - 1), Rank0(T.bits, R) - 1>>
             right == <<Rank1(T.bits, L - 1), Rank1(T.bits, R) - 1>>
             In(S, q) == IF q[2] >= q[1] /\ S # NoTree
                         THEN RangeFrequency(S, q[1], q[2], from, to) ELSE 0
         IN  In(T.left, left) + In(T.right, right)

\* The elements of a range with a property of their value
InRange(L, R, P(_)) == {i \in L .. R : P(rep[i + 1])}

\* Access, counts, order statistics and frequencies are those of the sequence,
\* over a range of values wider than the sequence uses.
WaveletExact(low, high) ==
    LET T == Wavelet(rep, low, high)
    IN  \A i \in 0 .. Len(rep) - 1 :
            /\ Access(T, i) = rep[i + 1]
            /\ \A c \in low - 1 .. high + 1, j \in i .. Len(rep) - 1 :
                    /\ RangeCount(T, i, j, c) = Cardinality(InRange(i, j, LAMBDA x : x = c))
                    /\ \A d \in c .. high :
                            RangeFrequency(T, i, j, c, d)
                                = Cardinality(InRange(i, j, LAMBDA x : c <= x /\ x <= d))
            /\ \A j \in i .. Len(rep) - 1 : \A k \in 1 .. j - i + 1 :
                    LET q == Quantile(T, i, j, k)
                    IN  /\ Cardinality(InRange(i, j, LAMBDA x : x < q)) < k
                        /\ k <= Cardinality(InRange(i, j, LAMBDA x : x <= q))
-----------------------------------------------------------------------------
(* PersistentSegmentTree: rep is the pool of nodes, of which 0 is null, and  *)
(* the roots; content the arrays of the versions                            *)

ArraySize == NumBits
LastIndex == ArraySize - 1
NullNode == [left |-> 0, right |-> 0, sum |-> 0]
Fresh(pool) == Len(pool)        \* nodes count from 0

\* Both return the pool and the node.
RECURSIVE BuildRecursive(_, _, _, _), UpdateRecursive(_, _, _, _, _, _), QueryRecursive(_, _, _, _, _)
BuildRecursive(pool, arr, l, r) ==
    LET idx == Fresh(pool)
        L == BuildRecursive(Append(pool, NullNode), arr, l, Cut(l, r))
        R == BuildRecursive(L.pool, arr, Cut(l, r) + 1, r)
    IN  IF l = r THEN [pool |-> Append(pool, [NullNode EXCEPT !.sum = arr[l]]), node |-> idx]
        ELSE [pool |-> [R.pool EXCEPT ![idx + 1] =
                            [left |-> L.node, right |-> R.node,
                             sum |-> R.pool[L.node + 1].sum + R.pool[R.node + 1].sum]],
              node |-> idx]

UpdateRecursive(pool, prev, l, r, i, v) ==
    LET idx == Fresh(pool)
        cloned == Append(pool, pool[prev + 1])
        goLeft == i <= Cut(l, r)
        below == IF goLeft THEN UpdateRecursive(cloned, pool[prev + 1].left, l, Cut(l, r), i, v)
                 ELSE UpdateRecursive(cloned, pool[prev + 1].right, Cut(l, r) + 1, r, i, v)
        linked == IF goLeft THEN [below.pool EXCEPT ![idx + 1].left = below.node]
                  ELSE [below.pool EXCEPT ![idx + 1].right = below.node]
    IN  IF l = r THEN [pool |-> [cloned EXCEPT ![idx + 1].sum = v], node |-> idx]
        ELSE [pool |-> [linked EXCEPT ![idx + 1].sum =
                            linked[linked[idx + 1].left + 1].sum
                            + linked[linked[idx + 1].right + 1].sum],
              node |-> idx]

QueryRecursive(node, l, r, ql, qr) ==
    IF node = 0 \/ ql > r \/ qr < l THEN 0
    ELSE IF ql <= l /\ r <= qr THEN rep.pool[node + 1].sum
    ELSE QueryRecursive(rep.pool[node + 1].left, l, Cut(l, r), ql, qr)
         + QueryRecursive(rep.pool[node + 1].right, Cut(l, r) + 1, r, ql, qr)

VersionsInit ==
    \E arr \in [0 .. LastIndex -> Item] :
        /\ content = <<arr>>
        /\ LET B == BuildRecursive(<<NullNode>>, arr, 0, LastIndex)
           IN  rep = [pool |-> B.pool, roots |-> <<B.node>>]

NewVersion(base, i, v) ==
    /\ Len(content) < MaxVersions
    /\ content' = Append(content, [content[base] EXCEPT ![i] = v])
    /\ LET U == UpdateRecursive(rep.pool, rep.roots[base], 0, LastIndex, i, v)
       IN  rep' = [pool |-> U.pool, roots |-> Append(rep.roots, U.node)]

VersionsNext ==
    \E base \in DOMAIN rep.roots, i \in 0 .. LastIndex, v \in Item : NewVersion(base, i, v)

\* try_query(): every version, old or new, whatever it was made from, answers for
\* its own array.
VersionsExact ==
    \A v \in DOMAIN content, ql, qr \in 0 .. LastIndex :
        ql <= qr => QueryRecursive(rep.roots[v], 0, LastIndex, ql, qr)
                        = MapThenSumSet(LAMBDA i : content[v][i], ql .. qr)
=============================================================================
