-------------------------- MODULE StringAlgorithms --------------------------
(***************************************************************************)
(* The functions of prefix_function_and_kmp.cpp, z_algorithm.cpp,          *)
(* manacher_algorithm.cpp, suffix_arrays_and_lcp.cpp,                     *)
(* suffix_automaton.cpp, suffix_tree.cpp,                                  *)
(* aho_corasick.cpp, rabin_karp_and_rolling_hash.cpp,                      *)
(* longest_common_subsequence.cpp and edit_distance_and_alignment.cpp, and *)
(* the trie of trie.cpp.                                                   *)
(*                                                                         *)
(* A string is a sequence of letters, which are positive integers, and     *)
(* positions count from 1 here and from 0 in the code.                     *)
(***************************************************************************)
EXTENDS Integers, SequencesExt, FiniteSetsExt

CONSTANTS Letter,
          HashBase, HashModulus,    \* B1, M1
          Word                      \* the words put into the trie

VARIABLES rep,        \* the strings a function is given, or the trie
          content     \* the words of the trie

stringVars == <<rep, content>>

Positions(n) == [i \in 1 .. n |-> i]
Part(s, i, len) == SubSeq(s, i, i + len - 1)

\* The input: a string of at most n letters, a text and a pattern, k patterns.
AnyString(letters, n) == rep' \in BoundedSeq(letters, n)
AnyPair(n, m) == rep' \in BoundedSeq(Letter, n) \X BoundedSeq(Letter, m)
AnyPatterns(k, n) == rep' \in [1 .. k -> BoundedSeq(Letter, n) \ {<< >>}]
-----------------------------------------------------------------------------
(* Prefix function; pi[i] is the longest border of the first i letters      *)

RECURSIVE Border(_, _, _, _)
Border(s, pi, j, c) ==
    IF s[j + 1] = c THEN j + 1 ELSE IF j = 0 THEN 0 ELSE Border(s, pi, pi[j], c)

PrefixFunction(s) ==
    FoldLeft(LAMBDA pi, i : Append(pi, IF i = 1 THEN 0 ELSE Border(s, pi, pi[i - 1], s[i])),
             << >>, Positions(Len(s)))

KmpSearch(text, pattern) ==
    LET pi == PrefixFunction(pattern)
        step(at, i) ==
            LET j == Border(pattern, pi, at.j, text[i])
            IN  IF j = Len(pattern) THEN [j |-> pi[j], out |-> Append(at.out, i - j + 1)]
                ELSE [at EXCEPT !.j = j]
    IN  IF pattern = << >> \/ Len(text) < Len(pattern) THEN << >>
        ELSE FoldLeft(step, [j |-> 0, out |-> << >>], Positions(Len(text))).out

SmallestPeriod(s) ==
    LET n == Len(s)
        p == n - PrefixFunction(s)[n]
    IN  IF n % p = 0 THEN p ELSE n

RECURSIVE BorderChain(_, _)
BorderChain(pi, j) == IF j = 0 THEN << >> ELSE <<j>> \o BorderChain(pi, pi[j])
AllBorders(s) == LET pi == PrefixFunction(s) IN BorderChain(pi, pi[Len(s)])

\* The counts go from each border to the borders of it, the longest first.
CountPrefixes(s) ==
    LET n == Len(s)
        pi == PrefixFunction(s)
        add(count, j, k) == [count EXCEPT ![j] = @ + k]
        ends == FoldLeft(LAMBDA count, i : add(count, pi[i], 1),
                         [j \in 0 .. n |-> 0], Positions(n))
        all == FoldLeft(LAMBDA count, i : add(count, pi[n - i], count[n - i]),
                        ends, Positions(n - 1))
    IN  [i \in 1 .. n |-> all[i] + 1]

Automaton(pattern) ==
    LET m == Len(pattern)
        pi == PrefixFunction(pattern)
        aut[i \in 0 .. m] ==
            [c \in Letter |->
                IF i < m /\ c = pattern[i + 1] THEN i + 1
                ELSE IF i = 0 THEN 0 ELSE aut[pi[i]][c]]
    IN  aut
-----------------------------------------------------------------------------
(* Z function; z[i] letters from i on are a prefix                          *)

RECURSIVE Matching(_, _, _)
Matching(s, i, k) ==
    IF i + k <= Len(s) /\ s[k + 1] = s[i + k] THEN Matching(s, i, k + 1) ELSE k

ZFunction(s) ==
    LET step(at, i) ==
            LET z == Matching(s, i, IF i <= at.r THEN Min({at.r - i + 1, at.z[i - at.l + 1]})
                                    ELSE 0)
                further == i + z - 1 > at.r
            IN  [z |-> Append(at.z, z), l |-> IF further THEN i ELSE at.l,
                 r |-> IF further THEN i + z - 1 ELSE at.r]
    IN  IF s = << >> THEN s
        ELSE FoldLeft(step, [z |-> <<0>>, l |-> 1, r |-> 1], Tail(Positions(Len(s)))).z

\* The separator is no letter.
ZSearch(text, pattern) ==
    LET m == Len(pattern)
        z == ZFunction(pattern \o <<0>> \o text)
    IN  IF m = 0 \/ m > Len(text) THEN << >>
        ELSE SelectSeq(Positions(Len(text)), LAMBDA i : z[m + 1 + i] >= m)

ZBorders(s) ==
    {ZFunction(s)[i] : i \in {j \in 2 .. Len(s) : j - 1 + ZFunction(s)[j] = Len(s)}}

ZPeriod(s) ==
    LET n == Len(s)
    IN  Min({n} \union {p \in 1 .. n - 1 : p + ZFunction(s)[p + 1] = n /\ n % p = 0})

\* How many z reach a length, summed up from the longest.
ZCounts(s) ==
    LET n == Len(s)
        z == ZFunction(s)
        ends == [len \in 1 .. n + 1 |-> Cardinality({i \in 2 .. n : z[i] = len})]
        sums == FoldLeft(LAMBDA count, k : [count EXCEPT ![n - k] = @ + count[n - k + 1]],
                         ends, Positions(n - 1))
    IN  [len \in 1 .. n |-> sums[len] + 1]
-----------------------------------------------------------------------------
(* Manacher: the letters between 0s, after -1 and before -2                 *)

Transformed(s) ==
    <<-1>> \o FoldLeft(LAMBDA t, c : t \o <<0, c>>, << >>, s) \o <<0, -2>>

RECURSIVE Radius(_, _, _)
Radius(t, i, k) == IF t[i + k + 1] = t[i - k - 1] THEN Radius(t, i, k + 1) ELSE k

ManacherRadii(s) ==
    LET t == Transformed(s)
        step(at, i) ==
            LET p == Radius(t, i, IF i < at.r THEN Min({at.r - i, at.p[2 * at.c - i]}) ELSE 0)
            IN  IF i + p > at.r THEN [p |-> Append(at.p, p), c |-> i, r |-> i + p]
                ELSE [at EXCEPT !.p = Append(@, p)]
    IN  IF s = << >> THEN s
        ELSE FoldLeft(step, [p |-> <<0>>, c |-> 1, r |-> 1],
                      Tail(Positions(Len(t) - 1))).p

LongestPalindrome(s) ==
    LET p == ManacherRadii(s)
        longest == Max(ToSet(p))
        center == Min({i \in DOMAIN p : p[i] = longest})
    IN  IF s = << >> THEN s ELSE Part(s, (center - 1 - longest) \div 2 + 1, longest)

CountPalindromes(s) == FoldLeft(LAMBDA n, p : n + (p + 1) \div 2, 0, ManacherRadii(s))
-----------------------------------------------------------------------------
(* Suffix arrays                                                            *)

\* In the order of their keys; std::sort may leave those of the same key in any
\* order, and nothing that follows depends on it.
ByKey(seq, key) ==
    FoldLeft(LAMBDA out, x :
                 InsertAt(out, 1 + Cardinality({k \in DOMAIN out : key[out[k]] <= key[x]}), x),
             << >>, seq)

\* How many different keys come before each position's.
Ranked(sa, key) ==
    [i \in DOMAIN sa |-> Cardinality({key[j] : j \in {k \in DOMAIN sa : key[k] < key[i]}})]

\* The rank of the suffix i and that of the one len further on, if there is one.
PairKey(rank, len, n) ==
    [i \in 1 .. n |-> rank[i] * (n + 2 + Max(Letter)) + (IF i + len <= n THEN rank[i + len] + 1 ELSE 0)]

\* The positions in the order of what follows len letters later, sorted by the
\* rank of the first len letters.
Doubled(sa, rank, len) ==
    LET n == Len(sa)
        second == [k \in 1 .. len |-> n - len + k]
                      \o FoldLeft(LAMBDA out, i : IF i > len THEN Append(out, i - len) ELSE out,
                                  << >>, sa)
    IN  FlattenSeq([r \in 1 .. n |-> SelectSeq(second, LAMBDA i : rank[i] = r - 1)])

RECURSIVE Doubling(_, _, _), SimpleDoubling(_, _, _)
Doubling(sa, rank, len) ==
    LET n == Len(sa)
    IN  IF len >= n \/ rank[sa[n]] = n - 1 THEN sa
        ELSE LET next == Doubled(sa, rank, len)
             IN  Doubling(next, Ranked(next, PairKey(rank, len, n)), 2 * len)

SuffixArray(s) ==
    IF s = << >> THEN s
    ELSE LET sa == ByKey(Positions(Len(s)), s) IN Doubling(sa, Ranked(sa, s), 1)

SimpleDoubling(sa, rank, len) ==
    LET n == Len(sa)
        key == PairKey(rank, len, n)
        next == ByKey(sa, key)
    IN  IF len >= n THEN sa
        ELSE IF Ranked(next, key)[next[n]] = n - 1 THEN next
        ELSE SimpleDoubling(next, Ranked(next, key), 2 * len)

SuffixArraySimple(s) == IF s = << >> THEN s ELSE SimpleDoubling(Positions(Len(s)), s, 1)

RECURSIVE Common(_, _, _, _)
Common(s, i, j, h) ==
    IF i + h <= Len(s) /\ j + h <= Len(s) /\ s[i + h] = s[j + h] THEN Common(s, i, j, h + 1)
    ELSE h

\* Kasai: from suffix to suffix by position, h loses one letter at most.
LcpArray(s, sa) ==
    LET n == Len(s)
        rank == [i \in 1 .. n |-> CHOOSE r \in 1 .. n : sa[r] = i]
        step(at, i) ==
            LET r == rank[i]
                h == Common(s, i, sa[r - 1], at.h)
            IN  IF r = 1 THEN at
                ELSE [lcp |-> [at.lcp EXCEPT ![r] = h], h |-> IF h > 0 THEN h - 1 ELSE 0]
    IN  FoldLeft(step, [lcp |-> [r \in 1 .. n |-> 0], h |-> 0], Positions(n)).lcp

\* Negative, 0 or positive, as the suffix, cut to m letters, comes before the
\* pattern of m letters, is equal to it or comes after it.
Compared(s, i, pattern) ==
    LET m == Len(pattern)
        cut == SubSeq(s, i, Min({Len(s), i + m - 1}))
        differ == {k \in DOMAIN cut : cut[k] # pattern[k]}
    IN  IF differ # {} THEN cut[Min(differ)] - pattern[Min(differ)] ELSE Len(cut) - m

\* The two binary searches: the first position equal, and the last from there on.
RECURSIVE FirstPos(_, _, _, _, _, _), LastPos(_, _, _, _, _, _)
FirstPos(s, sa, pattern, low, high, found) ==
    LET mid == low + (high - low) \div 2
        cmp == Compared(s, sa[mid], pattern)
    IN  IF low > high THEN found
        ELSE IF cmp >= 0
        THEN FirstPos(s, sa, pattern, low, mid - 1, IF cmp = 0 THEN mid ELSE found)
        ELSE FirstPos(s, sa, pattern, mid + 1, high, found)
LastPos(s, sa, pattern, low, high, found) ==
    LET mid == low + (high - low) \div 2
        cmp == Compared(s, sa[mid], pattern)
    IN  IF low > high THEN found
        ELSE IF cmp <= 0
        THEN LastPos(s, sa, pattern, mid + 1, high, IF cmp = 0 THEN mid ELSE found)
        ELSE LastPos(s, sa, pattern, low, mid - 1, found)

\* find_substring_range(); <<0, 0>> if there is none.
SubstringRange(s, sa, pattern) ==
    LET n == Len(s)
        first == FirstPos(s, sa, pattern, 1, n, 0)
    IN  IF pattern = << >> THEN <<1, n>>
        ELSE IF n < Len(pattern) \/ first = 0 THEN <<0, 0>>
        ELSE <<first, LastPos(s, sa, pattern, first, n, first)>>

CountOccurrences(s, sa, pattern) ==
    LET range == SubstringRange(s, sa, pattern)
    IN  IF range[1] = 0 THEN 0 ELSE range[2] - range[1] + 1

RECURSIVE BinaryFound(_, _, _, _, _)
BinaryFound(s, sa, pattern, low, high) ==
    LET mid == low + (high - low) \div 2
        cmp == Compared(s, sa[mid], pattern)
    IN  /\ low <= high
        /\ \/ cmp = 0
           \/ cmp < 0 /\ BinaryFound(s, sa, pattern, mid + 1, high)
           \/ cmp > 0 /\ BinaryFound(s, sa, pattern, low, mid - 1)
ContainsSubstring(s, sa, pattern) ==
    pattern = << >> \/ (Len(s) >= Len(pattern) /\ BinaryFound(s, sa, pattern, 1, Len(s)))

CountDistinct(s, sa, lcp) ==
    FoldLeft(LAMBDA total, r : total + (Len(s) - sa[r] + 1) - lcp[r], 0, Positions(Len(s)))

LongestRepeated(s, sa, lcp) ==
    LET best == Max({0} \union ToSet(lcp))
        r == Min({k \in DOMAIN lcp : lcp[k] = best})
    IN  IF best = 0 THEN << >> ELSE Part(s, sa[r], best)
-----------------------------------------------------------------------------
(* Suffix automaton: state 1 is the root, link 0 is none                    *)

State(len, link, next) == [len |-> len, link |-> link, next |-> next]
NoNext == [c \in {} |-> 0]
NewAutomaton == [st |-> <<State(0, 0, NoNext)>>, last |-> 1]

To(next, c, q) == [d \in DOMAIN next \union {c} |-> IF d = c THEN q ELSE next[d]]

\* From p along the links: the states without a transition by c get one to cur;
\* those whose transition leads to q get one to the clone.
RECURSIVE Open(_, _, _, _), Redirected(_, _, _, _, _)
Open(st, p, c, cur) ==
    IF p = 0 \/ c \in DOMAIN st[p].next THEN [st |-> st, p |-> p]
    ELSE Open([st EXCEPT ![p].next = To(@, c, cur)], st[p].link, c, cur)
Redirected(st, p, c, q, clone) ==
    IF p = 0 \/ st[p].next[c] # q THEN st
    ELSE Redirected([st EXCEPT ![p].next[c] = clone], st[p].link, c, q, clone)

Extend(A, c) ==
    LET cur == Len(A.st) + 1
        at == Open(Append(A.st, State(A.st[A.last].len + 1, 0, NoNext)), A.last, c, cur)
        p == at.p
        q == at.st[p].next[c]
        clone == Len(at.st) + 1
        copied == Append(at.st, State(at.st[p].len + 1, at.st[q].link, at.st[q].next))
        st == IF p = 0 THEN [at.st EXCEPT ![cur].link = 1]
              ELSE IF at.st[p].len + 1 = at.st[q].len THEN [at.st EXCEPT ![cur].link = q]
              ELSE [Redirected(copied, p, c, q, clone) EXCEPT
                       ![q].link = clone, ![cur].link = clone]
    IN  [st |-> st, last |-> cur]

SuffixAutomaton(s) == FoldLeft(Extend, NewAutomaton, s).st

RECURSIVE Accepts(_, _, _)
Accepts(st, v, pattern) ==
    \/ pattern = << >>
    \/ /\ Head(pattern) \in DOMAIN st[v].next
       /\ Accepts(st, st[v].next[Head(pattern)], Tail(pattern))

DistinctSubstrings(st) ==
    FoldLeft(LAMBDA n, t : n + t.len - st[t.link].len, 0, Tail(st))

\* Back along the links until there is a transition by c.
RECURSIVE Fallback(_, _, _)
Fallback(st, at, c) ==
    IF at.v = 1 \/ c \in DOMAIN st[at.v].next THEN at
    ELSE Fallback(st, [at EXCEPT !.v = st[at.v].link, !.l = st[st[at.v].link].len], c)

LongestCommonSubstring(st, other) ==
    LET step(at, i) ==
            LET back == Fallback(st, at, other[i])
                on == IF other[i] \in DOMAIN st[back.v].next
                      THEN [back EXCEPT !.v = st[@].next[other[i]], !.l = @ + 1] ELSE back
            IN  IF on.l > on.best THEN [on EXCEPT !.best = on.l, !.pos = i] ELSE on
        end == FoldLeft(step, [v |-> 1, l |-> 0, best |-> 0, pos |-> 0],
                        Positions(Len(other)))
    IN  Part(other, end.pos - end.best + 1, end.best)
-----------------------------------------------------------------------------
(* Suffix tree by Ukkonen's algorithm.  Node 1 is the root; a leaf ends     *)
(* where the text read so far ends.  A sentinel ends the text.              *)

Sentinel == 0     \* '$'
OpenEnd == 0   \* GLOBAL_LEAF_END

SuffixNode(start, end) == [start |-> start, end |-> end, link |-> 1, kids |-> NoNext]

EdgeLength(U, v) ==
    (IF U.tree[v].end = OpenEnd THEN U.leaf_end ELSE U.tree[v].end) - U.tree[v].start + 1

\* The node made last gets its suffix link.
LinkedTo(U, last, v) == IF last = 0 THEN U ELSE [U EXCEPT !.tree[last].link = v]

\* On to the next shorter suffix.
Shortened(U, phase) ==
    LET left == U.remaining - 1
        V == [U EXCEPT !.remaining = left]
    IN  IF U.node # 1 THEN [V EXCEPT !.node = U.tree[U.node].link]
        ELSE IF U.length = 0 THEN V
        ELSE [V EXCEPT !.length = @ - 1, !.edge = phase - left + 1]

\* A new leaf under the active node
WithLeafAt(U, phase, first) ==
    [U EXCEPT !.tree = Append([@ EXCEPT ![U.node].kids = To(@, first, Len(U.tree) + 1)],
                              SuffixNode(phase, OpenEnd))]

\* The edge to child is cut after what is matched; below the new node come the rest
\* of the edge and a new leaf.
SplitEdge(U, phase, child) ==
    LET split == Len(U.tree) + 1
        start == U.tree[child].start
        rest == start + U.length
        inner == [SuffixNode(start, rest - 1) EXCEPT
                     !.kids = To(To(NoNext, U.text[phase], split + 1), U.text[rest], child)]
        tree == [U.tree EXCEPT ![U.node].kids = To(@, U.text[start], split),
                               ![child].start = rest]
    IN  [U EXCEPT !.tree = tree \o <<inner, SuffixNode(phase, OpenEnd)>>]

\* The loop of extend(); last is last_new_node.
RECURSIVE Extended(_, _, _)
Extended(W, phase, last) ==
    LET U == IF W.length = 0 THEN [W EXCEPT !.edge = phase] ELSE W
        first == U.text[U.edge]
        kids == U.tree[U.node].kids
        child == kids[first]
        size == EdgeLength(U, child)
    IN  IF W.remaining = 0 THEN W
        ELSE IF first \notin DOMAIN kids
        THEN Extended(Shortened(LinkedTo(WithLeafAt(U, phase, first), last, U.node), phase),
                      phase, 0)
        ELSE IF U.length >= size
        THEN Extended([U EXCEPT !.edge = @ + size, !.length = @ - size, !.node = child],
                      phase, last)
        ELSE IF U.text[U.tree[child].start + U.length] = U.text[phase]
        THEN [LinkedTo(U, IF U.node = 1 THEN 0 ELSE last, U.node) EXCEPT !.length = @ + 1]
        ELSE Extended(Shortened(LinkedTo(SplitEdge(U, phase, child), last, Len(U.tree) + 1), phase),
                      phase, Len(U.tree) + 1)

SuffixTree(s) ==
    FoldLeft(LAMBDA U, phase : Extended([U EXCEPT !.leaf_end = phase, !.remaining = @ + 1],
                                        phase, 0),
             [text |-> Append(s, Sentinel), tree |-> <<SuffixNode(0, 0)>>, node |-> 1,
              edge |-> 0, length |-> 0, remaining |-> 0, leaf_end |-> 0],
             Positions(Len(s) + 1))

\* Where the suffixes start that end below v, to which depth letters lead
RECURSIVE LeafIndices(_, _, _), WalkDown(_, _, _, _), CountBelow(_, _)
LeafIndices(U, v, depth) ==
    LET kids == U.tree[v].kids
    IN  IF DOMAIN kids = {} THEN {Len(U.text) - depth + 1}
        ELSE UNION {LeafIndices(U, kids[c], depth + EdgeLength(U, kids[c])) : c \in DOMAIN kids}

\* The node at or below the end of the pattern, and its depth; 0 when there is none
WalkDown(U, v, depth, pattern) ==
    LET kids == U.tree[v].kids
        next == kids[pattern[depth + 1]]
        size == EdgeLength(U, next)
        compared == Min({size, Len(pattern) - depth})
    IN  IF depth >= Len(pattern) THEN [node |-> v, depth |-> depth]
        ELSE IF /\ pattern[depth + 1] \in DOMAIN kids
                /\ Part(U.text, U.tree[next].start, compared) = Part(pattern, depth + 1, compared)
        THEN WalkDown(U, next, depth + size, pattern)
        ELSE [node |-> 0, depth |-> 0]

TreeContains(U, pattern) == WalkDown(U, 1, 0, pattern).node # 0

LocateAll(U, pattern) ==
    LET at == WalkDown(U, 1, 0, pattern)
    IN  IF pattern = << >> \/ at.node = 0 THEN << >>
        ELSE SetToSortSeq(LeafIndices(U, at.node, at.depth), LAMBDA a, b : a < b)

\* Letters on the edges, without the sentinel at the end of the text
CountBelow(U, v) ==
    LET kids == U.tree[v].kids
        letters(w) == EdgeLength(U, w)
                      - (IF U.tree[w].start + EdgeLength(U, w) > Len(U.text) THEN 1 ELSE 0)
    IN  MapThenSumSet(LAMBDA c : letters(kids[c]) + CountBelow(U, kids[c]), DOMAIN kids)

LongestRepeatedInTree(U) ==
    LET n == Len(U.text) - 1
        again == {q \in (1 .. n) \X (1 .. n - 1) :
                     q[1] + q[2] <= n + 1 /\ Len(LocateAll(U, Part(U.text, q[1], q[2]))) >= 2}
        best == CHOOSE q \in again : \A r \in again : q[2] > r[2] \/ (q[2] = r[2] /\ q[1] <= r[1])
    IN  IF again = {} THEN << >> ELSE Part(U.text, best[1], best[2])
-----------------------------------------------------------------------------
(* Aho-Corasick: node 1 is the root, next is 0 where there is no transition *)

TrieNode == [next |-> [c \in Letter |-> 0], fail |-> 1, dict |-> 1, out |-> << >>]

\* add_pattern()
AddPattern(trie, id, pattern) ==
    LET step(at, c) ==
            IF at.trie[at.u].next[c] # 0 THEN [at EXCEPT !.u = at.trie[at.u].next[c]]
            ELSE LET v == Len(at.trie) + 1
                 IN  [trie |-> Append([at.trie EXCEPT ![at.u].next[c] = v], TrieNode), u |-> v]
        end == FoldLeft(step, [trie |-> trie, u |-> 1], pattern)
    IN  [end.trie EXCEPT ![end.u].out = Append(@, id)]

Patterns(patterns) ==
    FoldLeft(LAMBDA trie, id : AddPattern(trie, id, patterns[id]), <<TrieNode>>,
             Positions(Len(patterns)))

\* The letters in their order.
Letters == [k \in 1 .. Cardinality(Letter) |->
               CHOOSE c \in Letter : Cardinality({d \in Letter : d <= c}) = k]

\* build(): the nodes in the order of a breadth-first search.
RECURSIVE Linked(_, _)
Linked(trie, queue) ==
    LET u == Head(queue)
        f == trie[u].fail
        node == [trie[u] EXCEPT !.dict = IF trie[f].out # << >> THEN f ELSE trie[f].dict,
                                !.out = @ \o trie[f].out]
        kids == SelectSeq([k \in DOMAIN Letters |-> node.next[Letters[k]]], LAMBDA v : v # 0)
        whole == [trie EXCEPT ![u] =
                     [node EXCEPT !.next = [c \in Letter |-> IF @[c] # 0 THEN @[c]
                                                             ELSE trie[f].next[c]]]]
        failing == FoldLeft(LAMBDA t, c : IF node.next[c] = 0 THEN t
                                          ELSE [t EXCEPT ![node.next[c]].fail = trie[f].next[c]],
                            whole, Letters)
    IN  IF queue = << >> THEN trie ELSE Linked(failing, Tail(queue) \o kids)

Built(trie) ==
    LET root == [trie EXCEPT ![1].next = [c \in Letter |-> IF @[c] = 0 THEN 1 ELSE @[c]]]
        kids == SelectSeq([k \in DOMAIN Letters |-> trie[1].next[Letters[k]]],
                          LAMBDA v : v # 0)
    IN  Linked(root, kids)

\* search(): the ids of what ends at each position, with its start.
AhoSearch(trie, patterns, text) ==
    LET step(at, i) ==
            LET v == trie[at.v].next[text[i]]
                found == [k \in DOMAIN trie[v].out |->
                             <<i - Len(patterns[trie[v].out[k]]) + 1, trie[v].out[k]>>]
            IN  [v |-> v, out |-> at.out \o found]
    IN  FoldLeft(step, [v |-> 1, out |-> << >>], Positions(Len(text))).out
-----------------------------------------------------------------------------
(* Rabin-Karp                                                               *)

\* A polynomial hash, a letter at a time.
HashOf(s) == FoldLeft(LAMBDA h, c : (h * HashBase + c + 1) % HashModulus, 0, s)

Power(k) == FoldLeft(LAMBDA p, i : (p * HashBase) % HashModulus, 1, Positions(k))

\* PrefixRollingHash::query(): len letters from i on, out of two prefixes.
Query(s, i, len) ==
    (HashOf(SubSeq(s, 1, i + len - 1)) - ((HashOf(SubSeq(s, 1, i - 1)) * Power(len)) % HashModulus))
        % HashModulus

RabinKarpSearch(text, pattern) ==
    LET n == Len(text)
        m == Len(pattern)
        hash == HashOf(pattern)
        step(at, i) ==
            LET match == at.window = hash /\ Part(text, i, m) = pattern
                out == IF match THEN Append(at.out, i) ELSE at.out
                less == (at.window - (text[i] + 1) * Power(m - 1)) % HashModulus
            IN  [window |-> IF i + m <= n THEN (less * HashBase + text[i + m] + 1) % HashModulus
                            ELSE at.window,
                 out |-> out]
    IN  IF m = 0 \/ m > n THEN << >>
        ELSE FoldLeft(step, [window |-> HashOf(SubSeq(text, 1, m)), out |-> << >>],
                      Positions(n - m + 1)).out

\* compute_lcp(): the longest length with equal hashes, by binary search.
RECURSIVE HashLcp(_, _, _, _, _, _, _)
HashLcp(x, i, y, j, low, high, best) ==
    LET mid == low + (high - low) \div 2
    IN  IF low > high THEN best
        ELSE IF mid = 0 THEN HashLcp(x, i, y, j, 1, high, best)
        ELSE IF Query(x, i, mid) = Query(y, j, mid) THEN HashLcp(x, i, y, j, mid + 1, high, mid)
        ELSE HashLcp(x, i, y, j, low, mid - 1, best)
-----------------------------------------------------------------------------
(* Subsequences and alignments: tables of rows; entry j + 1 of row i + 1 is *)
(* for the first i letters of one string and the first j of the other       *)

LcsRow(prev, c, y) ==
    FoldLeft(LAMBDA cur, j : Append(cur, IF c = y[j] THEN prev[j] + 1
                                         ELSE Max({prev[j + 1], cur[j]})),
             <<0>>, Positions(Len(y)))
LcsTable(x, y) ==
    FoldLeft(LAMBDA dp, c : Append(dp, LcsRow(Last(dp), c, y)),
             <<[j \in 1 .. Len(y) + 1 |-> 0]>>, x)
Corner(dp) == Last(Last(dp))

\* Back from the corner; what is found comes last first.
RECURSIVE LcsBack(_, _, _, _, _), ScsBack(_, _, _, _, _)
LcsBack(x, y, dp, i, j) ==
    IF i = 0 \/ j = 0 THEN << >>
    ELSE IF x[i] = y[j] THEN Append(LcsBack(x, y, dp, i - 1, j - 1), x[i])
    ELSE IF dp[i][j + 1] >= dp[i + 1][j] THEN LcsBack(x, y, dp, i - 1, j)
    ELSE LcsBack(x, y, dp, i, j - 1)
ScsBack(x, y, dp, i, j) ==
    IF i = 0 \/ j = 0 THEN SubSeq(x, 1, i) \o SubSeq(y, 1, j)
    ELSE IF x[i] = y[j] THEN Append(ScsBack(x, y, dp, i - 1, j - 1), x[i])
    ELSE IF dp[i][j + 1] >= dp[i + 1][j] THEN Append(ScsBack(x, y, dp, i - 1, j), x[i])
    ELSE Append(ScsBack(x, y, dp, i, j - 1), y[j])

LcsSequence(x, y) == LcsBack(x, y, LcsTable(x, y), Len(x), Len(y))
ShortestSupersequence(x, y) == ScsBack(x, y, LcsTable(x, y), Len(x), Len(y))

\* Both distances are the best of three: a pair of letters, a gap in either.
\* cost is [match, mismatch, gap], the best is the greatest sum; the distance of
\* Levenshtein is the negative of that with the costs 0, -1, -1.
AlignRow(prev, c, y, cost) ==
    FoldLeft(LAMBDA cur, j :
                 Append(cur, Max({prev[j] + (IF c = y[j] THEN cost.match ELSE cost.mismatch),
                                  prev[j + 1] + cost.gap, cur[j] + cost.gap})),
             <<prev[1] + cost.gap>>, Positions(Len(y)))
AlignTable(x, y, cost) ==
    FoldLeft(LAMBDA dp, c : Append(dp, AlignRow(Last(dp), c, y, cost)),
             <<[j \in 1 .. Len(y) + 1 |-> (j - 1) * cost.gap]>>, x)

Levenshtein == [match |-> 0, mismatch |-> -1, gap |-> -1]
NeedlemanWunsch == [match |-> 1, mismatch |-> -1, gap |-> -1]

LevenshteinDistance(x, y) == -Corner(AlignTable(x, y, Levenshtein))

\* levenshtein_with_ops(), needleman_wunsch_align(): the pairs of letters, 0 for
\* a gap.
RECURSIVE AlignBack(_, _, _, _, _, _)
AlignBack(x, y, dp, cost, i, j) ==
    LET pair == IF x[i] = y[j] THEN cost.match ELSE cost.mismatch
    IN  IF i = 0 /\ j = 0 THEN << >>
        ELSE IF i > 0 /\ j > 0 /\ dp[i + 1][j + 1] = dp[i][j] + pair
        THEN Append(AlignBack(x, y, dp, cost, i - 1, j - 1), <<x[i], y[j]>>)
        ELSE IF i > 0 /\ dp[i + 1][j + 1] = dp[i][j + 1] + cost.gap
        THEN Append(AlignBack(x, y, dp, cost, i - 1, j), <<x[i], 0>>)
        ELSE Append(AlignBack(x, y, dp, cost, i, j - 1), <<0, y[j]>>)
Alignment(x, y, cost) == AlignBack(x, y, AlignTable(x, y, cost), cost, Len(x), Len(y))

HammingDistance(x, y) == Cardinality({i \in DOMAIN x : x[i] # y[i]})
-----------------------------------------------------------------------------
(* The trie of words                                                        *)

EmptyTrie == [terminal |-> FALSE, kids |-> [c \in {} |-> 0]]

WTInit == rep = [root |-> EmptyTrie, size |-> 0] /\ content = {}

RECURSIVE Planted(_, _), Pruned(_, _), NodeOf(_, _)
Planted(t, w) ==
    IF w = << >> THEN [t EXCEPT !.terminal = TRUE]
    ELSE LET c == Head(w)
             kid == IF c \in DOMAIN t.kids THEN t.kids[c] ELSE EmptyTrie
         IN  [t EXCEPT !.kids = [d \in DOMAIN @ \union {c} |->
                                    IF d = c THEN Planted(kid, Tail(w)) ELSE @[d]]]

\* try to reach the node of w: <<>> if there is none.
NodeOf(t, w) ==
    IF w = << >> THEN <<t>>
    ELSE IF Head(w) \in DOMAIN t.kids THEN NodeOf(t.kids[Head(w)], Tail(w))
    ELSE << >>

Search(t, w) == LET at == NodeOf(t, w) IN at # << >> /\ at[1].terminal
StartsWith(t, w) == NodeOf(t, w) # << >>

\* erase_helper(): on the way back a child goes that has no word and no child.
Idle(t) == ~t.terminal /\ DOMAIN t.kids = {}
Pruned(t, w) ==
    IF w = << >> THEN [t EXCEPT !.terminal = FALSE]
    ELSE IF Head(w) \notin DOMAIN t.kids THEN t
    ELSE LET c == Head(w)
             kid == Pruned(t.kids[c], Tail(w))
             left == IF Idle(kid) THEN DOMAIN t.kids \ {c} ELSE DOMAIN t.kids
         IN  [t EXCEPT !.kids = [d \in left |-> IF d = c THEN kid ELSE @[d]]]

WTInsert(w) ==
    /\ rep' = [root |-> Planted(rep.root, w),
               size |-> rep.size + (IF Search(rep.root, w) THEN 0 ELSE 1)]
    /\ content' = content \union {w}

WTErase(w) ==
    /\ rep' = [root |-> Pruned(rep.root, w),
               size |-> rep.size - (IF Search(rep.root, w) THEN 1 ELSE 0)]
    /\ content' = content \ {w}

WTNext == \E w \in Word : WTInsert(w) \/ WTErase(w)

WTSpec == WTInit /\ [][WTNext]_stringVars

\* longest_prefix_match()
RECURSIVE LongestMatch(_, _, _, _)
LongestMatch(t, query, len, longest) ==
    LET best == IF t.terminal THEN len ELSE longest
    IN  IF len = Len(query) \/ query[len + 1] \notin DOMAIN t.kids THEN best
        ELSE LongestMatch(t.kids[query[len + 1]], query, len + 1, best)

\* words_with_prefix()
RECURSIVE Collected(_, _)
Collected(t, prefix) ==
    (IF t.terminal THEN {prefix} ELSE {})
        \union UNION {Collected(t.kids[c], Append(prefix, c)) : c \in DOMAIN t.kids}
WordsWithPrefix(t, prefix) ==
    LET at == NodeOf(t, prefix) IN IF at = << >> THEN {} ELSE Collected(at[1], prefix)
-----------------------------------------------------------------------------
(* Properties                                                               *)

\* By definition: where a pattern occurs, the borders, the periods.
Occurrences(s, pattern) ==
    SelectSeq(Positions(Len(s) - Len(pattern) + 1),
              LAMBDA i : Part(s, i, Len(pattern)) = pattern)
Borders(s) == {b \in 1 .. Len(s) - 1 : SubSeq(s, 1, b) = SubSeq(s, Len(s) - b + 1, Len(s))}
Substrings(s) == {SubSeq(s, i, j) : i, j \in 1 .. Len(s)} \ {<< >>}
IsPalindrome(s) == s = Reverse(s)

\* The prefix function, the z function and the radii say, for every string, what
\* they are defined to say, and so does what is computed from them.
PrefixesExact ==
    LET s == rep
        n == Len(s)
        prefix(k) == SubSeq(s, 1, k)
        periods == {p \in 1 .. n : n % p = 0 /\ \A i \in 1 .. n - p : s[i] = s[i + p]}
    IN  /\ PrefixFunction(s) = [i \in 1 .. n |-> Max({0} \union Borders(prefix(i)))]
        /\ ZFunction(s) = [i \in 1 .. n |->
               IF i = 1 THEN 0
               ELSE Max({k \in 0 .. n - i + 1 : Part(s, i, k) = prefix(k)})]
        /\ n > 0 =>
              /\ AllBorders(s) = Reverse(SelectSeq(Positions(n), LAMBDA b : b \in Borders(s)))
              /\ ZBorders(s) = Borders(s)
              /\ SmallestPeriod(s) = Min(periods) /\ ZPeriod(s) = Min(periods)
              /\ CountPrefixes(s) = [i \in 1 .. n |-> Len(Occurrences(s, prefix(i)))]
              /\ ZCounts(s) = CountPrefixes(s)
        /\ \A i \in 0 .. n, c \in Letter :
              Automaton(s)[i][c] =
                  LET read == Append(prefix(i), c)
                  IN  Max({k \in 0 .. Min({n, i + 1}) :
                              prefix(k) = SubSeq(read, i + 2 - k, i + 1)})

PalindromesExact ==
    LET s == rep
        found == {<<i, j>> \in (1 .. Len(s)) \X (1 .. Len(s)) :
                     i <= j /\ IsPalindrome(SubSeq(s, i, j))}
    IN  /\ IsPalindrome(LongestPalindrome(s))
        /\ LongestPalindrome(s) \in Substrings(s) \union {<< >>}
        /\ Len(LongestPalindrome(s)) = Max({0} \union {p[2] - p[1] + 1 : p \in found})
        /\ CountPalindromes(s) = Cardinality(found)

Before(a, b) ==
    \/ Len(a) < Len(b) /\ a = SubSeq(b, 1, Len(a))
    \/ \E k \in 1 .. Min({Len(a), Len(b)}) :
          a[k] < b[k] /\ SubSeq(a, 1, k - 1) = SubSeq(b, 1, k - 1)

\* The suffixes are in order, the automaton accepts exactly the substrings, and the
\* tree finds every place of each; all of them count the substrings.
SuffixesExact ==
    LET s == rep
        n == Len(s)
        sa == SuffixArray(s)
        lcp == LcpArray(s, sa)
        st == SuffixAutomaton(s)
        tree == SuffixTree(s)
        suffix(i) == SubSeq(s, i, n)
        again == {w \in Substrings(s) : Len(Occurrences(s, w)) > 1}
    IN  /\ Len(sa) = n /\ ToSet(sa) = 1 .. n
        /\ \A r \in 2 .. n : Before(suffix(sa[r - 1]), suffix(sa[r]))
        /\ SuffixArraySimple(s) = sa
        /\ \A r \in 2 .. n : lcp[r] = Common(s, sa[r - 1], sa[r], 0)
        /\ CountDistinct(s, sa, lcp) = Cardinality(Substrings(s))
        /\ Len(LongestRepeated(s, sa, lcp)) = Max({0} \union {Len(w) : w \in again})
        /\ LongestRepeated(s, sa, lcp) \in again \union {<< >>}
        /\ DistinctSubstrings(st) = Cardinality(Substrings(s))
        /\ \A w \in BoundedSeq(Letter, 3) :
              /\ Accepts(st, 1, w) = (w \in Substrings(s) \union {<< >>})
              /\ ContainsSubstring(s, sa, w) = (w \in Substrings(s) \union {<< >>})
              /\ w # << >> => CountOccurrences(s, sa, w) = Len(Occurrences(s, w))
              /\ TreeContains(tree, w) = Accepts(st, 1, w)
              /\ w # << >> => LocateAll(tree, w) = Occurrences(s, w)
        /\ CountBelow(tree, 1) = Cardinality(Substrings(s))
        /\ \A v \in DOMAIN tree.tree \ {1} : Cardinality(DOMAIN tree.tree[v].kids) # 1
        /\ Len(LongestRepeatedInTree(tree)) = Max({0} \union {Len(w) : w \in again})
        /\ LongestRepeatedInTree(tree) \in again \union {<< >>}
        /\ n > 0 => Len(st) <= 2 * n
        /\ \A v \in 2 .. Len(st) : st[v].len > st[st[v].link].len

\* Three searches find every occurrence, overlapping ones too and whatever hashes
\* collide; what two strings have in common is found by both ways.
SearchesExact ==
    LET text == rep[1]
        pattern == rep[2]
        all == IF pattern = << >> THEN << >> ELSE Occurrences(text, pattern)
        shared == Substrings(text) \cap Substrings(pattern)
        common == LongestCommonSubstring(SuffixAutomaton(text), pattern)
    IN  /\ KmpSearch(text, pattern) = all
        /\ ZSearch(text, pattern) = all
        /\ RabinKarpSearch(text, pattern) = all
        /\ \A i, j \in 1 .. Len(text) :
              i <= j => Query(text, i, j - i + 1) = HashOf(SubSeq(text, i, j))
        /\ common \in shared \union {<< >>}
        /\ Len(common) = Max({0} \union {Len(w) : w \in shared})

\* The length found is the one of the strings, where different hashes tell
\* different strings apart.
HashLcpExact ==
    LET n == Min({Len(rep[1]), Len(rep[2])})
    IN  HashLcp(rep[1], 1, rep[2], 1, 0, n, 0)
            = Max({k \in 0 .. n : SubSeq(rep[1], 1, k) = SubSeq(rep[2], 1, k)})

\* All occurrences of all patterns, each once.
AutomatonExact ==
    LET trie == Built(Patterns(rep))
    IN  \A text \in BoundedSeq(Letter, 5) :
            LET found == AhoSearch(trie, rep, text)
            IN  /\ ToSet(found) = UNION {{<<i, id>> : i \in ToSet(Occurrences(text, rep[id]))} :
                                         id \in DOMAIN rep}
                /\ IsInjective(found)

Nth(S, k) == CHOOSE i \in S : Cardinality({j \in S : j <= i}) = k

\* The subsets of positions that an alignment pairs, in order, and what it costs.
Pairings(x, y) ==
    {p \in (SUBSET DOMAIN x) \X (SUBSET DOMAIN y) : Cardinality(p[1]) = Cardinality(p[2])}
Equal(x, y, p) == {k \in 1 .. Cardinality(p[1]) : x[Nth(p[1], k)] = y[Nth(p[2], k)]}
Score(x, y, cost, p) ==
    LET k == Cardinality(p[1])
        equal == Cardinality(Equal(x, y, p))
    IN  equal * cost.match + (k - equal) * cost.mismatch + (Len(x) + Len(y) - 2 * k) * cost.gap

IsSubsequence(s, t) ==
    \E S \in SUBSET DOMAIN t : Cardinality(S) = Len(s) /\ \A k \in DOMAIN s : s[k] = t[Nth(S, k)]

RowOf(pairs, k) == SelectSeq([i \in DOMAIN pairs |-> pairs[i][k]], LAMBDA c : c # 0)

\* Subsequence, supersequence, distance and score are the best of all ways to
\* pair the letters, and the alignment returned has that score.
AlignmentsExact ==
    LET x == rep[1]
        y == rep[2]
        longest == Max({Cardinality(p[1]) : p \in {q \in Pairings(x, y) :
                           Cardinality(Equal(x, y, q)) = Cardinality(q[1])}})
        worth(pairs, cost) ==
            FoldLeft(LAMBDA sum, p : sum + (IF 0 \in {p[1], p[2]} THEN cost.gap
                                            ELSE IF p[1] = p[2] THEN cost.match
                                            ELSE cost.mismatch), 0, pairs)
    IN  /\ Corner(LcsTable(x, y)) = longest
        /\ Len(LcsSequence(x, y)) = longest
        /\ IsSubsequence(LcsSequence(x, y), x) /\ IsSubsequence(LcsSequence(x, y), y)
        /\ LET z == ShortestSupersequence(x, y)
           IN  /\ Len(z) = Len(x) + Len(y) - longest
               /\ IsSubsequence(x, z) /\ IsSubsequence(y, z)
        /\ \A cost \in {Levenshtein, NeedlemanWunsch} :
              LET pairs == Alignment(x, y, cost)
              IN  /\ Corner(AlignTable(x, y, cost))
                         = Max({Score(x, y, cost, p) : p \in Pairings(x, y)})
                  /\ worth(pairs, cost) = Corner(AlignTable(x, y, cost))
                  /\ RowOf(pairs, 1) = x /\ RowOf(pairs, 2) = y
                  /\ \A i \in DOMAIN pairs : pairs[i] # <<0, 0>>
        /\ Len(x) = Len(y) => LevenshteinDistance(x, y) <= HammingDistance(x, y)

RECURSIVE Below(_)
Below(t) == UNION {{t.kids[c]} \union Below(t.kids[c]) : c \in DOMAIN t.kids}

\* No node is left over without a word below it, and the questions are answered
\* from the words that are there.
TrieExact ==
    /\ \A t \in Below(rep.root) : ~Idle(t)
    /\ rep.size = Cardinality(content)
    /\ \A w \in BoundedSeq(Letter, 3) :
          LET under == {v \in content : Len(v) >= Len(w) /\ SubSeq(v, 1, Len(w)) = w}
              above == {v \in content : Len(v) <= Len(w) /\ SubSeq(w, 1, Len(v)) = v}
          IN  /\ Search(rep.root, w) <=> w \in content
              /\ StartsWith(rep.root, w) <=> under # {} \/ w = << >>
              /\ WordsWithPrefix(rep.root, w) = under
              /\ LongestMatch(rep.root, w, 0, 0) = Max({0} \union {Len(v) : v \in above})
=============================================================================
