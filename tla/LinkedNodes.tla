----------------------------- MODULE LinkedNodes -----------------------------
(***************************************************************************)
(* The lists the lock-free containers build from nodes and next pointers,  *)
(* as sequences of addresses: what a walk along the pointers finds, and    *)
(* what the walk finds after a node is pushed, appended or unlinked.       *)
(***************************************************************************)
EXTENDS Integers, Sequences, FiniteSets, SequenceTheorems, FiniteSetTheorems,
        WellFoundedInduction, TLAPS

CONSTANTS
    Thread,    \* the threads that use a container
    Node,      \* the addresses the allocator hands out
    None       \* nullptr

ASSUME NoneIsNoNode == None \notin Node
ASSUME FiniteAddresses == IsFiniteSet(Node)

\* The nodes from h on along nx, first to last.  A walk that runs in a circle is
\* cut when it is longer than there are nodes.
NodesFrom(h, nx) ==
    LET after(s) == IF s = << >> THEN h ELSE nx[s[Len(s)]]
        longer == [s \in Seq(Node) |->
                      IF after(s) = None THEN s ELSE Append(s, after(s))]
        walk[k \in Nat] == IF k = 0 THEN << >> ELSE longer[walk[k - 1]]
    IN  walk[Cardinality(Node) + 1]

NodesOf(c) == {c[i] : i \in 1..Len(c)}

\* The payloads d of the nodes in c.
Values(c, d) == [i \in 1..Len(c) |-> d[c[i]]]

-----------------------------------------------------------------------------
(* Induction over the natural numbers, for the set of those with a property *)

LEMMA LeastNatural ==
    ASSUME NEW S, S \subseteq Nat, S # {} PROVE \E x \in S : \A y \in S : x <= y
<1>1. \E x \in S : \A y \in S : ~ (<<y, x>> \in OpToRel(<, Nat))
  BY NatLessThanWellFounded, WFMin
<1>2. \E x \in S : \A y \in S : ~ (y < x)
  BY <1>1 DEF OpToRel
<1> QED
  BY <1>2

LEMMA SetInduction ==
    ASSUME NEW S, 0 \in S, \A k \in Nat : k \in S => k + 1 \in S
    PROVE  Nat \subseteq S
<1> SUFFICES ASSUME Nat \ S # {} PROVE FALSE
  OBVIOUS
<1>1. PICK x \in Nat \ S : \A y \in Nat \ S : x <= y
  BY LeastNatural
<1>2. x # 0 /\ x - 1 \in Nat /\ ~(x <= x - 1) /\ x - 1 + 1 = x
  BY <1>1
<1> QED
  BY <1>1, <1>2

-----------------------------------------------------------------------------
(* Lists *)

\* s lists the nodes of L once each, along nx, from h to the node without a
\* successor.
IsList(s, h, nx, L) ==
    /\ s \in Seq(Node)
    /\ IF Len(s) = 0 THEN h = None ELSE h = s[1] /\ nx[s[Len(s)]] = None
    /\ \A i \in 1..(Len(s) - 1) : nx[s[i]] = s[i + 1]
    /\ \A i, j \in 1..Len(s) : s[i] = s[j] => i = j
    /\ \A i \in 1..Len(s) : s[i] \in L
    /\ \A n \in L : n \in Node /\ \E i \in 1..Len(s) : s[i] = n

LEMMA ListFits ==
    ASSUME NEW h, NEW nx, NEW L, NEW s, IsList(s, h, nx, L)
    PROVE  Len(s) \in Nat /\ Len(s) <= Cardinality(Node) /\ Cardinality(Node) \in Nat
<1>1. s \in Injection(1..Len(s), Node)
  BY DEF IsList, Injection, IsInjective
<1>2. Len(s) \in Nat /\ Cardinality(1..Len(s)) = Len(s)
  <2>1. Len(s) \in Nat /\ Len(s) \in Int /\ 1 \in Int
    BY DEF IsList
  <2>2. Cardinality(1..Len(s)) = IF 1 > Len(s) THEN 0 ELSE Len(s) - 1 + 1
    BY <2>1, FS_Interval
  <2> QED
    BY <2>1, <2>2
<1>3. Cardinality(1..Len(s)) <= Cardinality(Node)
  BY <1>1, FS_Injection, FiniteAddresses
<1> QED
  BY <1>2, <1>3, FS_CardinalityType, FiniteAddresses

\* The walk from h finds the whole list.
LEMMA WalkFindsList ==
    ASSUME NEW h, NEW nx, NEW L, NEW s, IsList(s, h, nx, L)
    PROVE  NodesFrom(h, nx) = s
<1> DEFINE After(q) == IF q = << >> THEN h ELSE nx[q[Len(q)]]
           longer == [q \in Seq(Node) |->
                         IF After(q) = None THEN q ELSE Append(q, After(q))]
           Next(w, k) == IF k = 0 THEN << >> ELSE longer[w[k - 1]]
           Part(k) == IF k < Len(s) THEN SubSeq(s, 1, k) ELSE s
           parts == [k \in Nat |-> Part(k)]
           walk == CHOOSE w : w = [k \in Nat |-> Next(w, k)]
<1>1. s \in Seq(Node) /\ Len(s) \in Nat /\ s = SubSeq(s, 1, Len(s))
  <2>1. s \in Seq(Node) /\ Len(s) \in Nat
    BY DEF IsList
  <2>2. SubSeq(s, 1, Len(s)) \in Seq(Node) /\ Len(SubSeq(s, 1, Len(s))) = Len(s)
        /\ \A i \in 1..Len(s) : SubSeq(s, 1, Len(s))[i] = s[i]
    BY <2>1
  <2> QED
    BY <2>1, <2>2, SeqEqual
<1>2. Part(0) = << >>
  <2>1. SubSeq(s, 1, 0) = << >>
    BY <1>1
  <2>2. Len(s) = 0 => s = << >>
    BY <1>1, EmptySeq
  <2> QED
    BY <1>1, <2>1, <2>2
<1>3. \A k \in Nat : k <= Len(s) => Part(k) = SubSeq(s, 1, k)
  BY <1>1
<1>4. After(s) = None
  <2>1. CASE Len(s) = 0
    BY <1>1, <2>1, EmptySeq DEF IsList
  <2>2. CASE Len(s) # 0
    <3>1. s # << >>
      BY <2>2
    <3> QED
      BY <2>2, <3>1 DEF IsList
  <2> QED
    BY <2>1, <2>2
<1>5. ASSUME NEW k \in Nat, k < Len(s)
      PROVE  After(SubSeq(s, 1, k)) = s[k + 1] /\ s[k + 1] \in Node
  <2>1. s[k + 1] \in Node
    BY <1>1, <1>5
  <2>2. CASE k = 0
    <3>1. SubSeq(s, 1, 0) = << >> /\ h = s[1]
      BY <1>1, <1>5, <2>2 DEF IsList
    <3> QED
      BY <2>1, <2>2, <3>1
  <2>3. CASE k # 0
    <3>1. Len(SubSeq(s, 1, k)) = k /\ SubSeq(s, 1, k)[k] = s[k]
      BY <1>1, <1>5, <2>3
    <3>2. SubSeq(s, 1, k) # << >> 
      BY <2>3, <3>1
    <3>3. nx[s[k]] = s[k + 1]
      BY <1>1, <1>5, <2>3 DEF IsList
    <3> QED
      BY <2>1, <3>1, <3>2, <3>3
  <2> QED
    BY <2>2, <2>3
<1>6. ASSUME NEW k \in Nat, NEW w, w[k] = Part(k) PROVE Next(w, k + 1) = Part(k + 1)
  <2>1. k + 1 \in Nat /\ k + 1 # 0 /\ (k + 1) - 1 = k
    OBVIOUS
  <2>2. CASE k >= Len(s)
    <3>1. w[k] = s /\ Part(k + 1) = s
      <4>1. ~(k < Len(s)) /\ ~(k + 1 < Len(s))
        BY <1>1, <2>2
      <4> QED
        BY <1>6, <4>1
    <3>2. longer[s] = s
      <4> HIDE DEF After
      <4> QED
        BY <1>1, <1>4
    <3> HIDE DEF longer
    <3> QED
      BY <2>1, <3>1, <3>2
  <2>3. CASE k < Len(s)
    <3>1. w[k] = SubSeq(s, 1, k) /\ Part(k + 1) = SubSeq(s, 1, k + 1)
      BY <1>1, <1>3, <1>6, <2>3
    <3>2. Append(SubSeq(s, 1, k), s[k + 1]) = SubSeq(s, 1, k + 1)
      BY <1>1, <2>3
    <3>3. After(w[k]) = s[k + 1] /\ s[k + 1] # None
      BY <1>5, <2>3, <3>1, NoneIsNoNode
    <3>4. w[k] \in Seq(Node)
      BY <1>1, <2>3, <3>1
    <3> HIDE DEF After
    <3>5. longer[w[k]] = Append(w[k], After(w[k]))
      BY <3>3, <3>4
    <3> HIDE DEF longer
    <3> QED
      BY <2>1, <3>1, <3>2, <3>3, <3>5
  <2> QED
    BY <1>1, <2>2, <2>3
<1>7. parts = [k \in Nat |-> Next(parts, k)]
  <2>1. ASSUME NEW k \in Nat PROVE Next(parts, k + 1) = Part(k + 1)
    <3>1. parts[k] = Part(k)
      OBVIOUS
    <3> HIDE DEF parts, Part, Next
    <3> QED
      BY <1>6, <3>1
  <2>2. \A k \in Nat : Part(k) = Next(parts, k)
    <3> TAKE k \in Nat
    <3>1. CASE k = 0
      BY <1>2, <3>1
    <3>2. CASE k # 0
      <4>1. k - 1 \in Nat /\ (k - 1) + 1 = k
        BY <3>2
      <4> HIDE DEF parts, Part, Next
      <4>2. Next(parts, (k - 1) + 1) = Part((k - 1) + 1)
        BY <2>1, <4>1
      <4> QED
        BY <4>1, <4>2
    <3> QED
      BY <3>1, <3>2
  <2>3. parts = [k \in Nat |-> Part(k)]
    OBVIOUS
  <2> HIDE DEF parts, Part, Next
  <2> QED
    BY <2>2, <2>3
<1>8. walk = [k \in Nat |-> Next(walk, k)]
  BY <1>7
<1>9. \A k \in Nat : walk[k] = Part(k)
  <2> DEFINE S == {k \in Nat : walk[k] = Part(k)}
  <2> HIDE DEF walk
  <2>1. 0 \in S
    BY <1>2, <1>8
  <2>2. ASSUME NEW k \in Nat, k \in S PROVE k + 1 \in S
    <3>1. walk[k + 1] = Next(walk, k + 1)
      <4> HIDE DEF Next
      <4> QED
        BY <1>8
    <3>2. walk[k] = Part(k)
      BY <2>2
    <3>3. Next(walk, k + 1) = Part(k + 1)
      <4> HIDE DEF Next, Part
      <4> QED
        BY <1>6, <3>2
    <3> QED
      BY <3>1, <3>3
  <2>3. Nat \subseteq S
    <3> HIDE DEF S
    <3> QED
      BY <2>1, <2>2, SetInduction
  <2> QED
    BY <2>3
<1>10. walk[Cardinality(Node) + 1] = s
  <2>1. Cardinality(Node) \in Nat /\ Len(s) <= Cardinality(Node)
    BY ListFits
  <2>2. Part(Cardinality(Node) + 1) = s
    BY <1>1, <2>1
  <2> HIDE DEF walk, Part
  <2> QED
    BY <1>9, <2>1, <2>2
<1> QED
  BY <1>10 DEF NodesFrom

\* The nodes of a list that keep their successors stay a list.
LEMMA SameNodes ==
    ASSUME NEW h, NEW nx, NEW L, NEW s, IsList(s, h, nx, L),
           NEW nx2, \A n \in L : nx2[n] = nx[n]
    PROVE  IsList(s, h, nx2, L)
<1>1. Len(s) \in Nat
  BY DEF IsList
<1>2. \A i \in 1..(Len(s) - 1) : s[i] \in L
  BY <1>1 DEF IsList
<1>3. Len(s) # 0 => s[Len(s)] \in L
  BY <1>1 DEF IsList
<1> QED
  BY <1>2, <1>3 DEF IsList

\* Each node is counted once.
LEMMA ListCounts ==
    ASSUME NEW h, NEW nx, NEW L, NEW s, IsList(s, h, nx, L)
    PROVE  NodesOf(s) = L /\ IsFiniteSet(L) /\ Cardinality(L) = Len(s)
<1>1. NodesOf(s) = L
  BY DEF NodesOf, IsList
<1>2. [i \in 1..Len(s) |-> s[i]] \in Bijection(1..Len(s), L)
  BY DEF IsList, Bijection, Injection, Surjection, IsInjective
<1>3. ExistsBijection(1..Len(s), L)
  BY <1>2 DEF ExistsBijection
<1>4. IsFiniteSet(1..Len(s)) /\ Cardinality(1..Len(s)) = Len(s)
  <2>1. Len(s) \in Nat /\ Len(s) \in Int /\ 1 \in Int
    BY DEF IsList
  <2>2. /\ IsFiniteSet(1..Len(s))
        /\ Cardinality(1..Len(s)) = IF 1 > Len(s) THEN 0 ELSE Len(s) - 1 + 1
    BY <2>1, FS_Interval
  <2> QED
    BY <2>1, <2>2
<1> QED
  BY <1>1, <1>3, <1>4, FS_Bijection

\* Linking a node in front.
LEMMA ListPush ==
    ASSUME NEW h, NEW nx, NEW L, NEW s, IsList(s, h, nx, L),
           NEW n \in Node, n \notin L,
           NEW nx2, \A m \in L : nx2[m] = nx[m], nx2[n] = h
    PROVE  IsList(<<n>> \o s, n, nx2, L \union {n})
<1> DEFINE q == <<n>> \o s
<1>1. s \in Seq(Node) /\ Len(s) \in Nat
  BY DEF IsList
<1>2. /\ q \in Seq(Node) /\ Len(q) = Len(s) + 1 /\ q[1] = n
      /\ \A i \in 1..Len(s) : q[i + 1] = s[i] /\ s[i] \in L
  BY <1>1 DEF IsList
<1>3. \A i \in 1..Len(q) : i = 1 \/ (i - 1 \in 1..Len(s) /\ q[i] = s[i - 1] /\ q[i] \in L)
  <2> HIDE DEF q
  <2> TAKE i \in 1..Len(q)
  <2>1. i = 1 \/ (i - 1 \in 1..Len(s) /\ (i - 1) + 1 = i)
    BY <1>1, <1>2
  <2> QED
    BY <1>2, <2>1
<1> HIDE DEF q
<1>4. Len(q) # 0 /\ nx2[q[Len(q)]] = None
  <2>1. CASE Len(s) = 0
    BY <1>1, <1>2, <2>1 DEF IsList
  <2>2. CASE Len(s) # 0
    <3>1. q[Len(q)] = s[Len(s)] /\ s[Len(s)] \in L
      BY <1>1, <1>2, <2>2
    <3> QED
      BY <1>1, <1>2, <2>2, <3>1 DEF IsList
  <2> QED
    BY <2>1, <2>2
<1>5. ASSUME NEW i \in 1..(Len(q) - 1) PROVE nx2[q[i]] = q[i + 1]
  <2>1. CASE i = 1
    <3>1. 1 \in 1..Len(s) /\ Len(s) # 0
      BY <1>1, <1>2, <2>1
    <3>2. h = s[1]
      BY <3>1 DEF IsList
    <3> QED
      BY <1>2, <2>1, <3>1, <3>2
  <2>2. CASE i # 1
    <3>1. i - 1 \in 1..(Len(s) - 1) /\ i - 1 \in 1..Len(s) /\ i \in 1..Len(s) /\ (i - 1) + 1 = i
      BY <1>1, <1>2, <2>2
    <3>2. q[i] = s[i - 1] /\ q[i + 1] = s[i] /\ s[i - 1] \in L
      BY <1>2, <3>1
    <3>3. nx[s[i - 1]] = s[i]
      BY <3>1 DEF IsList
    <3> QED
      BY <3>2, <3>3
  <2> QED
    BY <2>1, <2>2
<1>6. ASSUME NEW i \in 1..Len(q), NEW j \in 1..Len(q), q[i] = q[j] PROVE i = j
  <2>1. CASE i = 1 \/ j = 1
    BY <1>2, <1>3, <1>6, <2>1
  <2>2. CASE i # 1 /\ j # 1
    <3>1. i - 1 \in 1..Len(s) /\ j - 1 \in 1..Len(s) /\ s[i - 1] = s[j - 1]
      BY <1>3, <1>6, <2>2
    <3>2. i - 1 = j - 1
      BY <3>1 DEF IsList
    <3> QED
      BY <3>2
  <2> QED
    BY <2>1, <2>2
<1>7. \A i \in 1..Len(q) : q[i] \in L \union {n}
  BY <1>2, <1>3
<1>8. ASSUME NEW m \in L \union {n} PROVE m \in Node /\ \E i \in 1..Len(q) : q[i] = m
  <2>1. CASE m = n
    BY <1>1, <1>2, <2>1
  <2>2. CASE m \in L
    <3>1. PICK i \in 1..Len(s) : s[i] = m /\ m \in Node
      BY <2>2 DEF IsList
    <3>2. i + 1 \in 1..Len(q) /\ q[i + 1] = m
      BY <1>1, <1>2, <3>1
    <3> QED
      BY <3>1, <3>2
  <2> QED
    BY <2>1, <2>2
<1>9. IsList(q, n, nx2, L \union {n})
  BY <1>2, <1>4, <1>5, <1>6, <1>7, <1>8 DEF IsList
<1> QED
  BY <1>9 DEF q

\* Linking a node behind the last one.
LEMMA ListAppend ==
    ASSUME NEW h, NEW nx, NEW L, NEW s, IsList(s, h, nx, L),
           NEW e \in L, nx[e] = None, NEW n \in Node, n \notin L,
           NEW nx2, \A m \in L : m # e => nx2[m] = nx[m], nx2[e] = n, nx2[n] = None
    PROVE  IsList(Append(s, n), h, nx2, L \union {n})
<1> DEFINE q == Append(s, n)
<1>1. s \in Seq(Node) /\ Len(s) \in Nat
  BY DEF IsList
<1>2. /\ q \in Seq(Node) /\ Len(q) = Len(s) + 1 /\ q[Len(s) + 1] = n
      /\ \A i \in 1..Len(s) : q[i] = s[i] /\ s[i] \in L
  BY <1>1 DEF IsList
<1>3. Len(s) # 0 /\ s[Len(s)] = e
  <2>1. PICK i \in 1..Len(s) : s[i] = e
    BY DEF IsList
  <2>2. CASE i < Len(s)
    <3>1. i \in 1..(Len(s) - 1) /\ i + 1 \in 1..Len(s)
      BY <1>1, <2>1, <2>2
    <3>2. nx[e] = s[i + 1] /\ s[i + 1] \in Node
      BY <1>1, <2>1, <3>1 DEF IsList
    <3> QED
      BY <3>2, NoneIsNoNode
  <2> QED
    BY <1>1, <2>1, <2>2
<1> HIDE DEF q
<1>4. \A i \in 1..Len(q) : i = Len(s) + 1 \/ (i \in 1..Len(s) /\ q[i] \in L)
  BY <1>1, <1>2
<1>5. h = q[1] /\ nx2[q[Len(q)]] = None
  BY <1>1, <1>2, <1>3 DEF IsList
<1>6. ASSUME NEW i \in 1..(Len(q) - 1) PROVE nx2[q[i]] = q[i + 1]
  <2>1. CASE i = Len(s)
    BY <1>1, <1>2, <1>3, <2>1
  <2>2. CASE i # Len(s)
    <3>1. i \in 1..(Len(s) - 1) /\ i \in 1..Len(s) /\ Len(s) \in 1..Len(s) /\ i + 1 \in 1..Len(s)
      BY <1>1, <1>2, <2>2
    <3>2. s[i] # e /\ nx[s[i]] = s[i + 1]
      BY <1>3, <2>2, <3>1 DEF IsList
    <3> QED
      BY <1>2, <3>1, <3>2
  <2> QED
    BY <2>1, <2>2
<1>7. ASSUME NEW i \in 1..Len(q), NEW j \in 1..Len(q), q[i] = q[j] PROVE i = j
  <2>1. CASE i = Len(s) + 1 \/ j = Len(s) + 1
    BY <1>2, <1>4, <1>7, <2>1
  <2>2. CASE i # Len(s) + 1 /\ j # Len(s) + 1
    <3>1. i \in 1..Len(s) /\ j \in 1..Len(s) /\ s[i] = s[j]
      BY <1>2, <1>4, <1>7, <2>2
    <3> QED
      BY <3>1 DEF IsList
  <2> QED
    BY <2>1, <2>2
<1>8. \A i \in 1..Len(q) : q[i] \in L \union {n}
  BY <1>2, <1>4
<1>9. ASSUME NEW m \in L \union {n} PROVE m \in Node /\ \E i \in 1..Len(q) : q[i] = m
  <2>1. CASE m = n
    BY <1>1, <1>2, <2>1
  <2>2. CASE m \in L
    <3>1. PICK i \in 1..Len(s) : s[i] = m /\ m \in Node
      BY <2>2 DEF IsList
    <3>2. i \in 1..Len(q) /\ q[i] = m
      BY <1>1, <1>2, <3>1
    <3> QED
      BY <3>1, <3>2
  <2> QED
    BY <2>1, <2>2
<1>10. IsList(q, h, nx2, L \union {n})
  BY <1>1, <1>2, <1>5, <1>6, <1>7, <1>8, <1>9 DEF IsList
<1> QED
  BY <1>10 DEF q

\* Unlinking the first node.
LEMMA ListTail ==
    ASSUME NEW h, NEW nx, NEW L, NEW s, IsList(s, h, nx, L), h # None
    PROVE  /\ Len(s) > 0 /\ h = s[1] /\ h \in L
           /\ IsList(Tail(s), nx[h], nx, L \ {h})
<1> DEFINE q == Tail(s)
<1>1. s \in Seq(Node) /\ Len(s) \in Nat /\ Len(s) > 0 /\ h = s[1] /\ h \in L
  BY DEF IsList
<1>2. /\ q \in Seq(Node) /\ Len(q) = Len(s) - 1
      /\ \A i \in 1..(Len(s) - 1) : q[i] = s[i + 1]
  BY <1>1
<1> HIDE DEF q
<1>3. \A i \in 1..Len(q) : i + 1 \in 1..Len(s) /\ q[i] = s[i + 1] /\ i + 1 # 1 /\ 1 \in 1..Len(s)
  BY <1>1, <1>2
<1>4. IF Len(q) = 0 THEN nx[h] = None ELSE nx[h] = q[1] /\ nx[q[Len(q)]] = None
  <2>1. CASE Len(q) = 0
    <3>1. Len(s) = 1
      BY <1>1, <1>2, <2>1
    <3> QED
      BY <1>1, <2>1, <3>1 DEF IsList
  <2>2. CASE Len(q) # 0
    <3>1. 1 \in 1..(Len(s) - 1) /\ Len(q) \in 1..Len(q) /\ 1 \in 1..Len(q) /\ Len(q) + 1 = Len(s)
      BY <1>1, <1>2, <2>2
    <3>2. q[1] = s[2] /\ nx[h] = s[2] /\ q[Len(q)] = s[Len(s)]
      BY <1>1, <1>2, <1>3, <3>1 DEF IsList
    <3> QED
      BY <1>1, <2>2, <3>2 DEF IsList
  <2> QED
    BY <2>1, <2>2
<1>5. ASSUME NEW i \in 1..(Len(q) - 1) PROVE nx[q[i]] = q[i + 1]
  <2>1. i + 1 \in 1..(Len(s) - 1) /\ i \in 1..(Len(s) - 1)
    BY <1>1, <1>2
  <2> QED
    BY <1>2, <2>1 DEF IsList
<1>6. ASSUME NEW i \in 1..Len(q), NEW j \in 1..Len(q), q[i] = q[j] PROVE i = j
  <2>1. i + 1 \in 1..Len(s) /\ j + 1 \in 1..Len(s) /\ s[i + 1] = s[j + 1]
    BY <1>3, <1>6
  <2>2. i + 1 = j + 1
    BY <2>1 DEF IsList
  <2> QED
    BY <2>2
<1>7. ASSUME NEW i \in 1..Len(q) PROVE q[i] \in L \ {h}
  <2>1. i + 1 \in 1..Len(s) /\ q[i] = s[i + 1] /\ i + 1 # 1 /\ 1 \in 1..Len(s)
    BY <1>3
  <2>2. s[i + 1] \in L /\ s[i + 1] # s[1]
    BY <2>1 DEF IsList
  <2> QED
    BY <1>1, <2>1, <2>2
<1>8. ASSUME NEW m \in L \ {h} PROVE m \in Node /\ \E i \in 1..Len(q) : q[i] = m
  <2>1. PICK i \in 1..Len(s) : s[i] = m /\ m \in Node
    BY DEF IsList
  <2>2. i - 1 \in 1..Len(q) /\ (i - 1) + 1 = i
    BY <1>1, <1>2, <2>1
  <2> QED
    BY <1>3, <2>1, <2>2
<1>9. IsList(q, nx[h], nx, L \ {h})
  BY <1>2, <1>4, <1>5, <1>6, <1>7, <1>8 DEF IsList
<1> QED
  BY <1>1, <1>9 DEF q

-----------------------------------------------------------------------------
(* The payloads of a list *)

Payloads(d) == {d[m] : m \in Node}

LEMMA ValuesOf ==
    ASSUME NEW c \in Seq(Node), NEW d
    PROVE  /\ Values(c, d) \in Seq(Payloads(d))
           /\ Len(Values(c, d)) = Len(c)
           /\ \A i \in 1..Len(c) : Values(c, d)[i] = d[c[i]]
           /\ Values(c, d) = << >> <=> Len(c) = 0
<1>1. Len(c) \in Nat /\ \A i \in 1..Len(c) : d[c[i]] \in Payloads(d)
  BY DEF Payloads
<1>2. Values(c, d) \in Seq(Payloads(d)) /\ Len(Values(c, d)) = Len(c)
  BY <1>1 DEF Values
<1>3. Values(c, d) # << >> => Len(Values(c, d)) # 0
  BY <1>2, EmptySeq
<1>4. Values(c, d) = << >> => Len(Values(c, d)) = 0
  BY EmptySeq
<1> QED
  BY <1>1, <1>2, <1>3, <1>4 DEF Values

LEMMA ValuesFacts ==
    ASSUME NEW V, NEW c \in Seq(Node), NEW d \in [Node -> V]
    PROVE  /\ Values(c, d) \in Seq(V)
           /\ Len(Values(c, d)) = Len(c)
           /\ \A i \in 1..Len(c) : Values(c, d)[i] = d[c[i]]
           /\ Values(c, d) = << >> <=> Len(c) = 0
<1>1. Len(c) \in Nat /\ \A i \in 1..Len(c) : d[c[i]] \in V
  OBVIOUS
<1>2. Values(c, d) \in Seq(V)
  BY <1>1 DEF Values
<1> QED
  BY <1>2, ValuesOf

LEMMA ValuesPush ==
    ASSUME NEW c \in Seq(Node), NEW d, NEW n \in Node
    PROVE  Values(<<n>> \o c, d) = <<d[n]>> \o Values(c, d)
<1> DEFINE a == Values(<<n>> \o c, d)
           b == <<d[n]>> \o Values(c, d)
           q == <<n>> \o c
<1>1. /\ q \in Seq(Node) /\ Len(q) = Len(c) + 1 /\ q[1] = n
      /\ \A i \in 1..Len(c) : q[i + 1] = c[i]
      /\ Len(c) \in Nat
  OBVIOUS
<1>2. a \in Seq(Payloads(d)) /\ Len(a) = Len(c) + 1 /\ \A i \in 1..(Len(c) + 1) : a[i] = d[q[i]]
  <2> HIDE DEF q
  <2>1. /\ Values(q, d) \in Seq(Payloads(d)) /\ Len(Values(q, d)) = Len(q)
        /\ \A i \in 1..Len(q) : Values(q, d)[i] = d[q[i]]
    BY <1>1, ValuesOf
  <2> QED
    BY <1>1, <2>1 DEF q
<1>3. /\ b \in Seq(Payloads(d)) /\ Len(b) = Len(c) + 1 /\ b[1] = d[n]
      /\ \A i \in 1..Len(c) : b[i + 1] = d[c[i]]
  <2>1. /\ Values(c, d) \in Seq(Payloads(d)) /\ Len(Values(c, d)) = Len(c) /\ Len(c) \in Nat
        /\ \A i \in 1..Len(c) : Values(c, d)[i] = d[c[i]]
    BY ValuesOf
  <2>2. d[n] \in Payloads(d)
    BY DEF Payloads
  <2> QED
    BY <2>1, <2>2
<1>4. \A i \in 1..(Len(c) + 1) : a[i] = b[i]
  <2> HIDE DEF a, b, q
  <2> TAKE i \in 1..(Len(c) + 1)
  <2>1. CASE i = 1
    BY <1>1, <1>2, <1>3, <2>1
  <2>2. CASE i # 1
    <3>1. i - 1 \in 1..Len(c) /\ (i - 1) + 1 = i
      BY <1>1, <2>2
    <3>2. q[i] = c[i - 1] /\ b[i] = d[c[i - 1]]
      BY <1>1, <1>3, <3>1
    <3> QED
      BY <1>2, <3>2
  <2> QED
    BY <2>1, <2>2
<1>5. a = b
  <2> HIDE DEF a, b
  <2> QED
    BY <1>2, <1>3, <1>4, SeqEqual
<1> QED
  BY <1>5

LEMMA ValuesAppend ==
    ASSUME NEW c \in Seq(Node), NEW d, NEW n \in Node
    PROVE  Values(Append(c, n), d) = Append(Values(c, d), d[n])
<1> DEFINE a == Values(Append(c, n), d)
           b == Append(Values(c, d), d[n])
           q == Append(c, n)
<1>1. /\ q \in Seq(Node) /\ Len(q) = Len(c) + 1 /\ q[Len(c) + 1] = n
      /\ \A i \in 1..Len(c) : q[i] = c[i]
      /\ Len(c) \in Nat
  OBVIOUS
<1>2. a \in Seq(Payloads(d)) /\ Len(a) = Len(c) + 1 /\ \A i \in 1..(Len(c) + 1) : a[i] = d[q[i]]
  <2> HIDE DEF q
  <2>1. /\ Values(q, d) \in Seq(Payloads(d)) /\ Len(Values(q, d)) = Len(q)
        /\ \A i \in 1..Len(q) : Values(q, d)[i] = d[q[i]]
    BY <1>1, ValuesOf
  <2> QED
    BY <1>1, <2>1 DEF q
<1>3. /\ b \in Seq(Payloads(d)) /\ Len(b) = Len(c) + 1 /\ b[Len(c) + 1] = d[n]
      /\ \A i \in 1..Len(c) : b[i] = d[c[i]]
  <2>1. /\ Values(c, d) \in Seq(Payloads(d)) /\ Len(Values(c, d)) = Len(c) /\ Len(c) \in Nat
        /\ \A i \in 1..Len(c) : Values(c, d)[i] = d[c[i]]
    BY ValuesOf
  <2>2. d[n] \in Payloads(d)
    BY DEF Payloads
  <2> QED
    BY <2>1, <2>2
<1>4. \A i \in 1..(Len(c) + 1) : a[i] = b[i]
  <2> HIDE DEF a, b, q
  <2> TAKE i \in 1..(Len(c) + 1)
  <2>1. CASE i = Len(c) + 1
    BY <1>1, <1>2, <1>3, <2>1
  <2>2. CASE i # Len(c) + 1
    <3>1. i \in 1..Len(c)
      BY <1>1, <2>2
    <3> QED
      BY <1>1, <1>2, <1>3, <3>1
  <2> QED
    BY <2>1, <2>2
<1>5. a = b
  <2> HIDE DEF a, b
  <2> QED
    BY <1>2, <1>3, <1>4, SeqEqual
<1> QED
  BY <1>5

LEMMA ValuesTail ==
    ASSUME NEW c \in Seq(Node), NEW d, Len(c) > 0
    PROVE  /\ Values(c, d) # << >> /\ Head(Values(c, d)) = d[c[1]]
           /\ Values(Tail(c), d) = Tail(Values(c, d))
<1> DEFINE v == Values(c, d)
           a == Values(Tail(c), d)
           b == Tail(v)
           q == Tail(c)
<1>1. /\ q \in Seq(Node) /\ Len(q) = Len(c) - 1 /\ Len(c) \in Nat /\ 1 \in 1..Len(c)
      /\ \A i \in 1..(Len(c) - 1) : q[i] = c[i + 1]
  OBVIOUS
<1>2. /\ v \in Seq(Payloads(d)) /\ Len(v) = Len(c) /\ v # << >>
      /\ \A i \in 1..Len(c) : v[i] = d[c[i]]
  <2> HIDE DEF v
  <2>1. /\ v \in Seq(Payloads(d)) /\ Len(v) = Len(c) /\ (v = << >> <=> Len(c) = 0)
        /\ \A i \in 1..Len(c) : v[i] = d[c[i]]
    BY ValuesOf DEF v
  <2> QED
    BY <2>1
<1>3. a \in Seq(Payloads(d)) /\ Len(a) = Len(c) - 1 /\ \A i \in 1..(Len(c) - 1) : a[i] = d[q[i]]
  <2> HIDE DEF q
  <2>1. /\ Values(q, d) \in Seq(Payloads(d)) /\ Len(Values(q, d)) = Len(q)
        /\ \A i \in 1..Len(q) : Values(q, d)[i] = d[q[i]]
    BY <1>1, ValuesOf
  <2> QED
    BY <1>1, <2>1 DEF q
<1> HIDE DEF v
<1>4. /\ b \in Seq(Payloads(d)) /\ Len(b) = Len(c) - 1 /\ Head(v) = v[1]
      /\ \A i \in 1..(Len(c) - 1) : b[i] = v[i + 1]
  BY <1>1, <1>2
<1>5. \A i \in 1..(Len(c) - 1) : a[i] = b[i]
  <2> HIDE DEF a, b, q
  <2> TAKE i \in 1..(Len(c) - 1)
  <2>1. i + 1 \in 1..Len(c)
    BY <1>1
  <2>2. a[i] = d[c[i + 1]]
    BY <1>1, <1>3
  <2>3. b[i] = d[c[i + 1]]
    BY <1>2, <1>4, <2>1
  <2> QED
    BY <2>2, <2>3
<1>6. a = b
  <2> HIDE DEF a, b
  <2> QED
    BY <1>3, <1>4, <1>5, SeqEqual
<1> QED
  BY <1>1, <1>2, <1>4, <1>6 DEF v

LEMMA SameValues ==
    ASSUME NEW c, NEW d, NEW e, \A i \in 1..Len(c) : d[c[i]] = e[c[i]]
    PROVE  Values(c, d) = Values(c, e)
BY DEF Values
=============================================================================
