------------------------------- MODULE Caches -------------------------------
(***************************************************************************)
(* The caches of high_performance_caching.cpp and, at the end, the         *)
(* directory cache.  A list of ARC and 2Q holds its pages most recent      *)
(* first; the hash map beside each list is its index.                      *)
(*                                                                         *)
(* ARC and 2Q: the payloads travel with their page and are left out.       *)
(*                                                                         *)
(* W-TinyLFU (TL): three LRU caches, a window, a probation and a protected *)
(* segment, each a sequence of [key, val] items.  Which of two keys the    *)
(* count-min sketch holds more frequent is left open: the sketch           *)
(* over-estimates and ages, so that either answer can come.                *)
(***************************************************************************)
EXTENDS AbstractMap, Integers, SequencesExt, TLC

CONSTANTS Page,
          Capacity,       \* c_ of ARC
          PScale          \* the target p_, a double, is in units of 1/PScale

ASSUME ARCSizes == Capacity \in Nat \ {0} /\ PScale \in Nat \ {0}

CONSTANTS Block,
          QueueCapacity   \* capacity_ of 2Q

ASSUME TQSizes == QueueCapacity \in Nat \ {0}

VARIABLES t1, t2,         \* resident: seen once lately, seen again
          b1, b2,         \* ghosts: pages evicted from t1, from t2
          p

arcVars == <<t1, t2, b1, b2, p>>

ARCTypeOK ==
    /\ {t1, t2, b1, b2} \subseteq Seq(Page)
    /\ p \in 0 .. Capacity * PScale

ARCInit ==
    /\ t1 = << >> /\ t2 = << >> /\ b1 = << >> /\ b2 = << >>
    /\ p = 0

In(list, k) == \E i \in DOMAIN list : list[i] = k
Erase(list, k) == RemoveAt(list, CHOOSE i \in DOMAIN list : list[i] = k)

\* replace(key): the next victim of t1 or t2, chosen by the target; nothing
\* happens when the list chosen is empty.
EvictsT1(target, k) ==
    \/ Len(t1) > target \div PScale
    \/ In(b2, k) /\ Len(t1) = target \div PScale

Replaced(target, k) ==
    IF t1 # << >> /\ EvictsT1(target, k)
    THEN [t1 |-> Front(t1), t2 |-> t2, b1 |-> <<Last(t1)>> \o b1, b2 |-> b2]
    ELSE IF t2 # << >>
    THEN [t1 |-> t1, t2 |-> Front(t2), b1 |-> b1, b2 |-> <<Last(t2)>> \o b2]
    ELSE [t1 |-> t1, t2 |-> t2, b1 |-> b1, b2 |-> b2]

\* get() or put() of a page in t1, in t2
HitT1(k) ==
    /\ In(t1, k)
    /\ t1' = Erase(t1, k)
    /\ t2' = <<k>> \o t2
    /\ UNCHANGED <<b1, b2, p>>

HitT2(k) ==
    /\ In(t2, k)
    /\ t2' = <<k>> \o Erase(t2, k)
    /\ UNCHANGED <<t1, b1, b2, p>>

\* put() of a page whose ghost is in b1: the recent side deserves more room
GhostB1(k) ==
    LET delta  == IF Len(b1) >= Len(b2) THEN PScale ELSE (Len(b2) * PScale) \div Len(b1)
        target == IF p + delta > Capacity * PScale THEN Capacity * PScale ELSE p + delta
        after  == Replaced(target, k)
    IN  /\ In(b1, k)
        /\ p' = target
        /\ t1' = after.t1
        /\ b1' = Erase(after.b1, k)
        /\ b2' = after.b2
        /\ t2' = <<k>> \o after.t2

\* put() of a page whose ghost is in b2: the frequent side does
GhostB2(k) ==
    LET delta  == IF Len(b2) >= Len(b1) THEN PScale ELSE (Len(b1) * PScale) \div Len(b2)
        target == IF p - delta < 0 THEN 0 ELSE p - delta
        after  == Replaced(target, k)
    IN  /\ In(b2, k)
        /\ p' = target
        /\ t1' = after.t1
        /\ b1' = after.b1
        /\ b2' = Erase(after.b2, k)
        /\ t2' = <<k>> \o after.t2

\* put() of a page no list knows
DropLast(list) == IF list = << >> THEN list ELSE Front(list)

Miss(k) ==
    LET l1      == Len(t1) + Len(b1)
        total   == l1 + Len(t2) + Len(b2)
        after   == Replaced(p, k)
        evicts  == \/ l1 = Capacity /\ Len(t1) < Capacity
                   \/ l1 < Capacity /\ total >= Capacity
        lists   == IF evicts THEN after ELSE [t1 |-> t1, t2 |-> t2, b1 |-> b1, b2 |-> b2]
        \* the ghost dropped before replace() pushes a new one in front
        trimB1  == l1 = Capacity /\ Len(t1) < Capacity /\ b1 # << >>
        trimB2  == l1 < Capacity /\ total = 2 * Capacity /\ b2 # << >>
        trimT1  == l1 = Capacity /\ Len(t1) >= Capacity
    IN  /\ ~In(t1 \o t2 \o b1 \o b2, k)
        /\ t1' = <<k>> \o (IF trimT1 THEN DropLast(lists.t1) ELSE lists.t1)
        /\ t2' = lists.t2
        /\ b1' = IF trimB1 THEN Front(lists.b1) ELSE lists.b1
        /\ b2' = IF trimB2 THEN Front(lists.b2) ELSE lists.b2
        /\ UNCHANGED p

ARCNext == \E k \in Page : HitT1(k) \/ HitT2(k) \/ GhostB1(k) \/ GhostB2(k) \/ Miss(k)

ARCSpec == ARCInit /\ [][ARCNext]_arcVars
-----------------------------------------------------------------------------
\* At most c pages are resident, at most c pages were seen only once, at most
\* 2c are known at all, and no page is on two lists.
ARCBounded ==
    LET known == t1 \o t2 \o b1 \o b2
    IN  /\ Len(t1) + Len(t2) <= Capacity
        /\ Len(t1) + Len(b1) <= Capacity
        /\ Len(known) <= 2 * Capacity
        /\ IsInjective(known)

\* A page that comes in pushes out one page at most.
ARCNeverShrinks == [][Len(t1' \o t2') >= Len(t1 \o t2)]_arcVars
-----------------------------------------------------------------------------
(* 2Q: a FIFO of blocks seen once, a FIFO of the ghosts evicted from it and  *)
(* an LRU list of blocks seen again.                                        *)

VARIABLES a1in, a1out, am

tqVars == <<a1in, a1out, am>>

KinCap == Max({1, QueueCapacity \div 4})
KoutCap == Max({1, QueueCapacity \div 2})

TQTypeOK == {a1in, a1out, am} \subseteq Seq(Block)

TQInit == a1in = << >> /\ a1out = << >> /\ am = << >>


\* reclaim_space() on the queues it finds: when the cache is full, the oldest
\* block of A1in becomes a ghost if A1in is over its share, else the coldest
\* block of Am goes for good.
ReclaimSpace(q) ==
    LET ghosts == IF Len(q.out) >= KoutCap THEN Front(q.out) ELSE q.out
    IN  IF Len(q.in) + Len(q.am) < QueueCapacity THEN q
        ELSE IF (Len(q.in) > KinCap \/ q.am = << >>) /\ q.in # << >>
        THEN [in |-> Front(q.in), out |-> <<Last(q.in)>> \o ghosts, am |-> q.am]
        ELSE IF q.am # << >> THEN [q EXCEPT !.am = Front(@)]
        ELSE q

Queues == [in |-> a1in, out |-> a1out, am |-> am]

PromoteToAm(q, k) ==
    LET r == ReclaimSpace(q)
    IN  a1in' = r.in /\ a1out' = r.out /\ am' = <<k>> \o r.am

\* get() or put() of a block of Am
HitAm(k) ==
    /\ In(am, k)
    /\ am' = <<k>> \o Erase(am, k)
    /\ UNCHANGED <<a1in, a1out>>

\* Mutant: space is reclaimed while the promoted block still counts.
ReclaimThenErase(k) ==
    LET r == ReclaimSpace(Queues)
    IN  /\ In(a1in, k)
        /\ a1in' = SelectSeq(r.in, LAMBDA j : j # k)
        /\ a1out' = SelectSeq(r.out, LAMBDA j : j # k)
        /\ am' = <<k>> \o r.am

\* get() or put() of a block of A1in: the second reference promotes it
HitA1in(k) ==
    /\ In(a1in, k)
    /\ PromoteToAm([Queues EXCEPT !.in = Erase(a1in, k)], k)

\* put() of a block whose ghost is remembered
GhostHit(k) ==
    /\ In(a1out, k)
    /\ PromoteToAm([Queues EXCEPT !.out = Erase(a1out, k)], k)

\* put() of any other block
FirstSeen(k) ==
    LET r == ReclaimSpace(Queues)
    IN  /\ ~In(a1in \o a1out \o am, k)
        /\ a1in' = <<k>> \o r.in /\ a1out' = r.out /\ am' = r.am

TQNext == \E k \in Block : HitAm(k) \/ HitA1in(k) \/ GhostHit(k) \/ FirstSeen(k)

TQSpec == TQInit /\ [][TQNext]_tqVars
-----------------------------------------------------------------------------
\* The cache holds at most its capacity and the ghosts their share; a block is
\* on one list only, so that its ghost never survives its return.
TQBounded ==
    /\ Len(a1in) + Len(am) <= QueueCapacity
    /\ Len(a1out) <= KoutCap
    /\ IsInjective(a1in \o a1out \o am)

\* A block that comes in pushes out one block at most.
TQNeverShrinks == [][Len(a1in' \o am') >= Len(a1in \o am)]_tqVars

\* In a cache of two lists and their ghosts, a page that comes in pushes out
\* one page at most: a full cache stays full.
NeverShrinks == ARCNeverShrinks /\ TQNeverShrinks
-----------------------------------------------------------------------------
(* W-TinyLFU                                                                *)

CONSTANT CacheCapacity      \* capacity_

\* With a capacity of 1 the share of the protected segment wraps to the largest
\* size_t, so that nothing bounds it.
ASSUME TLSizes == CacheCapacity \in Nat \ {0, 1}

VARIABLES window, probation, protected

tlVars == <<window, probation, protected, kv>>

WindowCap == Max({1, CacheCapacity \div 20})
MainCap == CacheCapacity - WindowCap
ProbationCap == Max({1, (MainCap * 2) \div 10})
ProtectedCap == Max({1, MainCap - ProbationCap})

TLTypeOK == {window, probation, protected} \subseteq Seq([key : Key, val : Value])

TLInit == window = << >> /\ probation = << >> /\ protected = << >>
-----------------------------------------------------------------------------
(* LRUCache *)

Has(items, k) == \E i \in DOMAIN items : items[i].key = k
Where(items, k) == CHOOSE i \in DOMAIN items : items[i].key = k
Item(items, k) == items[Where(items, k)]

\* get() of a key that is there: its item moves to the front.
Touched(items, k) == <<Item(items, k)>> \o RemoveAt(items, Where(items, k))

\* put(): an item updated or, after the oldest has gone when full, inserted.
Added(items, item, cap) ==
    IF Has(items, item.key) THEN <<item>> \o RemoveAt(items, Where(items, item.key))
    ELSE IF Len(items) >= cap THEN <<item>> \o Front(items)
    ELSE <<item>> \o items
-----------------------------------------------------------------------------
(* get() and put() *)

GetWindow(k) ==
    /\ Has(window, k)
    /\ window' = Touched(window, k)
    /\ UNCHANGED <<probation, protected, kv>>

GetProtected(k) ==
    /\ ~Has(window, k) /\ Has(protected, k)
    /\ protected' = Touched(protected, k)
    /\ UNCHANGED <<window, probation, kv>>

\* A hit in probation promotes the item; a full protected segment first hands
\* its oldest item back.  The item stays in probation as well.
GetProbation(k) ==
    LET hit  == Touched(probation, k)
        full == Len(protected) >= ProtectedCap
    IN  /\ ~Has(window, k) /\ ~Has(protected, k) /\ Has(probation, k)
        /\ probation' = IF full THEN Added(hit, Last(protected), ProbationCap) ELSE hit
        /\ protected' = Added(IF full THEN Front(protected) ELSE protected,
                              Item(probation, k), ProtectedCap)
        /\ UNCHANGED <<window, kv>>

\* Mutant: the copy left behind in probation is looked up before protected.
UpdatesCopyLeft(k, v) ==
    LET item == [key |-> k, val |-> v]
    IN  /\ \/ /\ Has(window, k)
              /\ window' = Added(window, item, WindowCap)
              /\ UNCHANGED <<probation, protected>>
           \/ /\ ~Has(window, k) /\ Has(probation, k)
              /\ probation' = Added(probation, item, ProbationCap)
              /\ UNCHANGED <<window, protected>>
           \/ /\ ~Has(window, k) /\ ~Has(probation, k) /\ Has(protected, k)
              /\ protected' = Added(protected, item, ProtectedCap)
              /\ UNCHANGED <<window, probation>>
        /\ AMPut(k, v)

\* put() of a key the cache holds: the copy found first is updated.
PutHit(k, v) ==
    LET item == [key |-> k, val |-> v]
    IN  /\ \/ /\ Has(window, k)
              /\ window' = Added(window, item, WindowCap)
              /\ UNCHANGED <<probation, protected>>
           \/ /\ ~Has(window, k) /\ Has(protected, k)
              /\ protected' = Added(protected, item, ProtectedCap)
              /\ UNCHANGED <<window, probation>>
           \/ /\ ~Has(window, k) /\ ~Has(protected, k) /\ Has(probation, k)
              /\ probation' = Added(probation, item, ProbationCap)
              /\ UNCHANGED <<window, protected>>
        /\ AMPut(k, v)

\* put() of a new key: the item the window loses enters probation if there is
\* room or if the sketch prefers it to probation's own victim.
PutNew(k, v) ==
    /\ ~Has(window \o probation \o protected, k)
    /\ \/ /\ Len(window) < WindowCap
          /\ window' = <<[key |-> k, val |-> v]>> \o window
          /\ UNCHANGED probation
       \/ /\ Len(window) >= WindowCap
          /\ window' = <<[key |-> k, val |-> v]>> \o Front(window)
          /\ \/ probation' = Added(probation, Last(window), ProbationCap)
             \/ Len(probation) >= ProbationCap /\ UNCHANGED probation
    /\ AMPut(k, v)
    /\ UNCHANGED protected

TLNext ==
    \E k \in Key :
        \/ GetWindow(k) \/ GetProtected(k) \/ GetProbation(k)
        \/ \E v \in Value : PutHit(k, v) \/ PutNew(k, v)

TLSpec == AMInit /\ TLInit /\ [][TLNext]_tlVars
-----------------------------------------------------------------------------
\* No segment outgrows its share or holds a key twice, and a key of the window
\* is in neither other segment.
TLBounded ==
    LET keys(items) == {items[i].key : i \in DOMAIN items}
    IN  /\ Len(window) <= WindowCap /\ Len(probation) <= ProbationCap
        /\ Len(protected) <= ProtectedCap
        /\ \A items \in {window, probation, protected} :
              \A i, j \in DOMAIN items : items[i].key = items[j].key => i = j
        /\ keys(window) \cap (keys(probation) \union keys(protected)) = {}

\* The copy get() finds first carries the last value put, although a promoted
\* item leaves a copy behind in probation that put() does not update.
Holder(k) ==
    IF Has(window, k) THEN window ELSE IF Has(protected, k) THEN protected ELSE probation

TLAnswers == \A k \in Key : Has(Holder(k), k) => Item(Holder(k), k).val = kv[k]

\* The caches above: no list outgrows its share or holds an entry twice, in
\* whatever order hits, ghost hits, promotions and evictions come; and what
\* W-TinyLFU finds is the last value put.
CachesSound ==
    /\ ARCTypeOK /\ ARCBounded
    /\ TQTypeOK /\ TQBounded
    /\ TLTypeOK /\ TLBounded /\ TLAnswers
-----------------------------------------------------------------------------
(* The directory-entry cache of linux_kernel_internals.cpp (DC), over       *)
(* intrusive circular lists.  A dentry holds two list_heads: d_hash, in the *)
(* chain of its bucket, and d_lru, in the eviction order, oldest first.     *)
(* "links" is the memory: the next and prev of every list_head.             *)

CONSTANTS Name,          \* a parent inode and a name
          Bucket, HashOf,
          Dentry,        \* addresses of dentries
          DcacheCapacity,
          Null, NoName

VARIABLES links,
          nameOf,        \* the name a dentry caches, NoName once freed
          activeCount,
          used           \* history: the names by last use, the latest last

dcVars == <<links, nameOf, activeCount, used>>

Lru == <<"lru_head_">>
HashHead(d) == <<"d_hash", d>>
LruHead(d) == <<"d_lru", d>>
ListHead == {Lru} \union (Bucket \X {"bucket"})
            \union {HashHead(d) : d \in Dentry} \union {LruHead(d) : d \in Dentry}

BucketOf(n) == <<HashOf[n], "bucket">>

\* The names of the fields are none of the buckets'.
ASSUME DCSizes ==
    /\ IsFiniteSet(Bucket) /\ IsFiniteSet(Dentry) /\ {"d_hash", "d_lru"} \cap Bucket = {}
    /\ HashOf \in [Name -> Bucket] /\ NoName \notin Name /\ Null \notin ListHead
    /\ DcacheCapacity \in Nat \ {0}

DCTypeOK ==
    /\ links \in [next : [ListHead -> ListHead \union {Null}],
                  prev : [ListHead -> ListHead \union {Null}]]
    /\ nameOf \in [Dentry -> Name \union {NoName}]
    /\ activeCount \in 0 .. Cardinality(Dentry)
    /\ used \in Seq(Name)

DCInit ==
    /\ links = [next |-> [h \in ListHead |-> h], prev |-> [h \in ListHead |-> h]]
    /\ nameOf = [d \in Dentry |-> NoName]
    /\ activeCount = 0
    /\ used = << >>
-----------------------------------------------------------------------------
(* struct list_head *)

\* __list_add(): the four stores, in their order
ListAddBetween(l, new, before, after) ==
    [l EXCEPT !.prev[after] = new, !.next[new] = after,
              !.prev[new] = before, !.next[before] = new]

ListAddTail(l, new, head) == ListAddBetween(l, new, l.prev[head], head)

\* __list_del()
Unlink(l, before, after) == [l EXCEPT !.prev[after] = before, !.next[before] = after]

\* list_del() leaves null pointers, list_del_init() an empty list.
ListDel(l, entry) ==
    [Unlink(l, l.prev[entry], l.next[entry]) EXCEPT !.next[entry] = Null, !.prev[entry] = Null]

InitListHead(l, entry) == [l EXCEPT !.next[entry] = entry, !.prev[entry] = entry]

ListDelInit(l, entry) == InitListHead(Unlink(l, l.prev[entry], l.next[entry]), entry)

\* The list_heads met from "head" until it comes again, through "to"; a walk
\* that never comes back ends in Null or repeats.
Walk(to, head) ==
    LET size == Cardinality(ListHead)
        step[i \in 0 .. size] ==
            LET from == IF i = 0 THEN head ELSE step[i - 1]
            IN  IF from \in ListHead THEN to[from] ELSE Null
        back == {i \in 0 .. size : step[i] = head}
    IN  [i \in 1 .. (IF back = {} THEN size ELSE Min(back)) |-> step[i - 1]]
-----------------------------------------------------------------------------
(* lookup(), add() and evict_lru() *)

Cached(n) == {d \in Dentry : HashHead(d) \in Range(Walk(links.next, BucketOf(n)))
                             /\ nameOf[d] = n}

UsedNow(n) == Append(IF In(used, n) THEN Erase(used, n) ELSE used, n)

\* A hit moves the dentry to the tail of the eviction order.
LookupHit(n) ==
    \E d \in Cached(n) :
        /\ links' = ListAddTail(ListDelInit(links, LruHead(d)), LruHead(d), Lru)
        /\ used' = UsedNow(n)
        /\ UNCHANGED <<nameOf, activeCount>>

\* evict_lru() as a transformer of [links, nameOf, count]
Evict(s) ==
    LET oldest == s.links.next[Lru]
        d      == oldest[2]
    IN  IF oldest = Lru THEN s
        ELSE [links  |-> ListDel(ListDel(s.links, LruHead(d)), HashHead(d)),
              nameOf |-> [s.nameOf EXCEPT ![d] = NoName],
              count  |-> s.count - 1]

State == [links |-> links, nameOf |-> nameOf, count |-> activeCount]

\* add() of a name that is not cached (of one that is, it is a lookup()); the
\* new dentry may be where the evicted one was.
Add(n) ==
    LET s == IF activeCount >= DcacheCapacity THEN Evict(State) ELSE State
    IN  /\ Cached(n) = {}
        /\ \E d \in {e \in Dentry : s.nameOf[e] = NoName} :
              LET fresh   == InitListHead(InitListHead(s.links, LruHead(d)), HashHead(d))
                  chained == ListAddTail(fresh, HashHead(d), BucketOf(n))
              IN  /\ links' = ListAddTail(chained, LruHead(d), Lru)
                  /\ nameOf' = [s.nameOf EXCEPT ![d] = n]
        /\ activeCount' = s.count + 1
        /\ used' = UsedNow(n)

EvictLru ==
    /\ activeCount > 0
    /\ links' = Evict(State).links
    /\ nameOf' = Evict(State).nameOf
    /\ activeCount' = Evict(State).count
    /\ UNCHANGED used

DCNext == EvictLru \/ \E n \in Name : LookupHit(n) \/ Add(n)

DCSpec == DCInit /\ [][DCNext]_dcVars
-----------------------------------------------------------------------------
\* Every chain closes on its head in both directions; each cached dentry is on
\* the chain of its bucket and on the eviction list, once; the count is right
\* and within the capacity.
DcacheSound ==
    LET chain(h) == Walk(links.next, h)
        live     == {d \in Dentry : nameOf[d] # NoName}
    IN  /\ \A h \in {Lru} \union (Bucket \X {"bucket"}) :
              /\ Walk(links.prev, h) = Reverse(chain(h))
              /\ IsInjective(chain(h))
        /\ Range(chain(Lru)) = {LruHead(d) : d \in live}
        /\ \A b \in Bucket : Range(chain(<<b, "bucket">>)) =
                                 {HashHead(d) : d \in {e \in live : HashOf[nameOf[e]] = b}}
        /\ activeCount = Cardinality(live) /\ activeCount <= DcacheCapacity

\* What is cached is what was used last, in the order of the last uses.
LruOrder ==
    LET cached == [i \in 1 .. activeCount |-> nameOf[Walk(links.next, Lru)[i][2]]]
    IN  cached = SubSeq(used, Len(used) - activeCount + 1, Len(used))
=============================================================================
