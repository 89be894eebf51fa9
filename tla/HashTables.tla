------------------------------ MODULE HashTables ------------------------------
(***************************************************************************)
(* The hash tables of hash_table.cpp and of                                *)
(* robin_hood_cuckoo_and_hopscotch_hashing.cpp.                            *)
(*                                                                         *)
(* HashTable (HT): open addressing with linear probing and tombstones.     *)
(*                                                                         *)
(* RobinHoodHashMap (RH): linear probing in which an entry far from its    *)
(* home takes the slot of one that is nearer to its own, and erasure       *)
(* shifts the entries behind it back.                                      *)
(*                                                                         *)
(* CuckooHashMap (CK): two tables, one slot for a key in each, and         *)
(* insertions that push what they find to its other slot.  Keys are their  *)
(* own hash, as std::hash of an integer is; both hash functions keep its   *)
(* low bits apart in the same way, so three keys equal in these bits make  *)
(* every eviction loop fail.                                               *)
(***************************************************************************)
EXTENDS AbstractMap, Integers, FiniteSets, Bitwise

CONSTANTS Hash,              \* hash_key(), std::hash: an arbitrary function of the key (HT, RH)
          InitialCapacity,   \* a power of two (8 in the code for HT, 16 for the others)
          MaxLoop,           \* MAX_LOOP (50 in the code) (CK)
          MaxCapacity        \* bound: no insertion that would grow beyond it

VARIABLES rep   \* the slots, their number, size_; in HT occupied_slots_, in CK
                \* the slots of both tables and the seeds modulo 2^16

tableVars == <<rep, kv>>
-----------------------------------------------------------------------------
(* HashTable                                                                *)

EMPTY == [state |-> "EMPTY"]
DELETED == [state |-> "DELETED"]
Occupied(e) == e.state = "OCCUPIED"
Entry(k, v) == [state |-> "OCCUPIED", key |-> k, val |-> v]

HTFresh(cap) ==
    [cap |-> cap, table |-> [i \in 0 .. cap - 1 |-> EMPTY], size |-> 0, occupied |-> 0]

HTInit == rep = HTFresh(InitialCapacity)

HTTypeOK ==
    /\ rep.cap \in Nat \ {0} /\ rep.size \in Nat /\ rep.occupied \in Nat
    /\ rep.table \in
          [0 .. rep.cap - 1 ->
              {EMPTY, DELETED} \union [state : {"OCCUPIED"}, key : Key, val : Value]]

\* The slots in the order in which they are probed for k.
HTProbe(T, k, i) == (Hash[k] + i) % T.cap

\* The first of the probes, or cap if there is none.
First(T, probes) ==
    IF probes = {} THEN T.cap ELSE CHOOSE i \in probes : \A j \in probes : i <= j

Holds(e, k) == Occupied(e) /\ e.key = k

\* Where the probes end: at the key or at an empty slot; and the first tombstone.
End(T, k) ==
    First(T, {i \in 0 .. T.cap - 1 :
                 \/ T.table[HTProbe(T, k, i)] = EMPTY
                 \/ Holds(T.table[HTProbe(T, k, i)], k)})
Grave(T, k) == First(T, {i \in 0 .. T.cap - 1 : T.table[HTProbe(T, k, i)] = DELETED})

\* find() and the lookup of erase()
Found(T, k) ==
    LET i == End(T, k)
    IN  IF i < T.cap /\ T.table[HTProbe(T, k, i)] # EMPTY THEN HTProbe(T, k, i) ELSE -1

\* insert() below the load limit.  Its loop ends because the limit leaves an
\* empty slot; a tombstone passed on the way is used again.
HTInsertHere(T, k, v) ==
    LET slot == HTProbe(T, k, IF Grave(T, k) < End(T, k) THEN Grave(T, k) ELSE End(T, k))
    IN  IF Found(T, k) # -1
        THEN [T EXCEPT !.table[Found(T, k)] = Entry(k, v)]
        ELSE [T EXCEPT !.table[slot] = Entry(k, v),
                       !.size = @ + 1,
                       !.occupied = IF T.table[slot] = DELETED THEN @ ELSE @ + 1]

\* rehash() inserts what is left, in the order of the old table.
RECURSIVE HTReinsert(_, _, _)
HTReinsert(T, old, i) ==
    IF i \notin DOMAIN old THEN T
    ELSE HTReinsert(IF Occupied(old[i]) THEN HTInsertHere(T, old[i].key, old[i].val) ELSE T,
                  old, i + 1)

HTOverloaded(T) == (T.occupied + 1) * 10 >= T.cap * 7

HTInsert(k, v) ==
    LET T == IF HTOverloaded(rep) THEN HTReinsert(HTFresh(2 * rep.cap), rep.table, 0) ELSE rep
    IN  /\ T.cap <= MaxCapacity
        /\ rep' = HTInsertHere(T, k, v)
        /\ AMPut(k, v)

HTErase(k) ==
    LET i == Found(rep, k)
    IN  /\ rep' = IF i = -1 THEN rep
                  ELSE [rep EXCEPT !.table[i] = DELETED, !.size = @ - 1]
        /\ AMRemove(k)

HTClear ==
    /\ rep' = HTFresh(rep.cap)
    /\ kv' = [k \in Key |-> NoValue]

HTNext ==
    \/ \E k \in Key : HTErase(k) \/ \E v \in Value : HTInsert(k, v)
    \/ HTClear

HTSpec == AMInit /\ HTInit /\ [][HTNext]_tableVars
-----------------------------------------------------------------------------
(* The slots of the other two tables *)

FREE == [occupied |-> FALSE]
Empty(cap) == [i \in 0 .. cap - 1 |-> FREE]
-----------------------------------------------------------------------------
(* RobinHoodHashMap                                                         *)

RHEntry == [occupied : {TRUE}, key : Key, val : Value, psl : Nat]

Fresh(cap) == [cap |-> cap, size |-> 0, table |-> Empty(cap)]

RHInit == rep = Fresh(InitialCapacity)

RHTypeOK ==
    /\ rep.cap \in Nat \ {0} /\ rep.size \in Nat
    /\ DOMAIN rep.table = 0 .. rep.cap - 1
    /\ \A i \in DOMAIN rep.table : rep.table[i] \in {FREE} \union RHEntry

Home(T, k) == Hash[k] % T.cap
After(T, i) == (i + 1) % T.cap

\* The probe of try_find() and erase(), at slot i after psl steps: it gives up
\* where the key would have taken the slot.
RECURSIVE Probe(_, _, _, _)
Probe(T, k, i, psl) ==
    LET s == T.table[i]
    IN  IF s = FREE THEN -1
        ELSE IF psl > s.psl THEN -1
        ELSE IF s.key = k THEN i
        ELSE Probe(T, k, After(T, i), psl + 1)

RHFound(T, k) == IF T.size = 0 THEN -1 ELSE Probe(T, k, Home(T, k), 0)

\* The loop of insert() with the entry e in hand at slot i.
RECURSIVE Place(_, _, _)
Place(T, e, i) ==
    LET s == T.table[i]
        further(x) == [x EXCEPT !.psl = @ + 1]
    IN  IF s = FREE THEN [T EXCEPT !.table[i] = e, !.size = @ + 1]
        ELSE IF s.key = e.key THEN [T EXCEPT !.table[i].val = e.val]
        ELSE IF e.psl > s.psl
        THEN Place([T EXCEPT !.table[i] = e], further(s), After(T, i))
        ELSE Place(T, further(e), After(T, i))

InsertHere(T, k, v) ==
    Place(T, [occupied |-> TRUE, key |-> k, val |-> v, psl |-> 0], Home(T, k))

RECURSIVE RHReinsert(_, _, _)
RHReinsert(T, old, i) ==
    IF i \notin DOMAIN old THEN T
    ELSE RHReinsert(IF old[i] # FREE THEN InsertHere(T, old[i].key, old[i].val) ELSE T,
                  old, i + 1)

\* The load would exceed 0.85.
Overloaded(T) == (T.size + 1) * 100 > T.cap * 85

RHInsert(k, v) ==
    LET T == IF Overloaded(rep) THEN RHReinsert(Fresh(2 * rep.cap), rep.table, 0) ELSE rep
    IN  /\ T.cap <= MaxCapacity
        /\ rep' = InsertHere(T, k, v)
        /\ AMPut(k, v)

\* Entries away from their home move back one slot, up to the first that is not.
RECURSIVE ShiftBack(_, _)
ShiftBack(T, i) ==
    LET next == After(T, i)
        s == T.table[next]
    IN  IF s = FREE THEN T
        ELSE IF s.psl = 0 THEN T
        ELSE ShiftBack([T EXCEPT !.table[i] = [s EXCEPT !.psl = @ - 1],
                                 !.table[next] = FREE], next)

RHErase(k) ==
    LET i == RHFound(rep, k)
    IN  /\ rep' = IF i = -1 THEN rep
                  ELSE ShiftBack([rep EXCEPT !.table[i] = FREE, !.size = @ - 1], i)
        /\ AMRemove(k)

RHNext == \E k \in Key : RHErase(k) \/ \E v \in Value : RHInsert(k, v)

RHSpec == AMInit /\ RHInit /\ [][RHNext]_tableVars
-----------------------------------------------------------------------------
(* CuckooHashMap                                                            *)

CKEntry(k, v) == [occupied |-> TRUE, key |-> k, val |-> v]

CKInit ==
    rep = [cap |-> InitialCapacity, size |-> 0, seed |-> <<1337, 7331>>,
           t |-> <<Empty(InitialCapacity), Empty(InitialCapacity)>>]

CKTypeOK ==
    /\ rep.cap \in Nat \ {0} /\ rep.size \in Nat
    /\ \A b \in {1, 2} : \A i \in 0 .. rep.cap - 1 :
        rep.t[b][i] \in {FREE} \union [occupied : {TRUE}, key : Key, val : Value]

\* hash1() and hash2(); the capacity is a power of two, so low bits are enough.
SlotOf(T, b, k) == (k % T.cap) ^^ (T.seed[b] % T.cap)

\* try_find(): the table and slot that hold k, in at most two looks
Holders(T, k) ==
    {b \in {1, 2} : T.t[b][SlotOf(T, b, k)].occupied /\ T.t[b][SlotOf(T, b, k)].key = k}

CKFound(T, k) ==
    IF T.size = 0 \/ Holders(T, k) = {} THEN 0
    ELSE IF 1 \in Holders(T, k) THEN 1 ELSE 2

RECURSIVE Evict(_, _, _, _), Insert(_, _, _), CKReinsert(_, _, _), Rehash(_)

\* The eviction loop with the entry e in hand, at table b; after MaxLoop turns
\* through both tables everything moves to larger ones and e is inserted last.
Evict(T, e, b, loop) ==
    LET i == SlotOf(T, b, e.key)
        out == T.t[b][i]
        T1 == [T EXCEPT !.t[b][i] = e]
    IN  IF loop = MaxLoop THEN Insert(Rehash(T), e.key, e.val)
        ELSE IF ~out.occupied THEN [T1 EXCEPT !.size = @ + 1]
        ELSE Evict(T1, out, 3 - b, IF b = 2 THEN loop + 1 ELSE loop)

Insert(T, k, v) ==
    LET b == CKFound(T, k)
    IN  IF b # 0 THEN [T EXCEPT !.t[b][SlotOf(T, b, k)].val = v]
        ELSE Evict(IF 2 * T.size >= T.cap THEN Rehash(T) ELSE T, CKEntry(k, v), 1, 0)

CKReinsert(T, old, i) ==
    IF i \notin DOMAIN old THEN T
    ELSE CKReinsert(IF old[i].occupied THEN Insert(T, old[i].key, old[i].val) ELSE T,
                  old, i + 1)

Rehash(T) ==
    LET cap == 2 * T.cap
        fresh == [cap |-> cap, size |-> 0, t |-> <<Empty(cap), Empty(cap)>>,
                  seed |-> <<(T.seed[1] + 31765) % 65536, (T.seed[2] + 58809) % 65536>>]
    IN  CKReinsert(CKReinsert(fresh, T.t[1], 0), T.t[2], 0)

CKInsert(k, v) ==
    LET T == Insert(rep, k, v)
    IN  /\ T.cap <= MaxCapacity
        /\ rep' = T
        /\ AMPut(k, v)

CKErase(k) ==
    LET b == CKFound(rep, k)
    IN  /\ rep' = IF b = 0 THEN rep
                  ELSE [rep EXCEPT !.t[b][SlotOf(rep, b, k)] = FREE, !.size = @ - 1]
        /\ AMRemove(k)

CKNext == \E k \in Key : CKErase(k) \/ \E v \in Value : CKInsert(k, v)

CKSpec == AMInit /\ CKInit /\ [][CKNext]_tableVars
-----------------------------------------------------------------------------
(* Properties                                                               *)

\* The counters count entries, and entries with tombstones; an empty slot is
\* always left, without which the loop of insert() would never end, and no key
\* is in two slots although insertions go back to tombstones before the key.
TableSound ==
    /\ rep.size = Cardinality({i \in DOMAIN rep.table : Occupied(rep.table[i])})
    /\ rep.occupied = Cardinality({i \in DOMAIN rep.table : rep.table[i] # EMPTY})
    /\ rep.occupied < rep.cap
    /\ \A i, j \in DOMAIN rep.table :
        i # j /\ Occupied(rep.table[i]) /\ Occupied(rep.table[j])
            => rep.table[i].key # rep.table[j].key

\* find() answers with the last value inserted and not erased.
HTAnswers ==
    \A k \in Key :
        kv[k] = IF Found(rep, k) = -1 THEN NoValue ELSE rep.table[Found(rep, k)].val

\* Every entry knows its distance from home, there is no gap on the way, and
\* nobody on the way is nearer to its own home than the entry was there: this
\* is what lets a probe give up early.  A slot is always free, else the loops
\* over the table would not end.
RobinHoodOrder ==
    /\ \E i \in DOMAIN rep.table : rep.table[i] = FREE
    /\ \A i \in DOMAIN rep.table :
        LET s == rep.table[i]
        IN  s # FREE =>
              /\ i = (Home(rep, s.key) + s.psl) % rep.cap
              /\ \A d \in 0 .. s.psl - 1 :
                  LET t == rep.table[(Home(rep, s.key) + d) % rep.cap]
                  IN  t # FREE /\ t.psl >= d

\* try_find() answers with the last value inserted and not erased.
RHAnswers ==
    \A k \in Key :
        kv[k] = IF RHFound(rep, k) = -1 THEN NoValue ELSE rep.table[RHFound(rep, k)].val

\* No key is lost or doubled by evictions or by a rehash in the middle of one:
\* every entry stands in one of its own two slots, once, and is counted.
CuckooSound ==
    LET full == {p \in {1, 2} \X (0 .. rep.cap - 1) : rep.t[p[1]][p[2]].occupied}
        entry(p) == rep.t[p[1]][p[2]]
    IN  /\ rep.size = Cardinality(full)
        /\ \A p \in full : p[2] = SlotOf(rep, p[1], entry(p).key)
        /\ \A p, q \in full : p # q => entry(p).key # entry(q).key

\* try_find() answers with the last value inserted and not erased.
CKAnswers ==
    \A k \in Key :
        LET b == CKFound(rep, k)
        IN  kv[k] = IF b = 0 THEN NoValue ELSE rep.t[b][SlotOf(rep, b, k)].val
=============================================================================
