------------------------------ MODULE MCStores ------------------------------
(***************************************************************************)
(* The storage engines, the caches and the replication helpers on small    *)
(* instances.  They do not interact; each behaviour runs one of them, named *)
(* by "part".                                                              *)
(*                                                                         *)
(* Then come the proofs of the caches, for any pages, keys, dentries and   *)
(* capacities:                                                             *)
(*                                                                         *)
(*   - ARC, 2Q and W-TinyLFU keep every list within its share, whatever    *)
(*     sequence of hits, ghost hits and misses comes; a full ARC or 2Q     *)
(*     stays full, and W-TinyLFU finds the last value put;                 *)
(*   - the intrusive lists of the directory cache stay closed, and what it *)
(*     holds was used last;                                                *)
(*   - whichever storage engine runs, it answers with the last value put   *)
(*     (from the proofs of the engines in Engine_proofs).                  *)
(***************************************************************************)
EXTENDS Engine_proofs, Caches

VARIABLE part

\* StorageEngines as extended: level 0 holds a run, keys are 1 to 3.  In the
\* other two instances every flush is compacted: Deep fills three levels; Wide
\* has keys for merges that are cut into several runs.
Deep == INSTANCE StorageEngines WITH Key <- 1 .. 4, Value <- {"x"},
                                    L0CompactionThreshold <- 1
Wide == INSTANCE StorageEngines WITH Key <- 1 .. 6, Value <- {"x"},
                                    L0CompactionThreshold <- 1, MaxLevels <- 2

MCKeyLen == <<1, 2, 1>>
MCValLen == [x |-> 1, y |-> 3]
MCHashOf == [n1 |-> "ba", n2 |-> "bb", n3 |-> "ba", n4 |-> "ba"]
MCTokens == [ra |-> {1, 6, 7}, rb |-> {2, 4}, rc |-> {3, 8}]

treeVars == <<memtable, levels, wal>>
segmentVars == <<window, probation, protected>>
engineVars == <<diskLog, keydir, pages, index, tinyMem, sstables>>
vars == <<part, kv, treeVars, segmentVars, engineVars, vcVars, rfVars,
          arcVars, tqVars, dcVars, hrVars>>

MCInit ==
    /\ part \in {"lsm", "deep lsm", "wide lsm", "bitcask", "pages", "tiny lsm", "arc", "2q",
                 "tinylfu", "dcache", "ring", "clocks", "raft"}
    /\ CASE part = "deep lsm" -> Deep!AMInit /\ Deep!LSMInit
         [] part = "wide lsm" -> Wide!AMInit /\ Wide!LSMInit
         [] OTHER -> AMInit /\ LSMInit
    /\ ARCInit /\ TQInit /\ DCInit /\ HRInit
    /\ TLInit /\ BCInit /\ SPInit /\ TinyInit
    /\ VCInit /\ RFInit

StoreNext ==
    /\ \/ part = "lsm" /\ LSMNext /\ UNCHANGED <<segmentVars, engineVars>>
       \/ part = "deep lsm" /\ Deep!LSMNext /\ UNCHANGED <<segmentVars, engineVars>>
       \/ part = "wide lsm" /\ Wide!LSMNext /\ UNCHANGED <<segmentVars, engineVars>>
       \/ part = "tinylfu" /\ TLNext /\ UNCHANGED <<treeVars, engineVars>>
       \/ /\ part = "bitcask" /\ BCNext
          /\ UNCHANGED <<treeVars, segmentVars, pages, index, tinyMem, sstables>>
       \/ /\ part = "pages" /\ SPNext
          /\ UNCHANGED <<treeVars, segmentVars, diskLog, keydir, tinyMem, sstables>>
       \/ /\ part = "tiny lsm" /\ TinyNext
          /\ UNCHANGED <<treeVars, segmentVars, diskLog, keydir, pages, index>>
    /\ UNCHANGED <<part, arcVars, tqVars, dcVars, hrVars, vcVars, rfVars>>

OtherNext ==
    /\ \/ part = "arc" /\ ARCNext /\ UNCHANGED <<tqVars, dcVars, hrVars, vcVars, rfVars>>
       \/ part = "2q" /\ TQNext /\ UNCHANGED <<arcVars, dcVars, hrVars, vcVars, rfVars>>
       \/ part = "dcache" /\ DCNext /\ UNCHANGED <<arcVars, tqVars, hrVars, vcVars, rfVars>>
       \/ part = "ring" /\ HRNext /\ UNCHANGED <<arcVars, tqVars, dcVars, vcVars, rfVars>>
       \/ part = "clocks" /\ VCNext /\ UNCHANGED <<arcVars, tqVars, dcVars, hrVars, rfVars>>
       \/ part = "raft" /\ RFNext /\ UNCHANGED <<arcVars, tqVars, dcVars, hrVars, vcVars>>
    /\ UNCHANGED <<part, kv, treeVars, segmentVars, engineVars>>

MCSpec == MCInit /\ [][StoreNext \/ OtherNext]_vars
-----------------------------------------------------------------------------
\* The variables keep their types.  The runs of a level are apart and in order,
\* tombstones stop at the last level, and the two other trees answer with the last
\* value put; cells and slots of a page never meet; every intrusive chain closes
\* both ways and what the directory cache holds was used last; a preference list
\* names distinct nodes in ring order.
StructuresConsistent ==
    CASE part = "lsm"      -> LSMTypeOK /\ LevelsSound
      [] part = "deep lsm" -> Deep!LSMTypeOK /\ Deep!LevelsSound /\ Deep!LSMAnswers
      [] part = "wide lsm" -> Wide!LSMTypeOK /\ Wide!LevelsSound /\ Wide!LSMAnswers
      [] part = "bitcask"  -> BCTypeOK
      [] part = "pages"    -> SPTypeOK /\ CellsApart
      [] part = "tiny lsm" -> TinyTypeOK
      [] part = "dcache"   -> DCTypeOK /\ DcacheSound /\ LruOrder
      [] part = "ring"     -> HRTypeOK /\ PreferenceListSound
      [] part = "clocks"   -> VCTypeOK
      [] part = "raft"     -> RFTypeOK
      [] OTHER -> TRUE

\* get() of an engine always answers with the last value put.
GetsLastPut ==
    CASE part = "lsm"      -> LSMAnswers
      [] part = "bitcask"  -> BCAnswers
      [] part = "pages"    -> SPAnswers
      [] part = "tiny lsm" -> TinyAnswers
      [] OTHER -> TRUE
-----------------------------------------------------------------------------
(* Lists: what pushing, dropping and erasing an entry does to what is on them *)

\* A list with an entry pushed in front.
LEMMA Pushed ==
    ASSUME NEW S, NEW list \in Seq(S), NEW e \in S
    PROVE  /\ <<e>> \o list \in Seq(S)
           /\ Len(<<e>> \o list) = Len(list) + 1
           /\ Range(<<e>> \o list) = {e} \union Range(list)
           /\ IsInjective(list) /\ e \notin Range(list) => IsInjective(<<e>> \o list)
<1> DEFINE new == <<e>> \o list
<1>1. /\ <<e>> \in Seq(S) /\ Len(<<e>>) = 1 /\ <<e>>[1] = e
      /\ Len(list) \in Nat
  OBVIOUS
<1>2. /\ new \in Seq(S) /\ Len(new) = Len(list) + 1
      /\ \A i \in 1 .. Len(new) : new[i] = IF i = 1 THEN e ELSE list[i - 1]
  BY <1>1
<1>3. DOMAIN new = 1 .. Len(list) + 1 /\ DOMAIN list = 1 .. Len(list)
  BY <1>1, <1>2, LenProperties
<1> HIDE DEF new
<1>4. Range(new) = {e} \union Range(list)
  <2>1. e \in Range(new)
    BY <1>1, <1>2, <1>3 DEF Range
  <2>2. \A i \in DOMAIN list : i + 1 \in DOMAIN new /\ new[i + 1] = list[i]
    BY <1>1, <1>2, <1>3
  <2>3. Range(list) \subseteq Range(new)
    BY <2>2 DEF Range
  <2>4. \A i \in DOMAIN new : new[i] = e \/ (i - 1 \in DOMAIN list /\ new[i] = list[i - 1])
    BY <1>1, <1>2, <1>3
  <2>5. Range(new) \subseteq {e} \union Range(list)
    BY <2>4 DEF Range
  <2> QED
    BY <2>1, <2>3, <2>5
<1>5. ASSUME IsInjective(list), e \notin Range(list)  PROVE IsInjective(new)
  <2>1. \A i \in DOMAIN list : list[i] # e
    BY <1>5 DEF Range
  <2>2. SUFFICES ASSUME NEW i \in DOMAIN new, NEW j \in DOMAIN new, new[i] = new[j]  PROVE i = j
    BY DEF IsInjective
  <2>3. /\ i = 1 \/ (i - 1 \in DOMAIN list /\ new[i] = list[i - 1])
        /\ j = 1 \/ (j - 1 \in DOMAIN list /\ new[j] = list[j - 1])
        /\ i \in Nat /\ j \in Nat /\ new[1] = e
    BY <1>1, <1>2, <1>3
  <2>4. CASE i = 1 \/ j = 1
    BY <2>1, <2>2, <2>3, <2>4
  <2>5. CASE i # 1 /\ j # 1
    <3>1. i - 1 = j - 1
      BY <1>5, <2>2, <2>3, <2>5 DEF IsInjective
    <3> QED
      BY <2>3, <3>1
  <2> QED
    BY <2>4, <2>5
<1> QED
  BY <1>2, <1>4, <1>5 DEF new

\* A list without its last entry.
LEMMA Dropped ==
    ASSUME NEW S, NEW list \in Seq(S), list # << >>
    PROVE  /\ Front(list) \in Seq(S) /\ Last(list) \in S
           /\ Len(Front(list)) = Len(list) - 1 /\ Len(list) \in Nat \ {0}
           /\ Range(list) = {Last(list)} \union Range(Front(list))
           /\ IsInjective(list) => IsInjective(Front(list)) /\ Last(list) \notin Range(Front(list))
<1> DEFINE n == Len(list)
           new == Front(list)
<1>1. n \in Nat \ {0} /\ DOMAIN list = 1 .. n /\ \A i \in 1 .. n : list[i] \in S
  BY LenProperties, EmptySeq
<1>2. /\ new \in Seq(S) /\ Len(new) = n - 1
      /\ \A i \in 1 .. n - 1 : new[i] = list[i]
  <2> HIDE DEF n
  <2>1. new = SubSeq(list, 1, n - 1)
    BY DEF Front, n
  <2>2. \A i \in 1 .. n - 1 : list[i] \in S
    BY <1>1
  <2>3. /\ SubSeq(list, 1, n - 1) \in Seq(S)
        /\ Len(SubSeq(list, 1, n - 1)) = IF 1 <= n - 1 THEN (n - 1) - 1 + 1 ELSE 0
        /\ \A i \in 1 .. (n - 1) - 1 + 1 : SubSeq(list, 1, n - 1)[i] = list[1 + i - 1]
    BY <1>1, <2>2, SubSeqProperties
  <2> QED
    BY <1>1, <2>1, <2>3
<1>3. DOMAIN new = 1 .. n - 1
  BY <1>2, LenProperties
<1>4. Last(list) = list[n]
  BY DEF Last
<1> HIDE DEF new, n
<1>5. Range(list) = {Last(list)} \union Range(new)
  <2>1. \A i \in DOMAIN list : i = n \/ (i \in DOMAIN new /\ list[i] = new[i])
    BY <1>1, <1>2, <1>3
  <2>2. \A i \in DOMAIN new : i \in DOMAIN list /\ list[i] = new[i]
    BY <1>1, <1>2, <1>3
  <2>3. n \in DOMAIN list
    BY <1>1
  <2>4. Range(list) \subseteq {Last(list)} \union Range(new)
    BY <1>4, <2>1 DEF Range
  <2>5. {Last(list)} \union Range(new) \subseteq Range(list)
    BY <1>4, <2>2, <2>3 DEF Range
  <2> QED
    BY <2>4, <2>5
<1>6. ASSUME IsInjective(list)  PROVE IsInjective(new) /\ Last(list) \notin Range(new)
  <2>1. \A i \in DOMAIN new : i \in DOMAIN list /\ list[i] = new[i] /\ i # n
    BY <1>1, <1>2, <1>3
  <2>2. n \in DOMAIN list
    BY <1>1
  <2>3. IsInjective(new)
    BY <1>6, <2>1 DEF IsInjective
  <2>4. \A i \in DOMAIN new : new[i] # list[n]
    BY <1>6, <2>1, <2>2 DEF IsInjective
  <2> QED
    BY <1>4, <2>3, <2>4 DEF Range
<1> QED
  BY <1>1, <1>2, <1>4, <1>5, <1>6 DEF new, n

\* A list without its entry at i.
LEMMA Removed ==
    ASSUME NEW S, NEW list \in Seq(S), NEW i \in DOMAIN list
    PROVE  /\ RemoveAt(list, i) \in Seq(S)
           /\ Len(RemoveAt(list, i)) = Len(list) - 1 /\ Len(list) \in Nat \ {0}
           /\ \A j \in DOMAIN RemoveAt(list, i) :
                 /\ j \in Nat
                 /\ RemoveAt(list, i)[j] = IF j < i THEN list[j] ELSE list[j + 1]
                 /\ (IF j < i THEN j ELSE j + 1) \in DOMAIN list
           /\ \A j \in DOMAIN list : j # i =>
                 LET at == IF j < i THEN j ELSE j - 1
                 IN  at \in DOMAIN RemoveAt(list, i) /\ RemoveAt(list, i)[at] = list[j]
<1> DEFINE n == Len(list)
           new == RemoveAt(list, i)
           low == SubSeq(list, 1, i - 1)
           high == SubSeq(list, i + 1, n)
<1>1. n \in Nat \ {0} /\ DOMAIN list = 1 .. n /\ (\A j \in 1 .. n : list[j] \in S) /\ i \in 1 .. n
  BY LenProperties, EmptySeq
<1> HIDE DEF n
<1>2. /\ low \in Seq(S) /\ Len(low) = i - 1
      /\ \A j \in 1 .. i - 1 : low[j] = list[j]
  <2>1. \A j \in 1 .. i - 1 : list[j] \in S
    BY <1>1
  <2>2. /\ SubSeq(list, 1, i - 1) \in Seq(S)
        /\ Len(SubSeq(list, 1, i - 1)) = IF 1 <= i - 1 THEN (i - 1) - 1 + 1 ELSE 0
        /\ \A j \in 1 .. (i - 1) - 1 + 1 : SubSeq(list, 1, i - 1)[j] = list[1 + j - 1]
    BY <1>1, <2>1, SubSeqProperties
  <2> QED
    BY <1>1, <2>2
<1>3. /\ high \in Seq(S) /\ Len(high) = n - i
      /\ \A j \in 1 .. n - i : high[j] = list[i + j]
  <2>1. \A j \in i + 1 .. n : list[j] \in S
    BY <1>1
  <2>2. /\ SubSeq(list, i + 1, n) \in Seq(S)
        /\ Len(SubSeq(list, i + 1, n)) = IF i + 1 <= n THEN n - (i + 1) + 1 ELSE 0
        /\ \A j \in 1 .. n - (i + 1) + 1 : SubSeq(list, i + 1, n)[j] = list[i + 1 + j - 1]
    BY <1>1, <2>1, SubSeqProperties
  <2> QED
    BY SMTT(40), <1>1, <2>2
<1>4. new = low \o high
  BY DEF RemoveAt, n
<1> HIDE DEF low, high, new
<1>5. /\ new \in Seq(S) /\ Len(new) = n - 1
      /\ \A j \in 1 .. n - 1 : new[j] = IF j <= i - 1 THEN low[j] ELSE high[j - (i - 1)]
  <2>1. /\ low \o high \in Seq(S) /\ Len(low \o high) = Len(low) + Len(high)
        /\ \A j \in 1 .. Len(low) + Len(high) : (low \o high)[j] =
              IF j <= Len(low) THEN low[j] ELSE high[j - Len(low)]
    BY <1>2, <1>3, ConcatProperties
  <2>2. Len(low) + Len(high) = n - 1
    BY <1>1, <1>2, <1>3
  <2> QED
    BY <1>2, <1>4, <2>1, <2>2
<1>6. DOMAIN new = 1 .. n - 1
  BY <1>5, LenProperties
<1>7. \A j \in 1 .. n - 1 : new[j] = IF j < i THEN list[j] ELSE list[j + 1]
  <2>1. SUFFICES ASSUME NEW j \in 1 .. n - 1  PROVE new[j] = IF j < i THEN list[j] ELSE list[j + 1]
    OBVIOUS
  <2>2. j \in Nat /\ i \in Nat /\ n \in Nat /\ new[j] = IF j <= i - 1 THEN low[j] ELSE high[j - (i - 1)]
    BY <1>1, <1>5
  <2>3. CASE j < i
    BY <1>2, <2>2, <2>3
  <2>4. CASE ~(j < i)
    <3>1. j - (i - 1) \in 1 .. n - i /\ i + (j - (i - 1)) = j + 1 /\ ~(j <= i - 1)
      BY <2>1, <2>2, <2>4
    <3> QED
      BY <1>3, <2>2, <2>4, <3>1
  <2> QED
    BY <2>3, <2>4
<1>8. \A j \in DOMAIN new :
         /\ j \in Nat
         /\ new[j] = IF j < i THEN list[j] ELSE list[j + 1]
         /\ (IF j < i THEN j ELSE j + 1) \in DOMAIN list
  BY <1>1, <1>6, <1>7
<1>9. \A j \in DOMAIN list : j # i =>
         LET at == IF j < i THEN j ELSE j - 1
         IN  at \in DOMAIN new /\ new[at] = list[j]
  BY <1>1, <1>6, <1>7
<1> QED
  BY <1>1, <1>5, <1>8, <1>9 DEF new, n

\* A list without the entry k.
LEMMA Erased ==
    ASSUME NEW S, NEW list \in Seq(S), NEW k, In(list, k), IsInjective(list)
    PROVE  /\ Erase(list, k) \in Seq(S) /\ k \in Range(list) /\ k \in S
           /\ Len(Erase(list, k)) = Len(list) - 1 /\ Len(list) \in Nat \ {0}
           /\ Range(Erase(list, k)) = Range(list) \ {k}
           /\ IsInjective(Erase(list, k))
<1> DEFINE i == CHOOSE i \in DOMAIN list : list[i] = k
           new == RemoveAt(list, i)
<1>1. i \in DOMAIN list /\ list[i] = k
  BY DEF In
<1>2. Erase(list, k) = new
  BY DEF Erase
<1> HIDE DEF i
<1>3. /\ new \in Seq(S) /\ Len(new) = Len(list) - 1 /\ Len(list) \in Nat \ {0}
      /\ \A j \in DOMAIN new :
            /\ j \in Nat
            /\ new[j] = IF j < i THEN list[j] ELSE list[j + 1]
            /\ (IF j < i THEN j ELSE j + 1) \in DOMAIN list
      /\ \A j \in DOMAIN list : j # i =>
            LET at == IF j < i THEN j ELSE j - 1
            IN  at \in DOMAIN new /\ new[at] = list[j]
  BY ONLY <1>1, Removed, list \in Seq(S)
<1> HIDE DEF new
<1>4. i \in Nat /\ \A j \in DOMAIN list : j \in Nat
  BY <1>1, LenProperties
<1>5. \A j \in DOMAIN new : (IF j < i THEN j ELSE j + 1) # i
  BY <1>3, <1>4
<1>6. \A j \in DOMAIN new : \E l \in DOMAIN list : new[j] = list[l] /\ l # i
  BY <1>3, <1>5
<1>7. \A j \in DOMAIN list : j # i => \E l \in DOMAIN new : new[l] = list[j]
  BY <1>3
<1>8. Range(new) = Range(list) \ {k}
  <2>1. \A l \in DOMAIN list : l # i => list[l] # k
    BY <1>1 DEF IsInjective
  <2>2. Range(new) \subseteq Range(list) \ {k}
    BY <1>6, <2>1 DEF Range
  <2>3. Range(list) \ {k} \subseteq Range(new)
    BY <1>1, <1>7 DEF Range
  <2> QED
    BY <2>2, <2>3
<1>9. IsInjective(new)
  <2>1. SUFFICES ASSUME NEW a \in DOMAIN new, NEW b \in DOMAIN new, new[a] = new[b]  PROVE a = b
    BY DEF IsInjective
  <2>2. (IF a < i THEN a ELSE a + 1) = (IF b < i THEN b ELSE b + 1)
    BY <1>3, <2>1 DEF IsInjective
  <2> QED
    BY <1>3, <1>4, <2>2
<1>10. k \in Range(list) /\ k \in S
  BY <1>1, ElementOfSeq, LenProperties DEF Range
<1> QED
  BY <1>2, <1>3, <1>8, <1>9, <1>10

\* Two lists in one have no entry twice when neither has and they share none.
LEMMA Joined ==
    ASSUME NEW S, NEW a \in Seq(S), NEW b \in Seq(S)
    PROVE  /\ a \o b \in Seq(S) /\ Len(a \o b) = Len(a) + Len(b)
           /\ Len(a) \in Nat /\ Len(b) \in Nat
           /\ Range(a \o b) = Range(a) \union Range(b)
           /\ IsInjective(a \o b) <=>
                  IsInjective(a) /\ IsInjective(b) /\ Range(a) \cap Range(b) = {}
<1> DEFINE c == a \o b
           m == Len(a)
           n == Len(b)
<1>1. /\ m \in Nat /\ n \in Nat
      /\ DOMAIN a = 1 .. m /\ DOMAIN b = 1 .. n
      /\ c \in Seq(S) /\ Len(c) = m + n
      /\ \A i \in 1 .. m + n : c[i] = IF i <= m THEN a[i] ELSE b[i - m]
  BY LenProperties, ConcatProperties
<1>2. DOMAIN c = 1 .. m + n
  BY <1>1, LenProperties
<1>3. Range(c) = Range(a) \union Range(b)
  BY RangeConcatenation
<1> HIDE DEF c, m, n
<1>4. \A i \in DOMAIN a : i \in DOMAIN c /\ c[i] = a[i]
  BY <1>1, <1>2
<1>5. \A i \in DOMAIN b : i + m \in DOMAIN c /\ c[i + m] = b[i] /\ i + m \in Nat /\ i + m > m
  BY <1>1, <1>2
<1>6. \A i \in DOMAIN c : (i \in DOMAIN a /\ c[i] = a[i]) \/ (i - m \in DOMAIN b /\ c[i] = b[i - m])
  BY <1>1, <1>2
<1>7. ASSUME IsInjective(c)  PROVE IsInjective(a) /\ IsInjective(b) /\ Range(a) \cap Range(b) = {}
  <2>1. IsInjective(a)
    BY <1>4, <1>7 DEF IsInjective
  <2>2. ASSUME NEW i \in DOMAIN b, NEW j \in DOMAIN b, b[i] = b[j]  PROVE i = j
    <3>1. i + m = j + m
      BY <1>5, <1>7, <2>2 DEF IsInjective
    <3> QED
      BY <1>1, <3>1
  <2>3. ASSUME NEW i \in DOMAIN a, NEW j \in DOMAIN b, a[i] = b[j]  PROVE FALSE
    <3>1. i = j + m
      BY <1>4, <1>5, <1>7, <2>3 DEF IsInjective
    <3> QED
      BY <1>1, <1>5, <3>1
  <2> QED
    BY <2>1, <2>2, <2>3 DEF IsInjective, Range
<1>8. ASSUME IsInjective(a), IsInjective(b), Range(a) \cap Range(b) = {}  PROVE IsInjective(c)
  <2>1. SUFFICES ASSUME NEW i \in DOMAIN c, NEW j \in DOMAIN c, c[i] = c[j]  PROVE i = j
    BY DEF IsInjective
  <2>2. \A x \in DOMAIN a, y \in DOMAIN b : a[x] # b[y]
    BY <1>8 DEF Range
  <2>3. \/ i \in DOMAIN a /\ j \in DOMAIN a /\ a[i] = a[j]
        \/ i - m \in DOMAIN b /\ j - m \in DOMAIN b /\ b[i - m] = b[j - m]
    BY <1>6, <2>1, <2>2
  <2>4. i = j \/ i - m = j - m
    BY <1>8, <2>3 DEF IsInjective
  <2> QED
    BY <1>1, <1>2, <2>4
<1> QED
  BY <1>1, <1>3, <1>7, <1>8 DEF c, m, n
-----------------------------------------------------------------------------
(* Proof: ARC keeps its bounds, for any capacity and any fractional target *)

\* Every page on one list at most.
OnOneList(a, b, c, d) ==
    /\ a \in Seq(Page) /\ b \in Seq(Page) /\ c \in Seq(Page) /\ d \in Seq(Page)
    /\ IsInjective(a) /\ IsInjective(b) /\ IsInjective(c) /\ IsInjective(d)
    /\ Range(a) \cap Range(b) = {} /\ Range(a) \cap Range(c) = {}
    /\ Range(a) \cap Range(d) = {} /\ Range(b) \cap Range(c) = {}
    /\ Range(b) \cap Range(d) = {} /\ Range(c) \cap Range(d) = {}

\* The sizes code compares: resident pages, pages seen once, pages known.
Sized(a, b, c, d) ==
    /\ Len(a) + Len(b) <= Capacity
    /\ Len(a) + Len(c) <= Capacity
    /\ Len(a) + Len(b) + Len(c) + Len(d) <= 2 * Capacity

ARCInv ==
    /\ OnOneList(t1, t2, b1, b2)
    /\ Sized(t1, t2, b1, b2)
    /\ p \in 0 .. Capacity * PScale

LEMMA ARCInvInit == ARCInit => ARCInv
<1> SUFFICES ASSUME ARCInit  PROVE ARCInv
  OBVIOUS
<1>1. /\ << >> \in Seq(Page) /\ Len(<< >>) = 0 /\ DOMAIN << >> = {}
      /\ Range(<< >>) = {} /\ IsInjective(<< >>)
  BY DEF Range, IsInjective
<1>2. OnOneList(t1, t2, b1, b2)
  BY <1>1 DEF ARCInit, OnOneList
<1>3. Sized(t1, t2, b1, b2)
  BY <1>1, ARCSizes DEF ARCInit, Sized
<1>4. p \in 0 .. Capacity * PScale
  <2>1. Capacity * PScale \in Nat
    BY ARCSizes
  <2> QED
    BY <2>1 DEF ARCInit
<1> QED
  BY <1>2, <1>3, <1>4 DEF ARCInv

\* What the invariant says of the lengths and of a page on a list.
LEMMA ARCFacts ==
    ASSUME ARCInv
    PROVE  /\ Len(t1) \in Nat /\ Len(t2) \in Nat /\ Len(b1) \in Nat /\ Len(b2) \in Nat
           /\ t1 = << >> <=> Len(t1) = 0
           /\ t2 = << >> <=> Len(t2) = 0
           /\ b1 = << >> <=> Len(b1) = 0
           /\ b2 = << >> <=> Len(b2) = 0
           /\ Capacity \in Nat \ {0}
BY ARCSizes, EmptySeq, LenProperties DEF ARCInv, OnOneList

LEMMA OnList == ASSUME NEW list, NEW k  PROVE In(list, k) <=> k \in Range(list)
BY DEF In, Range

\* The target is never more than the capacity.
LEMMA TargetInCapacity ==
    ASSUME NEW t \in 0 .. Capacity * PScale
    PROVE  t \div PScale \in Nat /\ t \div PScale <= Capacity
<1> DEFINE q == t \div PScale
<1>1. /\ PScale \in Nat \ {0} /\ Capacity \in Nat /\ Capacity * PScale \in Nat
      /\ t \in Nat /\ t <= Capacity * PScale
  BY ARCSizes
<1>2. q \in Int /\ PScale * q <= t /\ t < PScale * q + PScale
  BY <1>1
<1> HIDE DEF q
<1>3. q >= 0
  BY <1>1, <1>2
<1>4. q <= Capacity
  <2>1. SUFFICES ASSUME q >= Capacity + 1  PROVE FALSE
    BY <1>1, <1>2
  <2>2. PScale * q >= PScale * (Capacity + 1)
    BY <1>1, <1>2, <2>1
  <2>3. PScale * (Capacity + 1) = Capacity * PScale + PScale
    BY <1>1
  <2> QED
    BY <1>1, <1>2, <2>2, <2>3
<1> QED
  BY <1>2, <1>3, <1>4 DEF q

\* How much the target moves.
LEMMA DeltaNat ==
    ASSUME NEW m \in Nat, NEW n \in Nat \ {0}
    PROVE  (m * PScale) \div n \in Nat
<1>1. m * PScale \in Nat
  BY ARCSizes
<1> QED
  BY <1>1

\* replace(): one page moves to the front of its ghosts, or t2 is empty and t1
\* within the target.
LEMMA ReplacedFacts ==
    ASSUME ARCInv, NEW target \in 0 .. Capacity * PScale, NEW k
    PROVE  LET r == Replaced(target, k)
           IN  /\ OnOneList(r.t1, r.t2, r.b1, r.b2)
               /\ Range(r.t1) \union Range(r.t2) \union Range(r.b1) \union Range(r.b2) =
                  Range(t1) \union Range(t2) \union Range(b1) \union Range(b2)
               /\ Range(b1) \subseteq Range(r.b1) /\ Range(b2) \subseteq Range(r.b2)
               /\ \/ /\ Len(r.t1) = Len(t1) - 1 /\ Len(t1) > 0 /\ Len(r.b1) = Len(b1) + 1
                     /\ Len(r.t2) = Len(t2) /\ Len(r.b2) = Len(b2)
                  \/ /\ Len(r.t2) = Len(t2) - 1 /\ Len(t2) > 0 /\ Len(r.b2) = Len(b2) + 1
                     /\ Len(r.t1) = Len(t1) /\ Len(r.b1) = Len(b1)
                  \/ /\ r = [t1 |-> t1, t2 |-> t2, b1 |-> b1, b2 |-> b2]
                     /\ Len(t2) = 0 /\ Len(t1) <= Capacity
                     /\ In(b2, k) /\ Len(t1) > 0 => Len(t1) < Capacity
<1> DEFINE r == Replaced(target, k)
<1>1. OnOneList(t1, t2, b1, b2)
  BY DEF ARCInv
<1>2. CASE t1 # << >> /\ EvictsT1(target, k)
  <2>1. r = [t1 |-> Front(t1), t2 |-> t2, b1 |-> <<Last(t1)>> \o b1, b2 |-> b2]
    BY <1>2 DEF Replaced
  <2>2. /\ Front(t1) \in Seq(Page) /\ Last(t1) \in Page
        /\ Len(Front(t1)) = Len(t1) - 1 /\ Len(t1) \in Nat \ {0}
        /\ Range(t1) = {Last(t1)} \union Range(Front(t1))
        /\ IsInjective(Front(t1)) /\ Last(t1) \notin Range(Front(t1))
    BY <1>1, <1>2, Dropped DEF OnOneList
  <2>3. Last(t1) \notin Range(b1) /\ b1 \in Seq(Page) /\ IsInjective(b1)
    BY <1>1, <2>2 DEF OnOneList
  <2>4. /\ <<Last(t1)>> \o b1 \in Seq(Page)
        /\ Len(<<Last(t1)>> \o b1) = Len(b1) + 1
        /\ Range(<<Last(t1)>> \o b1) = {Last(t1)} \union Range(b1)
        /\ IsInjective(<<Last(t1)>> \o b1)
    BY <2>2, <2>3, Pushed
  <2>5. OnOneList(Front(t1), t2, <<Last(t1)>> \o b1, b2)
    BY <1>1, <2>2, <2>4 DEF OnOneList
  <2>6. /\ r.t1 = Front(t1) /\ r.b1 = <<Last(t1)>> \o b1
        /\ r.t2 = t2 /\ r.b2 = b2
    BY <2>1
  <2>7. Range(r.t1) \union Range(r.t2) \union Range(r.b1) \union Range(r.b2) =
        Range(t1) \union Range(t2) \union Range(b1) \union Range(b2)
    BY <2>2, <2>4, <2>6
  <2>8. Range(b1) \subseteq Range(r.b1) /\ Range(b2) \subseteq Range(r.b2)
    BY <2>4, <2>6
  <2>9. /\ Len(r.t1) = Len(t1) - 1 /\ Len(t1) > 0 /\ Len(r.b1) = Len(b1) + 1
        /\ Len(r.t2) = Len(t2) /\ Len(r.b2) = Len(b2)
    BY <2>2, <2>4, <2>6
  <2>10. OnOneList(r.t1, r.t2, r.b1, r.b2)
    BY <2>5, <2>6
  <2> QED
    BY ONLY <2>7, <2>8, <2>9, <2>10
<1>3. CASE ~(t1 # << >> /\ EvictsT1(target, k)) /\ t2 # << >>
  <2>1. r = [t1 |-> t1, t2 |-> Front(t2), b1 |-> b1, b2 |-> <<Last(t2)>> \o b2]
    BY <1>3 DEF Replaced
  <2>2. /\ Front(t2) \in Seq(Page) /\ Last(t2) \in Page
        /\ Len(Front(t2)) = Len(t2) - 1 /\ Len(t2) \in Nat \ {0}
        /\ Range(t2) = {Last(t2)} \union Range(Front(t2))
        /\ IsInjective(Front(t2)) /\ Last(t2) \notin Range(Front(t2))
    BY <1>1, <1>3, Dropped DEF OnOneList
  <2>3. Last(t2) \notin Range(b2) /\ b2 \in Seq(Page) /\ IsInjective(b2)
    BY <1>1, <2>2 DEF OnOneList
  <2>4. /\ <<Last(t2)>> \o b2 \in Seq(Page)
        /\ Len(<<Last(t2)>> \o b2) = Len(b2) + 1
        /\ Range(<<Last(t2)>> \o b2) = {Last(t2)} \union Range(b2)
        /\ IsInjective(<<Last(t2)>> \o b2)
    BY <2>2, <2>3, Pushed
  <2>5. OnOneList(t1, Front(t2), b1, <<Last(t2)>> \o b2)
    BY <1>1, <2>2, <2>4 DEF OnOneList
  <2>6. /\ r.t2 = Front(t2) /\ r.b2 = <<Last(t2)>> \o b2
        /\ r.t1 = t1 /\ r.b1 = b1
    BY <2>1
  <2>7. Range(r.t1) \union Range(r.t2) \union Range(r.b1) \union Range(r.b2) =
        Range(t1) \union Range(t2) \union Range(b1) \union Range(b2)
    BY <2>2, <2>4, <2>6
  <2>8. Range(b1) \subseteq Range(r.b1) /\ Range(b2) \subseteq Range(r.b2)
    BY <2>4, <2>6
  <2>9. /\ Len(r.t2) = Len(t2) - 1 /\ Len(t2) > 0 /\ Len(r.b2) = Len(b2) + 1
        /\ Len(r.t1) = Len(t1) /\ Len(r.b1) = Len(b1)
    BY <2>2, <2>4, <2>6
  <2>10. OnOneList(r.t1, r.t2, r.b1, r.b2)
    BY <2>5, <2>6
  <2> QED
    BY ONLY <2>7, <2>8, <2>9, <2>10
<1>4. CASE ~(t1 # << >> /\ EvictsT1(target, k)) /\ ~(t2 # << >>)
  <2>1. r = [t1 |-> t1, t2 |-> t2, b1 |-> b1, b2 |-> b2]
    BY <1>4 DEF Replaced
  <2>2. Len(t2) = 0
    BY <1>4, ARCFacts
  <2>3. target \div PScale \in Nat /\ target \div PScale <= Capacity
    BY TargetInCapacity
  <2>4. Len(t1) <= Capacity /\ (In(b2, k) /\ Len(t1) > 0 => Len(t1) < Capacity)
    BY <1>4, <2>3, ARCFacts DEF EvictsT1
  <2> QED
    BY <1>1, <2>1, <2>2, <2>4
<1> QED
  BY <1>2, <1>3, <1>4

\* A page leaves its list and comes to the front of t2.
LEMMA HitT1Step ==
    ASSUME ARCInv, NEW k \in Page, HitT1(k)
    PROVE  ARCInv' /\ Len(t1') + Len(t2') >= Len(t1) + Len(t2)
<1>1. OnOneList(t1, t2, b1, b2) /\ Sized(t1, t2, b1, b2) /\ p \in 0 .. Capacity * PScale
  BY DEF ARCInv
<1>2. /\ t1' = Erase(t1, k) /\ t2' = <<k>> \o t2 /\ b1' = b1 /\ b2' = b2 /\ p' = p
      /\ In(t1, k)
  BY DEF HitT1
<1>3. /\ t1' \in Seq(Page) /\ k \in Range(t1)
      /\ Len(t1') = Len(t1) - 1
      /\ Range(t1') = Range(t1) \ {k}
      /\ IsInjective(t1')
  BY <1>1, <1>2, Erased DEF OnOneList
<1>4. k \notin Range(t2)
  BY <1>1, <1>3 DEF OnOneList
<1>5. /\ t2' \in Seq(Page) /\ Len(t2') = Len(t2) + 1
      /\ Range(t2') = {k} \union Range(t2) /\ IsInjective(t2')
  BY <1>1, <1>2, <1>4, Pushed DEF OnOneList
<1>6. OnOneList(t1', t2', b1', b2')
  BY ZenonT(40), <1>1, <1>2, <1>3, <1>5 DEF OnOneList
<1>7. Sized(t1', t2', b1', b2') /\ Len(t1') + Len(t2') >= Len(t1) + Len(t2)
  BY SMTT(40), <1>1, <1>2, <1>3, <1>5, ARCFacts DEF Sized
<1> QED
  BY <1>1, <1>2, <1>6, <1>7 DEF ARCInv

LEMMA HitT2Step ==
    ASSUME ARCInv, NEW k \in Page, HitT2(k)
    PROVE  ARCInv' /\ Len(t1') + Len(t2') >= Len(t1) + Len(t2)
<1>1. OnOneList(t1, t2, b1, b2) /\ Sized(t1, t2, b1, b2) /\ p \in 0 .. Capacity * PScale
  BY DEF ARCInv
<1>2. /\ t2' = <<k>> \o Erase(t2, k) /\ t1' = t1 /\ b1' = b1 /\ b2' = b2 /\ p' = p
      /\ In(t2, k)
  BY DEF HitT2
<1>3. /\ Erase(t2, k) \in Seq(Page) /\ k \in Range(t2)
      /\ Len(Erase(t2, k)) = Len(t2) - 1
      /\ Range(Erase(t2, k)) = Range(t2) \ {k}
      /\ IsInjective(Erase(t2, k))
  BY <1>1, <1>2, Erased DEF OnOneList
<1>5. /\ t2' \in Seq(Page) /\ Len(t2') = Len(Erase(t2, k)) + 1
      /\ Range(t2') = {k} \union Range(Erase(t2, k)) /\ IsInjective(t2')
  BY <1>2, <1>3, Pushed
<1>6. OnOneList(t1', t2', b1', b2')
  BY SMTT(40), <1>1, <1>2, <1>3, <1>5 DEF OnOneList
<1>7. Sized(t1', t2', b1', b2') /\ Len(t1') + Len(t2') >= Len(t1) + Len(t2)
  BY SMTT(40), <1>1, <1>2, <1>3, <1>5, ARCFacts DEF Sized
<1> QED
  BY <1>1, <1>2, <1>6, <1>7 DEF ARCInv

\* A ghost comes back: replace() has made room unless there was room.
LEMMA GhostB1Step ==
    ASSUME ARCInv, NEW k \in Page, GhostB1(k)
    PROVE  ARCInv' /\ Len(t1') + Len(t2') >= Len(t1) + Len(t2)
<1> DEFINE delta  == IF Len(b1) >= Len(b2) THEN PScale ELSE (Len(b2) * PScale) \div Len(b1)
           target == IF p + delta > Capacity * PScale THEN Capacity * PScale ELSE p + delta
           r == Replaced(target, k)
<1>1. OnOneList(t1, t2, b1, b2) /\ Sized(t1, t2, b1, b2) /\ p \in 0 .. Capacity * PScale
  BY DEF ARCInv
<1>2. /\ In(b1, k) /\ p' = target /\ t1' = r.t1 /\ b1' = Erase(r.b1, k) /\ b2' = r.b2
      /\ t2' = <<k>> \o r.t2
  BY DEF GhostB1
<1>3. k \in Range(b1) /\ Len(b1) \in Nat \ {0} /\ Len(b2) \in Nat
  BY <1>1, <1>2, Erased, ARCFacts DEF OnOneList
<1>4. target \in 0 .. Capacity * PScale
  <2>1. delta \in Nat
    BY <1>3, DeltaNat, ARCSizes
  <2>2. Capacity * PScale \in Nat
    BY ARCSizes
  <2> HIDE DEF delta
  <2> QED
    BY <1>1, <2>1, <2>2
<1> HIDE DEF target
<1>5. /\ OnOneList(r.t1, r.t2, r.b1, r.b2)
      /\ Range(b1) \subseteq Range(r.b1)
      /\ \/ /\ Len(r.t1) = Len(t1) - 1 /\ Len(t1) > 0 /\ Len(r.b1) = Len(b1) + 1
            /\ Len(r.t2) = Len(t2) /\ Len(r.b2) = Len(b2)
         \/ /\ Len(r.t2) = Len(t2) - 1 /\ Len(t2) > 0 /\ Len(r.b2) = Len(b2) + 1
            /\ Len(r.t1) = Len(t1) /\ Len(r.b1) = Len(b1)
         \/ /\ Len(r.t1) = Len(t1) /\ Len(r.t2) = Len(t2)
            /\ Len(r.b1) = Len(b1) /\ Len(r.b2) = Len(b2)
            /\ Len(t2) = 0
  BY <1>4, ReplacedFacts
<1> HIDE DEF r
<1>6. k \in Range(r.b1) /\ k \notin Range(r.t2)
  BY <1>3, <1>5 DEF OnOneList
<1>7. /\ b1' \in Seq(Page) /\ Len(b1') = Len(r.b1) - 1
      /\ Range(b1') = Range(r.b1) \ {k} /\ IsInjective(b1')
  <2>1. In(r.b1, k) /\ r.b1 \in Seq(Page) /\ IsInjective(r.b1)
    BY <1>5, <1>6, OnList DEF OnOneList
  <2> QED
    BY <1>2, <2>1, Erased
<1>8. /\ t2' \in Seq(Page) /\ Len(t2') = Len(r.t2) + 1
      /\ Range(t2') = {k} \union Range(r.t2) /\ IsInjective(t2')
  <2>1. r.t2 \in Seq(Page) /\ IsInjective(r.t2)
    BY <1>5 DEF OnOneList
  <2> QED
    BY <1>2, <1>6, <2>1, Pushed
<1>9. OnOneList(t1', t2', b1', b2')
  BY <1>2, <1>5, <1>6, <1>7, <1>8 DEF OnOneList
<1>10. Sized(t1', t2', b1', b2') /\ Len(t1') + Len(t2') >= Len(t1) + Len(t2)
  <2>1. /\ Len(t1') = Len(r.t1) /\ Len(b2') = Len(r.b2)
        /\ Len(b1') = Len(r.b1) - 1 /\ Len(t2') = Len(r.t2) + 1
    BY <1>2, <1>7, <1>8
  <2>2. /\ Len(t1) \in Nat /\ Len(t2) \in Nat /\ Len(b1) \in Nat /\ Len(b2) \in Nat
        /\ Capacity \in Nat \ {0} /\ Len(b1) > 0
    BY <1>3, ARCFacts
  <2>3. /\ Len(t1) + Len(t2) <= Capacity /\ Len(t1) + Len(b1) <= Capacity
        /\ Len(t1) + Len(t2) + Len(b1) + Len(b2) <= 2 * Capacity
    BY <1>1 DEF Sized
  <2>4. /\ Len(t1') + Len(t2') <= Capacity /\ Len(t1') + Len(b1') <= Capacity
        /\ Len(t1') + Len(t2') + Len(b1') + Len(b2') <= 2 * Capacity
        /\ Len(t1') + Len(t2') >= Len(t1) + Len(t2)
    <3>1. CASE /\ Len(r.t1) = Len(t1) - 1 /\ Len(t1) > 0 /\ Len(r.b1) = Len(b1) + 1
               /\ Len(r.t2) = Len(t2) /\ Len(r.b2) = Len(b2)
      BY ONLY SMTT(40), <2>1, <2>2, <2>3, <3>1
    <3>2. CASE /\ Len(r.t2) = Len(t2) - 1 /\ Len(t2) > 0 /\ Len(r.b2) = Len(b2) + 1
               /\ Len(r.t1) = Len(t1) /\ Len(r.b1) = Len(b1)
      BY ONLY <2>1, <2>2, <2>3, <3>2
    <3>3. CASE /\ Len(r.t1) = Len(t1) /\ Len(r.t2) = Len(t2)
               /\ Len(r.b1) = Len(b1) /\ Len(r.b2) = Len(b2)
               /\ Len(t2) = 0
      BY ONLY <2>1, <2>2, <2>3, <3>3
    <3> QED
      BY ONLY <1>5, <3>1, <3>2, <3>3
  <2> QED
    BY <2>4 DEF Sized
<1> QED
  BY <1>2, <1>4, <1>9, <1>10 DEF ARCInv

LEMMA GhostB2Step ==
    ASSUME ARCInv, NEW k \in Page, GhostB2(k)
    PROVE  ARCInv' /\ Len(t1') + Len(t2') >= Len(t1) + Len(t2)
<1> DEFINE delta  == IF Len(b2) >= Len(b1) THEN PScale ELSE (Len(b1) * PScale) \div Len(b2)
           target == IF p - delta < 0 THEN 0 ELSE p - delta
           r == Replaced(target, k)
<1>1. OnOneList(t1, t2, b1, b2) /\ Sized(t1, t2, b1, b2) /\ p \in 0 .. Capacity * PScale
  BY DEF ARCInv
<1>2. /\ In(b2, k) /\ p' = target /\ t1' = r.t1 /\ b1' = r.b1 /\ b2' = Erase(r.b2, k)
      /\ t2' = <<k>> \o r.t2
  BY DEF GhostB2
<1>3. k \in Range(b2) /\ Len(b2) \in Nat \ {0} /\ Len(b1) \in Nat
  BY <1>1, <1>2, Erased, ARCFacts DEF OnOneList
<1>4. target \in 0 .. Capacity * PScale
  <2>1. delta \in Nat
    BY <1>3, DeltaNat, ARCSizes
  <2>2. Capacity * PScale \in Nat
    BY ARCSizes
  <2> HIDE DEF delta
  <2> QED
    BY <1>1, <2>1, <2>2
<1> HIDE DEF target
<1>5. /\ OnOneList(r.t1, r.t2, r.b1, r.b2)
      /\ Range(b2) \subseteq Range(r.b2)
      /\ \/ /\ Len(r.t1) = Len(t1) - 1 /\ Len(t1) > 0 /\ Len(r.b1) = Len(b1) + 1
            /\ Len(r.t2) = Len(t2) /\ Len(r.b2) = Len(b2)
         \/ /\ Len(r.t2) = Len(t2) - 1 /\ Len(t2) > 0 /\ Len(r.b2) = Len(b2) + 1
            /\ Len(r.t1) = Len(t1) /\ Len(r.b1) = Len(b1)
         \/ /\ Len(r.t1) = Len(t1) /\ Len(r.t2) = Len(t2)
            /\ Len(r.b1) = Len(b1) /\ Len(r.b2) = Len(b2)
            /\ Len(t2) = 0 /\ (Len(t1) > 0 => Len(t1) < Capacity)
  BY <1>2, <1>4, ReplacedFacts
<1> HIDE DEF r
<1>6. k \in Range(r.b2) /\ k \notin Range(r.t2)
  BY <1>3, <1>5 DEF OnOneList
<1>7. /\ b2' \in Seq(Page) /\ Len(b2') = Len(r.b2) - 1
      /\ Range(b2') = Range(r.b2) \ {k} /\ IsInjective(b2')
  <2>1. In(r.b2, k) /\ r.b2 \in Seq(Page) /\ IsInjective(r.b2)
    BY <1>5, <1>6, OnList DEF OnOneList
  <2> QED
    BY <1>2, <2>1, Erased
<1>8. /\ t2' \in Seq(Page) /\ Len(t2') = Len(r.t2) + 1
      /\ Range(t2') = {k} \union Range(r.t2) /\ IsInjective(t2')
  <2>1. r.t2 \in Seq(Page) /\ IsInjective(r.t2)
    BY <1>5 DEF OnOneList
  <2> QED
    BY <1>2, <1>6, <2>1, Pushed
<1>9. OnOneList(t1', t2', b1', b2')
  BY SMTT(40), <1>2, <1>5, <1>6, <1>7, <1>8 DEF OnOneList
<1>10. Sized(t1', t2', b1', b2') /\ Len(t1') + Len(t2') >= Len(t1) + Len(t2)
  <2>1. /\ Len(t1') = Len(r.t1) /\ Len(b1') = Len(r.b1)
        /\ Len(b2') = Len(r.b2) - 1 /\ Len(t2') = Len(r.t2) + 1
    BY <1>2, <1>7, <1>8
  <2>2. /\ Len(t1) \in Nat /\ Len(t2) \in Nat /\ Len(b1) \in Nat /\ Len(b2) \in Nat
        /\ Capacity \in Nat \ {0} /\ Len(b2) > 0
    BY <1>3, ARCFacts
  <2>3. /\ Len(t1) + Len(t2) <= Capacity /\ Len(t1) + Len(b1) <= Capacity
        /\ Len(t1) + Len(t2) + Len(b1) + Len(b2) <= 2 * Capacity
    BY <1>1 DEF Sized
  <2>4. /\ Len(t1') + Len(t2') <= Capacity /\ Len(t1') + Len(b1') <= Capacity
        /\ Len(t1') + Len(t2') + Len(b1') + Len(b2') <= 2 * Capacity
        /\ Len(t1') + Len(t2') >= Len(t1) + Len(t2)
    <3>1. CASE /\ Len(r.t1) = Len(t1) - 1 /\ Len(t1) > 0 /\ Len(r.b1) = Len(b1) + 1
               /\ Len(r.t2) = Len(t2) /\ Len(r.b2) = Len(b2)
      BY ONLY SMTT(60), <2>1, <2>2, <2>3, <3>1
    <3>2. CASE /\ Len(r.t2) = Len(t2) - 1 /\ Len(t2) > 0 /\ Len(r.b2) = Len(b2) + 1
               /\ Len(r.t1) = Len(t1) /\ Len(r.b1) = Len(b1)
      BY ONLY <2>1, <2>2, <2>3, <3>2
    <3>3. CASE /\ Len(r.t1) = Len(t1) /\ Len(r.t2) = Len(t2)
               /\ Len(r.b1) = Len(b1) /\ Len(r.b2) = Len(b2)
               /\ Len(t2) = 0 /\ (Len(t1) > 0 => Len(t1) < Capacity)
      BY ONLY <2>1, <2>2, <2>3, <3>3
    <3> QED
      BY ONLY <1>5, <3>1, <3>2, <3>3
  <2> QED
    BY <2>4 DEF Sized
<1> QED
  BY <1>2, <1>4, <1>9, <1>10 DEF ARCInv

\* Dropping ghosts and pages keeps every page on one list.
LEMMA Fewer ==
    ASSUME NEW a, NEW b, NEW c, NEW d, OnOneList(a, b, c, d),
           NEW x \in Seq(Page), IsInjective(x), Range(x) \subseteq Range(a),
           NEW y \in Seq(Page), IsInjective(y), Range(y) \subseteq Range(c),
           NEW z \in Seq(Page), IsInjective(z), Range(z) \subseteq Range(d)
    PROVE  OnOneList(x, b, y, z)
BY DEF OnOneList

LEMMA Trimmed ==
    ASSUME NEW list \in Seq(Page), IsInjective(list), NEW drops \in BOOLEAN, drops => list # << >>
    PROVE  LET new == IF drops THEN Front(list) ELSE list
           IN  /\ new \in Seq(Page) /\ IsInjective(new) /\ Range(new) \subseteq Range(list)
               /\ Len(new) = IF drops THEN Len(list) - 1 ELSE Len(list)
<1>1. CASE drops
  BY <1>1, Dropped
<1>2. CASE ~drops
  BY <1>2
<1> QED
  BY <1>1, <1>2

\* A page no list knows: the list that would outgrow its bound is trimmed first.
LEMMA MissStep ==
    ASSUME ARCInv, NEW k \in Page, Miss(k)
    PROVE  ARCInv' /\ Len(t1') + Len(t2') >= Len(t1) + Len(t2)
<1> DEFINE l1      == Len(t1) + Len(b1)
           total   == l1 + Len(t2) + Len(b2)
           after   == Replaced(p, k)
           evicts  == \/ l1 = Capacity /\ Len(t1) < Capacity
                      \/ l1 < Capacity /\ total >= Capacity
           lists   == IF evicts THEN after ELSE [t1 |-> t1, t2 |-> t2, b1 |-> b1, b2 |-> b2]
           trimB1  == l1 = Capacity /\ Len(t1) < Capacity /\ b1 # << >>
           trimB2  == l1 < Capacity /\ total = 2 * Capacity /\ b2 # << >>
           trimT1  == l1 = Capacity /\ Len(t1) >= Capacity
           dropsT1 == trimT1 /\ lists.t1 # << >>
           x == IF dropsT1 THEN Front(lists.t1) ELSE lists.t1
           y == IF trimB1 THEN Front(lists.b1) ELSE lists.b1
           z == IF trimB2 THEN Front(lists.b2) ELSE lists.b2
<1>1. OnOneList(t1, t2, b1, b2) /\ Sized(t1, t2, b1, b2) /\ p \in 0 .. Capacity * PScale
  BY DEF ARCInv
<1>2. /\ ~In(t1 \o t2 \o b1 \o b2, k) /\ p' = p
      /\ t1' = <<k>> \o (IF trimT1 THEN DropLast(lists.t1) ELSE lists.t1)
      /\ t2' = lists.t2 /\ b1' = y /\ b2' = z
  BY SMTT(40) DEF Miss
<1>3. t1' = <<k>> \o x
  BY <1>2 DEF DropLast
<1>4. k \notin Range(t1) /\ k \notin Range(t2) /\ k \notin Range(b1) /\ k \notin Range(b2)
  <2>1. t1 \in Seq(Page) /\ t2 \in Seq(Page) /\ b1 \in Seq(Page) /\ b2 \in Seq(Page)
    BY <1>1 DEF OnOneList
  <2>2. t1 \o t2 \in Seq(Page) /\ Range(t1 \o t2) = Range(t1) \union Range(t2)
    BY <2>1, Joined
  <2>3. t1 \o t2 \o b1 \in Seq(Page) /\ Range(t1 \o t2 \o b1) = Range(t1 \o t2) \union Range(b1)
    BY ZenonT(40), <2>1, <2>2, Joined
  <2>4. Range(t1 \o t2 \o b1 \o b2) = Range(t1 \o t2 \o b1) \union Range(b2)
    BY ZenonT(40), <2>1, <2>3, Joined
  <2> QED
    BY <1>2, <2>2, <2>3, <2>4, OnList
<1>5. /\ OnOneList(lists.t1, lists.t2, lists.b1, lists.b2)
      /\ Range(lists.t1) \union Range(lists.t2) \union Range(lists.b1) \union Range(lists.b2) =
         Range(t1) \union Range(t2) \union Range(b1) \union Range(b2)
      /\ \/ /\ evicts
            /\ Len(lists.t1) = Len(t1) - 1 /\ Len(t1) > 0 /\ Len(lists.b1) = Len(b1) + 1
            /\ Len(lists.t2) = Len(t2) /\ Len(lists.b2) = Len(b2)
         \/ /\ evicts
            /\ Len(lists.t2) = Len(t2) - 1 /\ Len(t2) > 0 /\ Len(lists.b2) = Len(b2) + 1
            /\ Len(lists.t1) = Len(t1) /\ Len(lists.b1) = Len(b1)
         \/ /\ evicts => Len(t2) = 0
            /\ Len(lists.t1) = Len(t1) /\ Len(lists.t2) = Len(t2)
            /\ Len(lists.b1) = Len(b1) /\ Len(lists.b2) = Len(b2)
  <2>1. CASE evicts
    <3>1. lists = after
      BY <2>1
    <3> HIDE DEF lists, evicts
    <3> QED
      BY SMTT(40), <1>1, <2>1, <3>1, ReplacedFacts
  <2>2. CASE ~evicts
    <3>1. lists = [t1 |-> t1, t2 |-> t2, b1 |-> b1, b2 |-> b2]
      BY <2>2
    <3> HIDE DEF lists, evicts
    <3> QED
      BY <1>1, <2>2, <3>1
  <2> QED
    BY <2>1, <2>2
<1> HIDE DEF lists
<1>6. /\ Len(t1) \in Nat /\ Len(t2) \in Nat /\ Len(b1) \in Nat /\ Len(b2) \in Nat
      /\ Capacity \in Nat \ {0}
      /\ b1 = << >> <=> Len(b1) = 0
      /\ b2 = << >> <=> Len(b2) = 0
  BY ARCFacts
<1>7. /\ lists.t1 \in Seq(Page) /\ IsInjective(lists.t1)
      /\ lists.b1 \in Seq(Page) /\ IsInjective(lists.b1)
      /\ lists.b2 \in Seq(Page) /\ IsInjective(lists.b2)
      /\ lists.t1 = << >> <=> Len(lists.t1) = 0
      /\ trimB1 => lists.b1 # << >>
      /\ trimB2 => lists.b2 # << >>
  <2>1. /\ lists.t1 \in Seq(Page) /\ IsInjective(lists.t1)
        /\ lists.b1 \in Seq(Page) /\ IsInjective(lists.b1)
        /\ lists.b2 \in Seq(Page) /\ IsInjective(lists.b2)
    BY <1>5 DEF OnOneList
  <2>2. /\ lists.t1 = << >> <=> Len(lists.t1) = 0
        /\ lists.b1 = << >> <=> Len(lists.b1) = 0
        /\ lists.b2 = << >> <=> Len(lists.b2) = 0
    BY <2>1, EmptySeq
  <2>3. Len(lists.b1) >= Len(b1) /\ Len(lists.b2) >= Len(b2)
    BY <1>5, <1>6
  <2> QED
    BY <1>6, <2>1, <2>2, <2>3
<1>8. /\ x \in Seq(Page) /\ IsInjective(x) /\ Range(x) \subseteq Range(lists.t1)
      /\ Len(x) = IF dropsT1 THEN Len(lists.t1) - 1 ELSE Len(lists.t1)
  BY <1>7, Trimmed
<1>9. /\ y \in Seq(Page) /\ IsInjective(y) /\ Range(y) \subseteq Range(lists.b1)
      /\ Len(y) = IF trimB1 THEN Len(lists.b1) - 1 ELSE Len(lists.b1)
  BY <1>7, Trimmed
<1>10. /\ z \in Seq(Page) /\ IsInjective(z) /\ Range(z) \subseteq Range(lists.b2)
       /\ Len(z) = IF trimB2 THEN Len(lists.b2) - 1 ELSE Len(lists.b2)
  BY <1>7, Trimmed
<1> HIDE DEF x, y, z
<1>11. OnOneList(x, lists.t2, y, z)
  BY ZenonT(40), <1>5, <1>8, <1>9, <1>10, Fewer
<1>12. /\ k \notin Range(x) /\ k \notin Range(lists.t2) /\ k \notin Range(y) /\ k \notin Range(z)
  BY <1>4, <1>5, <1>8, <1>9, <1>10
<1>13. /\ t1' \in Seq(Page) /\ Len(t1') = Len(x) + 1
       /\ Range(t1') = {k} \union Range(x) /\ IsInjective(t1')
  BY <1>3, <1>8, <1>12, Pushed
<1>14. OnOneList(t1', t2', b1', b2')
  BY <1>2, <1>11, <1>12, <1>13 DEF OnOneList
<1>15. Sized(t1', t2', b1', b2') /\ Len(t1') + Len(t2') >= Len(t1) + Len(t2)
  <2>1. /\ Len(t1') = (IF trimT1 /\ Len(lists.t1) # 0 THEN Len(lists.t1) - 1 ELSE Len(lists.t1)) + 1
        /\ Len(t2') = Len(lists.t2)
        /\ Len(b1') = IF trimB1 THEN Len(lists.b1) - 1 ELSE Len(lists.b1)
        /\ Len(b2') = IF trimB2 THEN Len(lists.b2) - 1 ELSE Len(lists.b2)
    BY <1>2, <1>7, <1>8, <1>9, <1>10, <1>13
  <2>2. /\ trimB1 <=> Len(t1) + Len(b1) = Capacity /\ Len(t1) < Capacity /\ Len(b1) # 0
        /\ trimB2 <=> /\ Len(t1) + Len(b1) < Capacity
                      /\ Len(t1) + Len(b1) + Len(t2) + Len(b2) = 2 * Capacity /\ Len(b2) # 0
        /\ trimT1 <=> Len(t1) + Len(b1) = Capacity /\ Len(t1) >= Capacity
        /\ evicts <=> \/ Len(t1) + Len(b1) = Capacity /\ Len(t1) < Capacity
                      \/ /\ Len(t1) + Len(b1) < Capacity
                         /\ Len(t1) + Len(b1) + Len(t2) + Len(b2) >= Capacity
    BY <1>6
  <2>3. /\ Len(t1) + Len(t2) <= Capacity /\ Len(t1) + Len(b1) <= Capacity
        /\ Len(t1) + Len(t2) + Len(b1) + Len(b2) <= 2 * Capacity
    BY <1>1 DEF Sized
  <2> HIDE DEF trimB1, trimB2, trimT1, evicts
  <2>4. /\ Len(t1') + Len(t2') <= Capacity /\ Len(t1') + Len(b1') <= Capacity
        /\ Len(t1') + Len(t2') + Len(b1') + Len(b2') <= 2 * Capacity
        /\ Len(t1') + Len(t2') >= Len(t1) + Len(t2)
    <3>1. \/ /\ evicts
             /\ Len(lists.t1) = Len(t1) - 1 /\ Len(lists.t2) = Len(t2)
             /\ Len(lists.b1) = Len(b1) + 1 /\ Len(lists.b2) = Len(b2)
          \/ /\ evicts
             /\ Len(lists.t1) = Len(t1) /\ Len(lists.t2) = Len(t2) - 1
             /\ Len(lists.b1) = Len(b1) /\ Len(lists.b2) = Len(b2) + 1
          \/ /\ evicts => Len(t2) = 0
             /\ Len(lists.t1) = Len(t1) /\ Len(lists.t2) = Len(t2)
             /\ Len(lists.b1) = Len(b1) /\ Len(lists.b2) = Len(b2)
      BY ONLY <1>5
    <3>2. CASE Len(t1) + Len(b1) = Capacity /\ Len(t1) < Capacity
      <4>1. evicts /\ trimB1 /\ ~trimB2 /\ ~trimT1
        BY ONLY <1>6, <2>2, <3>2
      <4>2. /\ Len(t1') = Len(lists.t1) + 1 /\ Len(t2') = Len(lists.t2)
            /\ Len(b1') = Len(lists.b1) - 1 /\ Len(b2') = Len(lists.b2)
        BY ONLY <2>1, <4>1
      <4>3. \/ /\ Len(t1') = Len(t1) - 1 + 1 /\ Len(t2') = Len(t2)
               /\ Len(b1') = Len(b1) + 1 - 1 /\ Len(b2') = Len(b2)
            \/ /\ Len(t1') = Len(t1) + 1 /\ Len(t2') = Len(t2) - 1
               /\ Len(b1') = Len(b1) - 1 /\ Len(b2') = Len(b2) + 1
            \/ /\ Len(t2) = 0 /\ Len(t1') = Len(t1) + 1 /\ Len(t2') = Len(t2)
               /\ Len(b1') = Len(b1) - 1 /\ Len(b2') = Len(b2)
        BY ONLY <3>1, <4>1, <4>2
      <4> QED
        BY ONLY SMTT(40), <1>6, <2>3, <3>2, <4>3
    <3>3. CASE Len(t1) + Len(b1) = Capacity /\ Len(t1) >= Capacity
      <4>1. ~evicts /\ ~trimB1 /\ ~trimB2 /\ trimT1
        BY ONLY <1>6, <2>2, <3>3
      <4>2. /\ Len(lists.t1) = Len(t1) /\ Len(lists.t2) = Len(t2)
            /\ Len(lists.b1) = Len(b1) /\ Len(lists.b2) = Len(b2)
        BY ONLY <3>1, <4>1
      <4>3. /\ Len(t1') = Len(t1) /\ Len(t2') = Len(t2)
            /\ Len(b1') = Len(b1) /\ Len(b2') = Len(b2)
        BY ONLY <1>6, <2>1, <2>3, <3>3, <4>1, <4>2
      <4> QED
        BY ONLY <1>6, <2>3, <4>3
    <3>4. CASE Len(t1) + Len(b1) < Capacity
      <4>1. /\ ~trimB1 /\ ~trimT1
            /\ evicts <=> Len(t1) + Len(b1) + Len(t2) + Len(b2) >= Capacity
            /\ trimB2 <=> Len(t1) + Len(b1) + Len(t2) + Len(b2) = 2 * Capacity
        BY ONLY <1>6, <2>2, <2>3, <3>4
      <4>2. /\ Len(t1') = Len(lists.t1) + 1 /\ Len(t2') = Len(lists.t2)
            /\ Len(b1') = Len(lists.b1)
            /\ Len(b2') = IF trimB2 THEN Len(lists.b2) - 1 ELSE Len(lists.b2)
        BY ONLY <2>1, <4>1
      <4>3. \/ /\ evicts /\ Len(t1') = Len(t1) - 1 + 1 /\ Len(t2') = Len(t2)
               /\ Len(b1') = Len(b1) + 1 /\ Len(lists.b2) = Len(b2)
            \/ /\ evicts /\ Len(t1') = Len(t1) + 1 /\ Len(t2') = Len(t2) - 1
               /\ Len(b1') = Len(b1) /\ Len(lists.b2) = Len(b2) + 1
            \/ /\ evicts => Len(t2) = 0
               /\ Len(t1') = Len(t1) + 1 /\ Len(t2') = Len(t2)
               /\ Len(b1') = Len(b1) /\ Len(lists.b2) = Len(b2)
        BY ONLY <3>1, <4>2
      <4>4. CASE trimB2
        <5>1. Len(b2') = Len(lists.b2) - 1
          BY ONLY <4>2, <4>4
        <5>2. evicts /\ Len(t1) + Len(b1) + Len(t2) + Len(b2) = 2 * Capacity
          BY ONLY <1>6, <4>1, <4>4
        <5>3. \/ /\ Len(t1') = Len(t1) - 1 + 1 /\ Len(t2') = Len(t2)
                 /\ Len(b1') = Len(b1) + 1 /\ Len(b2') = Len(b2) - 1
              \/ /\ Len(t1') = Len(t1) + 1 /\ Len(t2') = Len(t2) - 1
                 /\ Len(b1') = Len(b1) /\ Len(b2') = Len(b2) + 1 - 1
              \/ /\ Len(t2) = 0 /\ Len(t1') = Len(t1) + 1 /\ Len(t2') = Len(t2)
                 /\ Len(b1') = Len(b1) /\ Len(b2') = Len(b2) - 1
          BY ONLY <4>3, <5>1, <5>2
        <5>4. Len(t1') + Len(t2') <= Capacity /\ Len(t1') + Len(t2') >= Len(t1) + Len(t2)
          BY ONLY SMTT(40), <1>6, <2>3, <3>4, <5>3
        <5>5. Len(t1') + Len(b1') <= Capacity
          BY ONLY <1>6, <3>4, <5>3
        <5>6. Len(t1') + Len(t2') + Len(b1') + Len(b2') <= 2 * Capacity
          BY ONLY <1>6, <5>2, <5>3
        <5> QED
          BY <5>4, <5>5, <5>6
      <4>5. CASE ~trimB2
        <5>1. Len(b2') = Len(lists.b2)
          BY ONLY <4>2, <4>5
        <5>2. Len(t1) + Len(t2) + Len(b1) + Len(b2) < 2 * Capacity
          <6>1. Len(t1) + Len(b1) + Len(t2) + Len(b2) # 2 * Capacity
            BY ONLY <4>1, <4>5
          <6> QED
            BY ONLY <1>6, <2>3, <6>1
        <5>3. CASE evicts
          <6>1. \/ /\ Len(t1') = Len(t1) - 1 + 1 /\ Len(t2') = Len(t2)
                   /\ Len(b1') = Len(b1) + 1 /\ Len(b2') = Len(b2)
                \/ /\ Len(t1') = Len(t1) + 1 /\ Len(t2') = Len(t2) - 1
                   /\ Len(b1') = Len(b1) /\ Len(b2') = Len(b2) + 1
                \/ /\ Len(t2) = 0 /\ Len(t1') = Len(t1) + 1 /\ Len(t2') = Len(t2)
                   /\ Len(b1') = Len(b1) /\ Len(b2') = Len(b2)
            BY ONLY <4>3, <5>1, <5>3
          <6>2. Len(t1') + Len(t2') <= Capacity /\ Len(t1') + Len(t2') >= Len(t1) + Len(t2)
            BY ONLY SMTT(40), <1>6, <2>3, <3>4, <6>1
          <6>3. Len(t1') + Len(b1') <= Capacity
            BY ONLY <1>6, <3>4, <6>1
          <6>4. Len(t1') + Len(t2') + Len(b1') + Len(b2') <= 2 * Capacity
            BY ONLY <1>6, <5>2, <6>1
          <6> QED
            BY <6>2, <6>3, <6>4
        <5>4. CASE ~evicts
          <6>1. /\ Len(t1') = Len(t1) + 1 /\ Len(t2') = Len(t2)
                /\ Len(b1') = Len(b1) /\ Len(b2') = Len(b2)
                /\ Len(t1) + Len(b1) + Len(t2) + Len(b2) < Capacity
            BY ONLY <1>6, <4>1, <4>3, <5>1, <5>4
          <6> QED
            BY ONLY <1>6, <6>1
        <5> QED
          BY <5>3, <5>4
      <4> QED
        BY <4>4, <4>5
    <3> QED
      BY ONLY <1>6, <2>3, <3>2, <3>3, <3>4
  <2> QED
    BY <2>4 DEF Sized
<1> QED
  BY <1>1, <1>2, <1>14, <1>15 DEF ARCInv

LEMMA ARCInvStep == ARCInv /\ [ARCNext]_arcVars => ARCInv' /\ Len(t1') + Len(t2') >= Len(t1) + Len(t2)
<1> SUFFICES ASSUME ARCInv, [ARCNext]_arcVars
             PROVE  ARCInv' /\ Len(t1') + Len(t2') >= Len(t1) + Len(t2)
  OBVIOUS
<1>1. CASE UNCHANGED arcVars
  BY <1>1, ARCFacts DEF arcVars, ARCInv, OnOneList, Sized
<1>2. ASSUME NEW k \in Page, HitT1(k) \/ HitT2(k) \/ GhostB1(k) \/ GhostB2(k) \/ Miss(k)
      PROVE  ARCInv' /\ Len(t1') + Len(t2') >= Len(t1) + Len(t2)
  BY <1>2, HitT1Step, HitT2Step, GhostB1Step, GhostB2Step, MissStep
<1> QED
  BY <1>1, <1>2 DEF ARCNext

\* The lists one after the other hold no page twice.
LEMMA ARCInvBounds == ARCInv => ARCTypeOK /\ ARCBounded
<1> SUFFICES ASSUME ARCInv  PROVE ARCTypeOK /\ ARCBounded
  OBVIOUS
<1>1. OnOneList(t1, t2, b1, b2) /\ Sized(t1, t2, b1, b2) /\ p \in 0 .. Capacity * PScale
  BY DEF ARCInv
<1>2. t1 \in Seq(Page) /\ t2 \in Seq(Page) /\ b1 \in Seq(Page) /\ b2 \in Seq(Page)
  BY <1>1 DEF OnOneList
<1>3. /\ t1 \o t2 \in Seq(Page) /\ Range(t1 \o t2) = Range(t1) \union Range(t2)
      /\ Len(t1 \o t2) = Len(t1) + Len(t2) /\ IsInjective(t1 \o t2)
  BY <1>1, <1>2, Joined DEF OnOneList
<1>4. /\ t1 \o t2 \o b1 \in Seq(Page) /\ Range(t1 \o t2 \o b1) = Range(t1 \o t2) \union Range(b1)
      /\ Len(t1 \o t2 \o b1) = Len(t1 \o t2) + Len(b1) /\ IsInjective(t1 \o t2 \o b1)
  <2>1. Range(t1 \o t2) \cap Range(b1) = {} /\ IsInjective(b1)
    BY <1>1, <1>3 DEF OnOneList
  <2> QED
    <3> DEFINE u == t1 \o t2
    <3> HIDE DEF u
    <3>1. u \in Seq(Page) /\ IsInjective(u) /\ Range(u) \cap Range(b1) = {}
      BY <1>3, <2>1 DEF u
    <3>2. /\ u \o b1 \in Seq(Page) /\ Range(u \o b1) = Range(u) \union Range(b1)
          /\ Len(u \o b1) = Len(u) + Len(b1) /\ IsInjective(u \o b1)
      BY ONLY <1>2, <2>1, <3>1, Joined
    <3> QED
      BY <3>2 DEF u
<1>5. /\ Len(t1 \o t2 \o b1 \o b2) = Len(t1 \o t2 \o b1) + Len(b2)
      /\ IsInjective(t1 \o t2 \o b1 \o b2)
  <2>1. Range(t1 \o t2 \o b1) \cap Range(b2) = {} /\ IsInjective(b2)
    BY <1>1, <1>3, <1>4 DEF OnOneList
  <2> DEFINE u == t1 \o t2 \o b1
  <2> HIDE DEF u
  <2>2. u \in Seq(Page) /\ IsInjective(u) /\ Range(u) \cap Range(b2) = {}
    BY <1>4, <2>1 DEF u
  <2>3. Len(u \o b2) = Len(u) + Len(b2) /\ IsInjective(u \o b2)
    BY ONLY <1>2, <2>1, <2>2, Joined
  <2> QED
    BY <2>3 DEF u
<1>6. Len(t1 \o t2 \o b1 \o b2) <= 2 * Capacity
  BY <1>1, <1>3, <1>4, <1>5, ARCFacts DEF Sized
<1> QED
  BY <1>1, <1>2, <1>5, <1>6 DEF ARCTypeOK, ARCBounded, Sized

\* For any pages, capacity and granularity of the target, no list of ARC
\* outgrows its bound and no page is on two lists.
THEOREM ARCCorrect == ARCSpec => [](ARCTypeOK /\ ARCBounded)
<1>1. ARCSpec => []ARCInv
  BY ARCInvInit, ARCInvStep, PTL DEF ARCSpec
<1> QED
  BY <1>1, ARCInvBounds, PTL

\* A full ARC stays full: a page that comes in pushes out one page at most.
THEOREM ARCNeverShrinksCorrect == ARCSpec => ARCNeverShrinks
<1>1. ARCInv /\ ARCInv' /\ [ARCNext]_arcVars => [Len(t1' \o t2') >= Len(t1 \o t2)]_arcVars
  <2> SUFFICES ASSUME ARCInv, ARCInv', [ARCNext]_arcVars  PROVE Len(t1' \o t2') >= Len(t1 \o t2)
    OBVIOUS
  <2>1. t1 \in Seq(Page) /\ t2 \in Seq(Page) /\ t1' \in Seq(Page) /\ t2' \in Seq(Page)
    BY DEF ARCInv, OnOneList
  <2>2. Len(t1 \o t2) = Len(t1) + Len(t2) /\ Len(t1' \o t2') = Len(t1') + Len(t2')
    BY <2>1, Joined
  <2> QED
    BY <2>2, ARCInvStep
<1>2. ARCSpec => []ARCInv
  BY ARCInvInit, ARCInvStep, PTL DEF ARCSpec
<1> QED
  BY <1>1, <1>2, PTL DEF ARCSpec, ARCNeverShrinks
-----------------------------------------------------------------------------
(* Proof: 2Q keeps its bounds, for any capacity *)

\* Every block in one queue at most; room for the cache and for the ghosts.
InOneQueue(a, b, c) ==
    /\ a \in Seq(Block) /\ b \in Seq(Block) /\ c \in Seq(Block)
    /\ IsInjective(a) /\ IsInjective(b) /\ IsInjective(c)
    /\ Range(a) \cap Range(b) = {} /\ Range(a) \cap Range(c) = {} /\ Range(b) \cap Range(c) = {}

TQInv ==
    /\ InOneQueue(a1in, a1out, am)
    /\ Len(a1in) + Len(am) <= QueueCapacity
    /\ Len(a1out) <= KoutCap

LEMMA MaxOfOne == ASSUME NEW n \in Int  PROVE Max({1, n}) \in Nat \ {0} /\ (n <= 1 => Max({1, n}) = 1)
<1>1. \E x \in {1, n} : \A y \in {1, n} : x >= y
  <2>1. CASE n >= 1
    BY <2>1
  <2>2. CASE n < 1
    BY <2>2
  <2> QED
    BY <2>1, <2>2
<1>2. Max({1, n}) \in {1, n} /\ \A y \in {1, n} : Max({1, n}) >= y
  BY <1>1 DEF Max
<1>3. (Max({1, n}) = 1 \/ Max({1, n}) = n) /\ Max({1, n}) >= 1 /\ Max({1, n}) >= n
  BY <1>2
<1> QED
  BY <1>3

LEMMA KoutPositive == KoutCap \in Nat \ {0} /\ QueueCapacity \in Nat \ {0}
<1>1. QueueCapacity \div 2 \in Int
  BY TQSizes
<1> QED
  BY <1>1, MaxOfOne, TQSizes DEF KoutCap

LEMMA TQInvInit == TQInit => TQInv
<1> SUFFICES ASSUME TQInit  PROVE TQInv
  OBVIOUS
<1>1. /\ << >> \in Seq(Block) /\ Len(<< >>) = 0 /\ DOMAIN << >> = {}
      /\ Range(<< >>) = {} /\ IsInjective(<< >>)
  BY DEF Range, IsInjective
<1> QED
  BY <1>1, KoutPositive DEF TQInit, TQInv, InOneQueue

\* reclaim_space() of queues a, b, c gives x, y, z: room for a block, and no
\* block gone that need not go.
Room(a, b, c, x, y, z) ==
    /\ InOneQueue(x, y, z)
    /\ Range(x) \union Range(y) \union Range(z) \subseteq Range(a) \union Range(b) \union Range(c)
    /\ Len(x) + Len(z) < QueueCapacity /\ Len(y) <= KoutCap
    /\ Len(x) + Len(z) + 1 >= Len(a) + Len(c)
    /\ Len(a) + Len(c) < QueueCapacity => x = a /\ y = b /\ z = c

LEMMA ReclaimedFacts ==
    ASSUME NEW a, NEW b, NEW c, InOneQueue(a, b, c),
           Len(a) + Len(c) <= QueueCapacity, Len(b) <= KoutCap
    PROVE  \E x, y, z : /\ ReclaimSpace([in |-> a, out |-> b, am |-> c]) =
                           [in |-> x, out |-> y, am |-> z]
                        /\ Room(a, b, c, x, y, z)
<1> DEFINE q == [in |-> a, out |-> b, am |-> c]
           ghosts == IF Len(b) >= KoutCap THEN Front(b) ELSE b
<1>1. q.in = a /\ q.out = b /\ q.am = c
  OBVIOUS
<1>2. /\ a \in Seq(Block) /\ b \in Seq(Block) /\ c \in Seq(Block)
      /\ Len(a) \in Nat /\ Len(b) \in Nat /\ Len(c) \in Nat
      /\ a = << >> <=> Len(a) = 0
      /\ b = << >> <=> Len(b) = 0
      /\ c = << >> <=> Len(c) = 0
      /\ KoutCap \in Nat \ {0} /\ QueueCapacity \in Nat \ {0}
  BY KoutPositive, EmptySeq, LenProperties DEF InOneQueue
<1>3. CASE Len(a) + Len(c) < QueueCapacity
  <2>1. ReclaimSpace(q) = q
    BY <1>1, <1>3 DEF ReclaimSpace
  <2>2. Room(a, b, c, a, b, c)
    BY <1>2, <1>3 DEF Room
  <2> QED
    BY <2>1, <2>2
<1>4. CASE ~(Len(a) + Len(c) < QueueCapacity) /\ (Len(a) > KinCap \/ c = << >>) /\ a # << >>
  <2>1. ReclaimSpace(q) = [in |-> Front(a), out |-> <<Last(a)>> \o ghosts, am |-> c]
    BY <1>1, <1>4 DEF ReclaimSpace
  <2>2. /\ Front(a) \in Seq(Block) /\ Last(a) \in Block
        /\ Len(Front(a)) = Len(a) - 1
        /\ Range(a) = {Last(a)} \union Range(Front(a))
        /\ IsInjective(Front(a)) /\ Last(a) \notin Range(Front(a))
    BY <1>2, <1>4, Dropped DEF InOneQueue
  <2>3. /\ ghosts \in Seq(Block) /\ IsInjective(ghosts) /\ Range(ghosts) \subseteq Range(b)
        /\ Len(ghosts) + 1 <= KoutCap
    <3>1. CASE Len(b) >= KoutCap
      <4>1. b # << >> /\ ghosts = Front(b)
        BY <1>2, <3>1
      <4>2. /\ Front(b) \in Seq(Block) /\ Len(Front(b)) = Len(b) - 1
            /\ Range(b) = {Last(b)} \union Range(Front(b)) /\ IsInjective(Front(b))
        BY <1>2, <4>1, Dropped DEF InOneQueue
      <4> HIDE DEF ghosts
      <4> QED
        BY <1>2, <4>1, <4>2
    <3>2. CASE ~(Len(b) >= KoutCap)
      BY <1>2, <3>2 DEF InOneQueue
    <3> QED
      BY <3>1, <3>2
  <2> HIDE DEF ghosts
  <2>4. Last(a) \notin Range(ghosts)
    BY <2>2, <2>3 DEF InOneQueue
  <2> DEFINE y == <<Last(a)>> \o ghosts
  <2>5. /\ y \in Seq(Block) /\ Len(y) = Len(ghosts) + 1
        /\ Range(y) = {Last(a)} \union Range(ghosts)
        /\ IsInjective(y)
    BY <2>2, <2>3, <2>4, Pushed
  <2>6. ReclaimSpace(q) = [in |-> Front(a), out |-> y, am |-> c]
    BY <2>1
  <2> HIDE DEF y
  <2>7. InOneQueue(Front(a), y, c)
    BY <2>2, <2>3, <2>5 DEF InOneQueue
  <2>8. Range(Front(a)) \union Range(y) \union Range(c) \subseteq Range(a) \union Range(b) \union Range(c)
    BY <2>2, <2>3, <2>5
  <2>9. /\ Len(Front(a)) + Len(c) < QueueCapacity
        /\ Len(Front(a)) + Len(c) + 1 >= Len(a) + Len(c)
    BY <1>2, <2>2
  <2>10. Len(y) <= KoutCap
    BY <2>3, <2>5
  <2>11. Room(a, b, c, Front(a), y, c)
    BY ONLY <1>4, <2>7, <2>8, <2>9, <2>10 DEF Room
  <2> QED
    BY ONLY <2>6, <2>11
<1>5. CASE ~(Len(a) + Len(c) < QueueCapacity) /\ ~((Len(a) > KinCap \/ c = << >>) /\ a # << >>)
  <2>1. c # << >>
    BY <1>2, <1>5
  <2>2. ReclaimSpace(q) = [q EXCEPT !.am = Front(c)]
    BY <1>1, <1>5, <2>1 DEF ReclaimSpace
  <2>3. ReclaimSpace(q) = [in |-> a, out |-> b, am |-> Front(c)]
    BY <2>2
  <2>4. /\ Front(c) \in Seq(Block) /\ Len(Front(c)) = Len(c) - 1
        /\ Range(c) = {Last(c)} \union Range(Front(c)) /\ IsInjective(Front(c))
    BY <1>2, <2>1, Dropped DEF InOneQueue
  <2>5. InOneQueue(a, b, Front(c))
    BY <2>4 DEF InOneQueue
  <2>6. Range(a) \union Range(b) \union Range(Front(c)) \subseteq Range(a) \union Range(b) \union Range(c)
    BY <2>4
  <2>7. /\ Len(a) + Len(Front(c)) < QueueCapacity /\ Len(b) <= KoutCap
        /\ Len(a) + Len(Front(c)) + 1 >= Len(a) + Len(c)
    BY <1>2, <2>4
  <2>8. Room(a, b, c, a, b, Front(c))
    BY ONLY <1>5, <2>5, <2>6, <2>7 DEF Room
  <2> QED
    BY ONLY <2>3, <2>8
<1> QED
  BY <1>3, <1>4, <1>5

\* A block that no queue holds comes to the front of Am or of A1in.
LEMMA QueuePushed ==
    ASSUME NEW a, NEW b, NEW c, InOneQueue(a, b, c), NEW k \in Block,
           k \notin Range(a) \union Range(b) \union Range(c)
    PROVE  /\ InOneQueue(a, b, <<k>> \o c) /\ Len(<<k>> \o c) = Len(c) + 1
           /\ InOneQueue(<<k>> \o a, b, c) /\ Len(<<k>> \o a) = Len(a) + 1
           /\ Len(a) \in Nat /\ Len(b) \in Nat /\ Len(c) \in Nat
<1>1. /\ <<k>> \o c \in Seq(Block) /\ Len(<<k>> \o c) = Len(c) + 1
      /\ Range(<<k>> \o c) = {k} \union Range(c) /\ IsInjective(<<k>> \o c)
  BY Pushed DEF InOneQueue
<1>2. /\ <<k>> \o a \in Seq(Block) /\ Len(<<k>> \o a) = Len(a) + 1
      /\ Range(<<k>> \o a) = {k} \union Range(a) /\ IsInjective(<<k>> \o a)
  BY Pushed DEF InOneQueue
<1> QED
  BY <1>1, <1>2, LenProperties DEF InOneQueue

\* promote_to_am() of a block just erased from its queue.
LEMMA PromoteStep ==
    ASSUME NEW a, NEW b, NEW c, InOneQueue(a, b, c), NEW k \in Block,
           k \notin Range(a) \union Range(b) \union Range(c),
           Len(a) + Len(c) <= QueueCapacity, Len(b) <= KoutCap,
           PromoteToAm([in |-> a, out |-> b, am |-> c], k)
    PROVE  /\ TQInv'
           /\ Len(a1in') + Len(am') >= Len(a) + Len(c)
           /\ Len(a) + Len(c) < QueueCapacity => Len(a1in') + Len(am') = Len(a) + Len(c) + 1
<1>1. PICK x, y, z : /\ ReclaimSpace([in |-> a, out |-> b, am |-> c]) =
                        [in |-> x, out |-> y, am |-> z]
                     /\ Room(a, b, c, x, y, z)
  BY ReclaimedFacts
<1>2. a1in' = x /\ a1out' = y /\ am' = <<k>> \o z
  BY <1>1 DEF PromoteToAm
<1>3. InOneQueue(x, y, z) /\ k \notin Range(x) \union Range(y) \union Range(z)
  BY <1>1 DEF Room
<1>4. /\ InOneQueue(x, y, <<k>> \o z) /\ Len(<<k>> \o z) = Len(z) + 1
      /\ Len(x) \in Nat /\ Len(z) \in Nat
  BY ONLY <1>3, QueuePushed, k \in Block
<1>5. /\ Len(x) + Len(z) < QueueCapacity /\ Len(y) <= KoutCap
      /\ Len(x) + Len(z) + 1 >= Len(a) + Len(c)
      /\ Len(a) + Len(c) < QueueCapacity => Len(x) + Len(z) = Len(a) + Len(c)
  BY <1>1 DEF Room
<1>6. Len(a1in') = Len(x) /\ Len(a1out') = Len(y) /\ Len(am') = Len(z) + 1
  BY <1>2, <1>4
<1>7. InOneQueue(a1in', a1out', am')
  BY <1>2, <1>4
<1>8. QueueCapacity \in Nat /\ Len(a) \in Nat /\ Len(c) \in Nat
  BY TQSizes, LenProperties DEF InOneQueue
<1>9. Len(a1in') + Len(am') = Len(x) + Len(z) + 1
  BY ONLY <1>4, <1>6
<1>10. Len(a1in') + Len(am') <= QueueCapacity
  BY ONLY <1>4, <1>5, <1>8, <1>9
<1>11. Len(a1out') <= KoutCap
  BY ONLY <1>5, <1>6
<1>12. TQInv'
  BY ONLY <1>7, <1>10, <1>11 DEF TQInv, KoutCap
<1> QED
  BY ONLY <1>4, <1>5, <1>8, <1>9, <1>12

LEMMA TQFacts ==
    ASSUME TQInv
    PROVE  /\ InOneQueue(a1in, a1out, am)
           /\ Len(a1in) + Len(am) <= QueueCapacity /\ Len(a1out) <= KoutCap
           /\ Len(a1in) \in Nat /\ Len(a1out) \in Nat /\ Len(am) \in Nat
           /\ KoutCap \in Nat \ {0} /\ QueueCapacity \in Nat \ {0}
BY KoutPositive, LenProperties DEF TQInv, InOneQueue

LEMMA HitAmStep ==
    ASSUME TQInv, NEW k \in Block, HitAm(k)
    PROVE  TQInv' /\ Len(a1in') + Len(am') >= Len(a1in) + Len(am)
<1>1. In(am, k) /\ am' = <<k>> \o Erase(am, k) /\ a1in' = a1in /\ a1out' = a1out
  BY DEF HitAm
<1>2. /\ Erase(am, k) \in Seq(Block) /\ k \in Range(am)
      /\ Len(Erase(am, k)) = Len(am) - 1
      /\ Range(Erase(am, k)) = Range(am) \ {k} /\ IsInjective(Erase(am, k))
  BY <1>1, Erased, TQFacts DEF InOneQueue
<1>3. /\ am' \in Seq(Block) /\ Len(am') = Len(Erase(am, k)) + 1
      /\ Range(am') = {k} \union Range(Erase(am, k)) /\ IsInjective(am')
  BY <1>1, <1>2, Pushed
<1>4. InOneQueue(a1in', a1out', am')
  BY <1>1, <1>2, <1>3, TQFacts DEF InOneQueue
<1> QED
  BY <1>1, <1>2, <1>3, <1>4, TQFacts DEF TQInv, KoutCap

LEMMA HitA1inStep ==
    ASSUME TQInv, NEW k \in Block, HitA1in(k)
    PROVE  TQInv' /\ Len(a1in') + Len(am') >= Len(a1in) + Len(am)
<1> DEFINE a == Erase(a1in, k)
<1>1. In(a1in, k) /\ PromoteToAm([in |-> a, out |-> a1out, am |-> am], k)
  BY DEF HitA1in, Queues
<1>2. /\ a \in Seq(Block) /\ k \in Range(a1in)
      /\ Len(a) = Len(a1in) - 1
      /\ Range(a) = Range(a1in) \ {k} /\ IsInjective(a)
  BY <1>1, Erased, TQFacts DEF InOneQueue
<1> HIDE DEF a
<1>3. InOneQueue(a, a1out, am) /\ k \notin Range(a) \union Range(a1out) \union Range(am)
  BY <1>2, TQFacts DEF InOneQueue
<1>4. Len(a) + Len(am) < QueueCapacity /\ Len(a) + Len(am) <= QueueCapacity /\ Len(a1out) <= KoutCap
  BY <1>2, TQFacts
<1>5. TQInv' /\ Len(a1in') + Len(am') = Len(a) + Len(am) + 1
  BY <1>1, <1>3, <1>4, PromoteStep
<1>6. Len(a1in) + Len(am) = Len(a) + Len(am) + 1
  BY <1>2, TQFacts
<1> QED
  BY ONLY <1>5, <1>6, TQFacts, TQInv

LEMMA GhostHitStep ==
    ASSUME TQInv, NEW k \in Block, GhostHit(k)
    PROVE  TQInv' /\ Len(a1in') + Len(am') >= Len(a1in) + Len(am)
<1> DEFINE b == Erase(a1out, k)
<1>1. In(a1out, k) /\ PromoteToAm([in |-> a1in, out |-> b, am |-> am], k)
  BY DEF GhostHit, Queues
<1>2. /\ b \in Seq(Block) /\ k \in Range(a1out)
      /\ Len(b) = Len(a1out) - 1
      /\ Range(b) = Range(a1out) \ {k} /\ IsInjective(b)
  BY <1>1, Erased, TQFacts DEF InOneQueue
<1> HIDE DEF b
<1>3. InOneQueue(a1in, b, am) /\ k \notin Range(a1in) \union Range(b) \union Range(am)
  BY <1>2, TQFacts DEF InOneQueue
<1>4. Len(a1in) + Len(am) <= QueueCapacity /\ Len(b) <= KoutCap
  BY <1>2, TQFacts
<1> QED
  BY <1>1, <1>3, <1>4, PromoteStep

LEMMA FirstSeenStep ==
    ASSUME TQInv, NEW k \in Block, FirstSeen(k)
    PROVE  TQInv' /\ Len(a1in') + Len(am') >= Len(a1in) + Len(am)
<1> DEFINE u == a1in \o a1out
<1>1. ~In(u \o am, k)
  BY DEF FirstSeen
<1>2. k \notin Range(a1in) \union Range(a1out) \union Range(am)
  <2>1. u \in Seq(Block) /\ Range(u) = Range(a1in) \union Range(a1out)
    BY Joined, TQFacts DEF InOneQueue
  <2> HIDE DEF u
  <2>2. Range(u \o am) = Range(u) \union Range(am)
    BY <2>1, Joined, TQFacts DEF InOneQueue
  <2> QED
    BY <1>1, <2>1, <2>2, OnList
<1>3. PICK x, y, z : /\ ReclaimSpace([in |-> a1in, out |-> a1out, am |-> am]) =
                        [in |-> x, out |-> y, am |-> z]
                     /\ Room(a1in, a1out, am, x, y, z)
  BY ReclaimedFacts, TQFacts
<1>4. a1in' = <<k>> \o x /\ a1out' = y /\ am' = z
  BY <1>3 DEF FirstSeen, Queues
<1>5. InOneQueue(x, y, z) /\ k \notin Range(x) \union Range(y) \union Range(z)
  BY <1>2, <1>3 DEF Room
<1>6. /\ InOneQueue(<<k>> \o x, y, z) /\ Len(<<k>> \o x) = Len(x) + 1
      /\ Len(x) \in Nat /\ Len(z) \in Nat
  BY ONLY <1>5, QueuePushed, k \in Block
<1>7. /\ Len(x) + Len(z) < QueueCapacity /\ Len(y) <= KoutCap
      /\ Len(x) + Len(z) + 1 >= Len(a1in) + Len(am)
  BY <1>3 DEF Room
<1>8. Len(a1in') = Len(x) + 1 /\ Len(a1out') = Len(y) /\ Len(am') = Len(z)
  BY <1>4, <1>6
<1>9. InOneQueue(a1in', a1out', am')
  BY <1>4, <1>6
<1>10. QueueCapacity \in Nat /\ Len(a1in) \in Nat /\ Len(am) \in Nat
  BY TQFacts
<1>11. Len(a1in') + Len(am') <= QueueCapacity /\ Len(a1out') <= KoutCap
  BY ONLY <1>6, <1>7, <1>8, <1>10
<1>12. TQInv'
  BY ONLY <1>9, <1>11 DEF TQInv, KoutCap
<1> QED
  BY ONLY <1>6, <1>7, <1>8, <1>10, <1>12

LEMMA TQInvStep == TQInv /\ [TQNext]_tqVars => TQInv' /\ Len(a1in') + Len(am') >= Len(a1in) + Len(am)
<1> SUFFICES ASSUME TQInv, [TQNext]_tqVars
             PROVE  TQInv' /\ Len(a1in') + Len(am') >= Len(a1in) + Len(am)
  OBVIOUS
<1>1. CASE UNCHANGED tqVars
  BY <1>1, TQFacts DEF tqVars, TQInv, KoutCap
<1>2. ASSUME NEW k \in Block, HitAm(k) \/ HitA1in(k) \/ GhostHit(k) \/ FirstSeen(k)
      PROVE  TQInv' /\ Len(a1in') + Len(am') >= Len(a1in) + Len(am)
  BY <1>2, HitAmStep, HitA1inStep, GhostHitStep, FirstSeenStep
<1> QED
  BY <1>1, <1>2 DEF TQNext

LEMMA TQInvBounds == TQInv => TQTypeOK /\ TQBounded
<1> SUFFICES ASSUME TQInv  PROVE TQTypeOK /\ TQBounded
  OBVIOUS
<1> DEFINE u == a1in \o a1out
<1>1. a1in \in Seq(Block) /\ a1out \in Seq(Block) /\ am \in Seq(Block)
  BY TQFacts DEF InOneQueue
<1>2. u \in Seq(Block) /\ Range(u) = Range(a1in) \union Range(a1out) /\ IsInjective(u)
  BY <1>1, Joined, TQFacts DEF InOneQueue
<1> HIDE DEF u
<1>3. Range(u) \cap Range(am) = {} /\ IsInjective(am)
  BY <1>2, TQFacts DEF InOneQueue
<1>4. IsInjective(u \o am)
  BY <1>1, <1>2, <1>3, Joined
<1> QED
  BY <1>1, <1>4, TQFacts DEF TQTypeOK, TQBounded, u

\* For any blocks and capacity, the cache and the ghosts of 2Q keep their shares
\* and no block is in two queues.
THEOREM TQCorrect == TQSpec => [](TQTypeOK /\ TQBounded)
<1>1. TQSpec => []TQInv
  BY TQInvInit, TQInvStep, PTL DEF TQSpec
<1> QED
  BY <1>1, TQInvBounds, PTL

\* Neither ARC nor 2Q, once full, ever holds less again.
THEOREM NeverShrinksCorrect == ARCSpec /\ TQSpec => NeverShrinks
<1>1. TQInv /\ TQInv' /\ [TQNext]_tqVars => [Len(a1in' \o am') >= Len(a1in \o am)]_tqVars
  <2> SUFFICES ASSUME TQInv, TQInv', [TQNext]_tqVars  PROVE Len(a1in' \o am') >= Len(a1in \o am)
    OBVIOUS
  <2>1. a1in \in Seq(Block) /\ am \in Seq(Block) /\ a1in' \in Seq(Block) /\ am' \in Seq(Block)
    BY DEF TQInv, InOneQueue
  <2>2. Len(a1in \o am) = Len(a1in) + Len(am) /\ Len(a1in' \o am') = Len(a1in') + Len(am')
    BY <2>1, Joined
  <2> QED
    BY <2>2, TQInvStep
<1>2. TQSpec => []TQInv
  BY TQInvInit, TQInvStep, PTL DEF TQSpec
<1>3. TQSpec => TQNeverShrinks
  BY <1>1, <1>2, PTL DEF TQSpec, TQNeverShrinks
<1> QED
  BY <1>3, ARCNeverShrinksCorrect DEF NeverShrinks
-----------------------------------------------------------------------------
(* Proof: W-TinyLFU keeps its shares and answers with the last value put *)

CachedItem == [key : Key, val : Value]

KeysOf(items) == {e.key : e \in Range(items)}

\* A segment: an LRU cache of at most cap items that holds no key twice.
Segment(items, cap) ==
    /\ items \in Seq(CachedItem) /\ IsInjective(items) /\ Len(items) <= cap
    /\ \A e, f \in Range(items) : e.key = f.key => e = f

\* What a promoted item left behind in probation may be stale; put() keeps the
\* copies of the other two segments up to date.
TLInv ==
    /\ Segment(window, WindowCap) /\ Segment(probation, ProbationCap)
    /\ Segment(protected, ProtectedCap)
    /\ KeysOf(window) \cap (KeysOf(probation) \union KeysOf(protected)) = {}
    /\ \A e \in Range(window) \union Range(protected) : e.val = kv[e.key]
    /\ \A e \in Range(probation) : e.val = kv[e.key] \/ e.key \in KeysOf(protected)
    /\ kv \in [Key -> Value \union {NoValue}]

LEMMA TLCaps == WindowCap \in Nat \ {0} /\ ProbationCap \in Nat \ {0} /\ ProtectedCap \in Nat \ {0}
<1>1. CacheCapacity \in Int /\ CacheCapacity \div 20 \in Int
  BY TLSizes
<1>2. WindowCap \in Nat \ {0}
  BY <1>1, MaxOfOne DEF WindowCap
<1>3. MainCap \in Int
  BY <1>1, <1>2 DEF MainCap
<1>4. (MainCap * 2) \div 10 \in Int
  BY <1>3
<1>5. ProbationCap \in Nat \ {0}
  BY <1>4, MaxOfOne DEF ProbationCap
<1>6. MainCap - ProbationCap \in Int
  BY <1>3, <1>5
<1>7. ProtectedCap \in Nat \ {0}
  BY <1>6, MaxOfOne DEF ProtectedCap
<1> QED
  BY <1>2, <1>5, <1>7

\* An item is in its list under its key, and is all the list has under it.
LEMMA ItemFacts ==
    ASSUME NEW items, NEW cap, Segment(items, cap), NEW k
    PROVE  /\ Has(items, k) <=> k \in KeysOf(items)
           /\ Has(items, k) => /\ Where(items, k) \in DOMAIN items
                               /\ Item(items, k) \in Range(items)
                               /\ Item(items, k) \in CachedItem /\ Item(items, k).key = k
                               /\ RemoveAt(items, Where(items, k)) = Erase(items, Item(items, k))
                               /\ In(items, Item(items, k))
           /\ Range(items) \subseteq CachedItem
           /\ items = << >> <=> Len(items) = 0
           /\ Len(items) \in Nat
<1>1. /\ items \in Seq(CachedItem) /\ DOMAIN items = 1 .. Len(items) /\ Len(items) \in Nat
      /\ items = << >> <=> Len(items) = 0
  BY LenProperties, EmptySeq DEF Segment
<1>2. Range(items) \subseteq CachedItem
  <2>1. \A i \in 1 .. Len(items) : items[i] \in CachedItem
    BY <1>1, ElementOfSeq
  <2> QED
    BY <1>1, <2>1 DEF Range
<1>3. Has(items, k) <=> k \in KeysOf(items)
  BY DEF Has, KeysOf, Range
<1>4. ASSUME Has(items, k)
      PROVE  /\ Where(items, k) \in DOMAIN items
             /\ Item(items, k) \in Range(items) /\ Item(items, k).key = k
             /\ RemoveAt(items, Where(items, k)) = Erase(items, Item(items, k))
             /\ In(items, Item(items, k))
  <2>1. Where(items, k) \in DOMAIN items /\ items[Where(items, k)].key = k
    BY <1>4 DEF Has, Where
  <2>2. Item(items, k) \in Range(items) /\ Item(items, k).key = k /\ In(items, Item(items, k))
    BY <2>1 DEF Item, Range, In
  <2> DEFINE i == CHOOSE i \in DOMAIN items : items[i] = Item(items, k)
  <2>3. i \in DOMAIN items /\ items[i] = Item(items, k)
    BY <2>1 DEF Item
  <2>4. Erase(items, Item(items, k)) = RemoveAt(items, i)
    BY DEF Erase
  <2> HIDE DEF i
  <2>5. i = Where(items, k)
    BY <2>1, <2>3 DEF Item, Segment, IsInjective
  <2> QED
    BY <2>1, <2>2, <2>4, <2>5
<1> QED
  BY <1>1, <1>2, <1>3, <1>4

\* An item before a list that lacks its key.
LEMMA ItemPushed ==
    ASSUME NEW items, NEW cap \in Nat, Segment(items, cap), NEW e \in CachedItem,
           e.key \notin KeysOf(items)
    PROVE  Segment(<<e>> \o items, cap + 1) /\ Range(<<e>> \o items) = {e} \union Range(items)
           /\ Len(<<e>> \o items) = Len(items) + 1 /\ Len(items) \in Nat
<1>1. items \in Seq(CachedItem) /\ IsInjective(items) /\ e \notin Range(items)
      /\ Len(items) \in Nat /\ Len(items) <= cap
  BY LenProperties DEF Segment, KeysOf
<1>2. /\ <<e>> \o items \in Seq(CachedItem) /\ Len(<<e>> \o items) = Len(items) + 1
      /\ Range(<<e>> \o items) = {e} \union Range(items) /\ IsInjective(<<e>> \o items)
  BY <1>1, Pushed
<1>3. \A f, g \in {e} \union Range(items) : f.key = g.key => f = g
  BY DEF Segment, KeysOf
<1>4. Len(items) + 1 <= cap + 1
  BY <1>1
<1> QED
  BY <1>1, <1>2, <1>3, <1>4 DEF Segment

\* What is left of a list without the item of a key, and without its last item.
LEMMA ItemGone ==
    ASSUME NEW items, NEW cap \in Nat, Segment(items, cap)
    PROVE  /\ \A k : Has(items, k) =>
                LET rest == RemoveAt(items, Where(items, k))
                IN  /\ Segment(rest, cap) /\ Segment(rest, cap - 1) /\ Len(rest) = Len(items) - 1
                    /\ Range(rest) = {e \in Range(items) : e.key # k}
                    /\ Range(items) = {Item(items, k)} \union Range(rest)
           /\ items # << >> => /\ Segment(Front(items), cap - 1) /\ Len(Front(items)) = Len(items) - 1
                               /\ Last(items) \in CachedItem
                               /\ Last(items).key \notin KeysOf(Front(items))
                               /\ Range(items) = {Last(items)} \union Range(Front(items))
<1>1. items \in Seq(CachedItem) /\ IsInjective(items) /\ Len(items) \in Nat /\ Len(items) <= cap
  BY LenProperties DEF Segment
<1>2. ASSUME NEW k, Has(items, k)
      PROVE  LET rest == RemoveAt(items, Where(items, k))
             IN  /\ Segment(rest, cap) /\ Segment(rest, cap - 1) /\ Len(rest) = Len(items) - 1
                 /\ Range(rest) = {e \in Range(items) : e.key # k}
                 /\ Range(items) = {Item(items, k)} \union Range(rest)
  <2> DEFINE it == Item(items, k)
             rest == RemoveAt(items, Where(items, k))
  <2>1. it \in Range(items) /\ it.key = k /\ rest = Erase(items, it) /\ In(items, it)
    BY <1>2, ItemFacts
  <2> HIDE DEF it, rest
  <2>2. /\ rest \in Seq(CachedItem) /\ Len(rest) = Len(items) - 1
        /\ Range(rest) = Range(items) \ {it} /\ IsInjective(rest)
    BY <1>1, <2>1, Erased
  <2>3. \A e, f \in Range(items) : e.key = f.key => e = f
    BY DEF Segment
  <2>4. Range(rest) = {e \in Range(items) : e.key # k} /\ Range(items) = {it} \union Range(rest)
    BY <2>1, <2>2, <2>3
  <2>5. Len(rest) <= cap /\ Len(rest) <= cap - 1
    BY <1>1, <2>2
  <2>6. Segment(rest, cap) /\ Segment(rest, cap - 1)
    BY <2>2, <2>3, <2>4, <2>5 DEF Segment
  <2> QED
    BY <2>2, <2>4, <2>6 DEF it, rest
<1>3. ASSUME items # << >>
      PROVE  /\ Segment(Front(items), cap - 1) /\ Len(Front(items)) = Len(items) - 1
             /\ Last(items) \in CachedItem
             /\ Last(items).key \notin KeysOf(Front(items))
             /\ Range(items) = {Last(items)} \union Range(Front(items))
  <2>1. /\ Front(items) \in Seq(CachedItem) /\ Last(items) \in CachedItem
        /\ Len(Front(items)) = Len(items) - 1
        /\ Range(items) = {Last(items)} \union Range(Front(items))
        /\ IsInjective(Front(items)) /\ Last(items) \notin Range(Front(items))
    BY <1>1, <1>3, Dropped
  <2>2. \A e, f \in Range(items) : e.key = f.key => e = f
    BY DEF Segment
  <2>3. Len(Front(items)) <= cap - 1
    BY <1>1, <2>1
  <2>4. Last(items).key \notin KeysOf(Front(items))
    BY <2>1, <2>2 DEF KeysOf
  <2>5. Segment(Front(items), cap - 1)
    BY <2>1, <2>2, <2>3 DEF Segment
  <2> QED
    BY <2>1, <2>4, <2>5
<1> QED
  BY <1>2, <1>3

\* LRUCache::get() reorders the items.
LEMMA TouchedFacts ==
    ASSUME NEW items, NEW cap \in Nat, Segment(items, cap), NEW k, Has(items, k)
    PROVE  Segment(Touched(items, k), cap) /\ Range(Touched(items, k)) = Range(items)
           /\ Len(Touched(items, k)) = Len(items)
<1> DEFINE rest == RemoveAt(items, Where(items, k))
           it == Item(items, k)
<1>1. /\ Segment(rest, cap - 1) /\ Len(rest) = Len(items) - 1
      /\ Range(rest) = {e \in Range(items) : e.key # k}
      /\ Range(items) = {it} \union Range(rest)
  BY ItemGone
<1>2. /\ it \in CachedItem /\ it.key = k /\ Len(items) \in Nat /\ items # << >> /\ Len(items) <= cap
      /\ items = << >> <=> Len(items) = 0
  BY ItemFacts DEF Has, Segment
<1>3. Touched(items, k) = <<it>> \o rest
  BY DEF Touched
<1> HIDE DEF rest, it
<1>4. cap - 1 \in Nat /\ (cap - 1) + 1 = cap
  BY <1>2
<1>5. Segment(rest, cap - 1) /\ it \in CachedItem /\ it.key \notin KeysOf(rest)
  BY <1>1, <1>2 DEF KeysOf
<1>6. /\ Segment(<<it>> \o rest, (cap - 1) + 1) /\ Range(<<it>> \o rest) = {it} \union Range(rest)
      /\ Len(<<it>> \o rest) = Len(rest) + 1
  BY ONLY <1>4, <1>5, ItemPushed
<1> QED
  BY <1>1, <1>2, <1>3, <1>4, <1>6

\* LRUCache::put() replaces the item of the key or pushes the oldest out.
LEMMA AddedFacts ==
    ASSUME NEW items, NEW cap \in Nat \ {0}, Segment(items, cap), NEW e \in CachedItem
    PROVE  /\ Segment(Added(items, e, cap), cap) /\ e \in Range(Added(items, e, cap))
           /\ Range(Added(items, e, cap)) \subseteq {e} \union {f \in Range(items) : f.key # e.key}
           /\ Has(items, e.key) \/ Len(items) < cap =>
                 Range(Added(items, e, cap)) = {e} \union {f \in Range(items) : f.key # e.key}
<1> DEFINE others == {f \in Range(items) : f.key # e.key}
           new == Added(items, e, cap)
<1>1. /\ cap - 1 \in Nat /\ (cap - 1) + 1 = cap /\ Len(items) \in Nat /\ Len(items) <= cap
      /\ items = << >> <=> Len(items) = 0
  BY ItemFacts DEF Segment
<1>2. CASE Has(items, e.key)
  <2> DEFINE rest == RemoveAt(items, Where(items, e.key))
  <2>1. Segment(rest, cap - 1) /\ Range(rest) = others
    BY <1>2, ItemGone
  <2>2. new = <<e>> \o rest
    BY <1>2 DEF Added
  <2> HIDE DEF rest, new
  <2>3. e.key \notin KeysOf(rest)
    BY <2>1 DEF KeysOf
  <2>4. Segment(<<e>> \o rest, (cap - 1) + 1) /\ Range(<<e>> \o rest) = {e} \union Range(rest)
    BY ONLY <1>1, <2>1, <2>3, ItemPushed, e \in CachedItem
  <2>5. Segment(new, cap) /\ Range(new) = {e} \union others
    BY ONLY <1>1, <2>1, <2>2, <2>4
  <2> QED
    BY <2>5 DEF new
<1>3. CASE ~Has(items, e.key) /\ Len(items) >= cap
  <2>1. /\ Segment(Front(items), cap - 1) /\ Range(items) = {Last(items)} \union Range(Front(items))
        /\ e.key \notin KeysOf(items)
    BY <1>1, <1>3, ItemGone, ItemFacts
  <2>2. new = <<e>> \o Front(items)
    BY <1>3 DEF Added
  <2>3. e.key \notin KeysOf(Front(items)) /\ Range(Front(items)) \subseteq others
    BY <2>1 DEF KeysOf
  <2> HIDE DEF new
  <2>4. Segment(<<e>> \o Front(items), (cap - 1) + 1)
        /\ Range(<<e>> \o Front(items)) = {e} \union Range(Front(items))
    BY ONLY <1>1, <2>1, <2>3, ItemPushed, e \in CachedItem
  <2>5. Segment(new, cap) /\ Range(new) \subseteq {e} \union others /\ e \in Range(new)
    BY ONLY <1>1, <2>2, <2>3, <2>4
  <2> QED
    BY <1>1, <1>3, <2>5 DEF new
<1>4. CASE ~Has(items, e.key) /\ ~(Len(items) >= cap)
  <2>1. Segment(items, cap - 1) /\ e.key \notin KeysOf(items)
    BY <1>1, <1>4, ItemFacts DEF Segment
  <2>2. new = <<e>> \o items
    BY <1>4 DEF Added
  <2>3. Range(items) = others
    BY <2>1 DEF KeysOf
  <2> HIDE DEF new
  <2>4. Segment(<<e>> \o items, (cap - 1) + 1) /\ Range(<<e>> \o items) = {e} \union Range(items)
    BY ONLY <1>1, <2>1, ItemPushed, e \in CachedItem
  <2>5. Segment(new, cap) /\ Range(new) = {e} \union others
    BY ONLY <1>1, <2>2, <2>3, <2>4
  <2> QED
    BY <2>5 DEF new
<1> QED
  BY <1>2, <1>3, <1>4

LEMMA TLFacts ==
    ASSUME TLInv
    PROVE  /\ Segment(window, WindowCap) /\ Segment(probation, ProbationCap)
           /\ Segment(protected, ProtectedCap)
           /\ WindowCap \in Nat \ {0} /\ ProbationCap \in Nat \ {0} /\ ProtectedCap \in Nat \ {0}
           /\ WindowCap \in Nat /\ ProbationCap \in Nat /\ ProtectedCap \in Nat
BY TLCaps DEF TLInv

LEMMA TLInvInit == AMInit /\ TLInit => TLInv
<1> SUFFICES ASSUME AMInit, TLInit  PROVE TLInv
  OBVIOUS
<1>1. /\ << >> \in Seq(CachedItem) /\ Len(<< >>) = 0 /\ DOMAIN << >> = {}
      /\ Range(<< >>) = {} /\ IsInjective(<< >>)
  BY DEF Range, IsInjective
<1>2. \A cap \in Nat : Segment(<< >>, cap)
  BY <1>1 DEF Segment
<1>3. kv \in [Key -> Value \union {NoValue}]
  BY DEF AMInit
<1> QED
  BY <1>1, <1>2, <1>3, TLCaps DEF TLInit, TLInv, KeysOf

LEMMA GetWindowStep == ASSUME TLInv, NEW k \in Key, GetWindow(k)  PROVE TLInv'
<1>1. Segment(window', WindowCap) /\ Range(window') = Range(window)
  BY TLFacts, TouchedFacts DEF GetWindow
<1>2. probation' = probation /\ protected' = protected /\ kv' = kv
  BY DEF GetWindow
<1> QED
  BY <1>1, <1>2 DEF TLInv, KeysOf, WindowCap, ProbationCap, ProtectedCap, MainCap

LEMMA GetProtectedStep == ASSUME TLInv, NEW k \in Key, GetProtected(k)  PROVE TLInv'
<1>1. Segment(protected', ProtectedCap) /\ Range(protected') = Range(protected)
  BY TLFacts, TouchedFacts DEF GetProtected
<1>2. probation' = probation /\ window' = window /\ kv' = kv
  BY DEF GetProtected
<1> QED
  BY <1>1, <1>2 DEF TLInv, KeysOf, WindowCap, ProbationCap, ProtectedCap, MainCap

\* The item promoted carries the last value put: no copy of it is in protected.
LEMMA GetProbationStep == ASSUME TLInv, NEW k \in Key, GetProbation(k)  PROVE TLInv'
<1> DEFINE hit == Touched(probation, k)
           it  == Item(probation, k)
           last == Last(protected)
           rest == Front(protected)
<1>1. Has(probation, k) /\ ~Has(protected, k) /\ ~Has(window, k)
      /\ window' = window /\ kv' = kv
  BY DEF GetProbation
<1>2. /\ Segment(hit, ProbationCap) /\ Range(hit) = Range(probation)
      /\ it \in Range(probation) /\ it \in CachedItem /\ it.key = k
      /\ k \notin KeysOf(protected) /\ k \notin KeysOf(window) /\ k \in KeysOf(probation)
  BY <1>1, TLFacts, TouchedFacts, ItemFacts
<1>3. /\ Segment(probation', ProbationCap) /\ Segment(protected', ProtectedCap)
      /\ Range(protected') \subseteq {it} \union Range(protected) /\ it \in Range(protected')
      /\ \/ Range(probation') = Range(probation) /\ Range(protected) \subseteq Range(protected')
         \/ \E e \in Range(protected) :
               /\ Range(probation') \subseteq {e} \union {f \in Range(probation) : f.key # e.key}
               /\ Range(protected) \subseteq {e} \union Range(protected')
  <2>1. CASE Len(protected) >= ProtectedCap
    <3>1. probation' = Added(hit, last, ProbationCap) /\ protected' = Added(rest, it, ProtectedCap)
      BY <2>1 DEF GetProbation
    <3>2. protected # << >> /\ Len(protected) <= ProtectedCap /\ Len(protected) \in Nat
      BY <2>1, TLFacts, ItemFacts DEF Segment
    <3>3. /\ Segment(rest, ProtectedCap - 1) /\ last \in CachedItem
          /\ Range(protected) = {last} \union Range(rest) /\ Len(rest) = Len(protected) - 1
      BY <3>2, TLFacts, ItemGone
    <3>4. Segment(rest, ProtectedCap) /\ Len(rest) < ProtectedCap
      BY <3>2, <3>3, TLFacts DEF Segment
    <3> HIDE DEF hit, it, last, rest
    <3>5. /\ Segment(probation', ProbationCap)
          /\ Range(probation') \subseteq {last} \union {f \in Range(hit) : f.key # last.key}
      BY ONLY <1>2, <3>1, <3>3, TLFacts, TLInv, AddedFacts
    <3>6. /\ Segment(protected', ProtectedCap)
          /\ Range(protected') = {it} \union {f \in Range(rest) : f.key # it.key}
      BY ONLY <1>2, <3>1, <3>4, TLFacts, TLInv, AddedFacts
    <3>7. {f \in Range(rest) : f.key # it.key} = Range(rest)
      BY <1>2, <3>3 DEF KeysOf
    <3>8. last \in Range(protected) /\ Range(protected) \subseteq {last} \union Range(protected')
          /\ Range(protected') \subseteq {it} \union Range(protected) /\ it \in Range(protected')
      BY <3>3, <3>6, <3>7
    <3> QED
      BY ONLY <1>2, <3>5, <3>6, <3>8
  <2>2. CASE ~(Len(protected) >= ProtectedCap)
    <3>1. probation' = hit /\ protected' = Added(protected, it, ProtectedCap)
      BY <2>2 DEF GetProbation
    <3>2. Len(protected) < ProtectedCap
      BY <2>2, TLFacts, ItemFacts
    <3> HIDE DEF hit, it
    <3>3. /\ Segment(protected', ProtectedCap)
          /\ Range(protected') = {it} \union {f \in Range(protected) : f.key # it.key}
      BY ONLY <1>2, <3>1, <3>2, TLFacts, TLInv, AddedFacts
    <3>4. {f \in Range(protected) : f.key # it.key} = Range(protected)
      BY <1>2 DEF KeysOf
    <3> QED
      BY ONLY <1>2, <3>1, <3>3, <3>4
  <2> QED
    BY <2>1, <2>2
<1> HIDE DEF hit, it, last, rest
<1>4. it.val = kv[it.key]
  BY <1>2 DEF TLInv
<1>5. KeysOf(window') \cap (KeysOf(probation') \union KeysOf(protected')) = {}
  <2>1. KeysOf(probation') \subseteq KeysOf(probation) \union KeysOf(protected)
    BY <1>3 DEF KeysOf
  <2>2. KeysOf(protected') \subseteq {k} \union KeysOf(protected)
    BY <1>2, <1>3 DEF KeysOf
  <2> QED
    BY <1>1, <1>2, <2>1, <2>2 DEF TLInv
<1>6. \A e \in Range(window') \union Range(protected') : e.val = kv'[e.key]
  BY <1>1, <1>3, <1>4 DEF TLInv
<1>7. \A e \in Range(probation') : e.val = kv'[e.key] \/ e.key \in KeysOf(protected')
  <2>1. SUFFICES ASSUME NEW e \in Range(probation'), e.val # kv[e.key]  PROVE e.key \in KeysOf(protected')
    BY <1>1
  <2>2. CASE Range(probation') = Range(probation) /\ Range(protected) \subseteq Range(protected')
    BY <2>1, <2>2 DEF TLInv, KeysOf
  <2>3. ASSUME NEW f \in Range(protected),
               Range(probation') \subseteq {f} \union {g \in Range(probation) : g.key # f.key},
               Range(protected) \subseteq {f} \union Range(protected')
        PROVE  e.key \in KeysOf(protected')
    <3>1. e # f
      BY <2>1, <2>3 DEF TLInv
    <3>2. e \in Range(probation) /\ e.key # f.key
      BY <2>3, <3>1
    <3>3. e.key \in KeysOf(protected)
      BY <2>1, <3>2 DEF TLInv
    <3>4. PICK g \in Range(protected) : g.key = e.key
      BY <3>3 DEF KeysOf
    <3>5. g \in Range(protected')
      BY <2>3, <3>2, <3>4
    <3> QED
      BY <3>4, <3>5 DEF KeysOf
  <2> QED
    BY <1>3, <2>2, <2>3
<1> QED
  BY <1>1, <1>3, <1>5, <1>6, <1>7, TLFacts DEF TLInv, WindowCap, ProbationCap, ProtectedCap, MainCap

\* put() changes what its key must answer, and no other.
LEMMA KvPut ==
    ASSUME TLInv, NEW k \in Key, NEW v \in Value, AMPut(k, v)
    PROVE  /\ kv' \in [Key -> Value \union {NoValue}]
           /\ kv'[k] = v /\ \A j \in Key : j # k => kv'[j] = kv[j]
           /\ [key |-> k, val |-> v] \in CachedItem
           /\ \A e \in CachedItem : e.key \in Key
           /\ \A e \in Range(window) \union Range(probation) \union Range(protected) : e \in CachedItem
<1>1. kv \in [Key -> Value \union {NoValue}] /\ kv' = [kv EXCEPT ![k] = v]
  BY DEF TLInv, AMPut
<1>2. /\ [key |-> k, val |-> v] \in CachedItem
      /\ \A e \in CachedItem : e.key \in Key
  BY DEF CachedItem
<1>3. \A e \in Range(window) \union Range(probation) \union Range(protected) : e \in CachedItem
  BY TLFacts, ItemFacts
<1> QED
  BY <1>1, <1>2, <1>3

LEMMA PutHitStep == ASSUME TLInv, NEW k \in Key, NEW v \in Value, PutHit(k, v)  PROVE TLInv'
<1> DEFINE item == [key |-> k, val |-> v]
<1>1. /\ kv' \in [Key -> Value \union {NoValue}]
      /\ kv'[k] = v /\ \A j \in Key : j # k => kv'[j] = kv[j]
      /\ item \in CachedItem /\ item.key = k /\ item.val = v
      /\ \A e \in Range(window) \union Range(probation) \union Range(protected) : e.key \in Key
  BY KvPut DEF PutHit
<1>2. CASE /\ Has(window, k) /\ window' = Added(window, item, WindowCap)
           /\ probation' = probation /\ protected' = protected
  <2> HIDE DEF item
  <2>1. /\ Segment(window', WindowCap)
        /\ Range(window') = {item} \union {f \in Range(window) : f.key # k}
    BY ONLY <1>1, <1>2, TLFacts, TLInv, AddedFacts
  <2>2. k \in KeysOf(window)
    BY <1>2, TLFacts, ItemFacts
  <2>3. KeysOf(window') \subseteq KeysOf(window)
    BY <1>1, <2>1, <2>2 DEF KeysOf
  <2>4. k \notin KeysOf(probation) /\ k \notin KeysOf(protected)
        /\ KeysOf(window') \cap (KeysOf(probation) \union KeysOf(protected)) = {}
    BY <2>2, <2>3 DEF TLInv
  <2>5. \A e \in Range(window') \union Range(protected) : e.val = kv'[e.key]
    BY <1>1, <2>1, <2>4 DEF TLInv, KeysOf
  <2>6. \A e \in Range(probation) : e.val = kv'[e.key] \/ e.key \in KeysOf(protected)
    BY <1>1, <2>4 DEF TLInv, KeysOf
  <2> QED
    BY <1>1, <1>2, <2>1, <2>4, <2>5, <2>6, TLFacts
    DEF TLInv, WindowCap, ProbationCap, ProtectedCap, MainCap
<1>3. CASE /\ ~Has(window, k) /\ Has(protected, k) /\ protected' = Added(protected, item, ProtectedCap)
           /\ window' = window /\ probation' = probation
  <2> HIDE DEF item
  <2>1. /\ Segment(protected', ProtectedCap)
        /\ Range(protected') = {item} \union {f \in Range(protected) : f.key # k}
    BY ONLY <1>1, <1>3, TLFacts, TLInv, AddedFacts
  <2>2. k \in KeysOf(protected) /\ k \notin KeysOf(window)
    BY <1>3, TLFacts, ItemFacts
  <2>3. KeysOf(protected') = KeysOf(protected)
    BY <1>1, <2>1, <2>2 DEF KeysOf
  <2>4. \A e \in Range(window) \union Range(protected') : e.val = kv'[e.key]
    BY <1>1, <2>1, <2>2 DEF TLInv, KeysOf
  <2>5. \A e \in Range(probation) : e.val = kv'[e.key] \/ e.key \in KeysOf(protected')
    BY <1>1, <2>2, <2>3 DEF TLInv
  <2> QED
    BY <1>1, <1>3, <2>1, <2>3, <2>4, <2>5, TLFacts
    DEF TLInv, WindowCap, ProbationCap, ProtectedCap, MainCap
<1>4. CASE /\ ~Has(window, k) /\ ~Has(protected, k) /\ Has(probation, k)
           /\ probation' = Added(probation, item, ProbationCap)
           /\ window' = window /\ protected' = protected
  <2> HIDE DEF item
  <2>1. /\ Segment(probation', ProbationCap)
        /\ Range(probation') = {item} \union {f \in Range(probation) : f.key # k}
    BY ONLY <1>1, <1>4, TLFacts, TLInv, AddedFacts
  <2>2. k \in KeysOf(probation) /\ k \notin KeysOf(window) /\ k \notin KeysOf(protected)
    BY <1>4, TLFacts, ItemFacts
  <2>3. KeysOf(probation') \subseteq KeysOf(probation)
    BY <1>1, <2>1, <2>2 DEF KeysOf
  <2>4. KeysOf(window) \cap (KeysOf(probation') \union KeysOf(protected)) = {}
    BY <2>3 DEF TLInv
  <2>5. \A e \in Range(window) \union Range(protected) : e.val = kv'[e.key]
    BY <1>1, <2>2 DEF TLInv, KeysOf
  <2>6. \A e \in Range(probation') : e.val = kv'[e.key] \/ e.key \in KeysOf(protected)
    BY <1>1, <2>1 DEF TLInv
  <2> QED
    BY <1>1, <1>4, <2>1, <2>4, <2>5, <2>6, TLFacts
    DEF TLInv, WindowCap, ProbationCap, ProtectedCap, MainCap
<1> QED
  BY <1>2, <1>3, <1>4 DEF PutHit

\* The window's last item, when it enters probation, carries the last value put.
LEMMA PutNewStep == ASSUME TLInv, NEW k \in Key, NEW v \in Value, PutNew(k, v)  PROVE TLInv'
<1> DEFINE item == [key |-> k, val |-> v]
           last == Last(window)
           wp   == window \o probation
<1>1. /\ kv' \in [Key -> Value \union {NoValue}]
      /\ kv'[k] = v /\ \A j \in Key : j # k => kv'[j] = kv[j]
      /\ item \in CachedItem /\ item.key = k /\ item.val = v
      /\ \A e \in Range(window) \union Range(probation) \union Range(protected) : e.key \in Key
  BY KvPut DEF PutNew
<1>2. protected' = protected
  BY DEF PutNew
<1>3. k \notin KeysOf(window) /\ k \notin KeysOf(probation) /\ k \notin KeysOf(protected)
  <2>1. window \in Seq(CachedItem) /\ probation \in Seq(CachedItem) /\ protected \in Seq(CachedItem)
    BY TLFacts DEF Segment
  <2>2. wp \in Seq(CachedItem) /\ Range(wp) = Range(window) \union Range(probation)
    BY <2>1, Joined
  <2>3. ~Has(wp \o protected, k)
    BY DEF PutNew
  <2> HIDE DEF wp
  <2>4. Range(wp \o protected) = Range(wp) \union Range(protected)
    BY <2>1, <2>2, Joined
  <2>5. \A e \in Range(wp \o protected) : e.key # k
    BY <2>3 DEF Has, Range
  <2> QED
    BY <2>2, <2>4, <2>5 DEF KeysOf
<1>4. /\ Segment(window', WindowCap) /\ Segment(probation', ProbationCap)
      /\ \/ Range(window') = {item} \union Range(window) /\ Range(probation') = Range(probation)
         \/ \E e \in Range(window) :
               /\ Range(window') = {item} \union {f \in Range(window) : f.key # e.key}
               /\ Range(probation') \subseteq {e} \union Range(probation)
  <2>1. CASE Len(window) < WindowCap
    <3>1. window' = <<item>> \o window /\ probation' = probation
      BY <2>1, TLFacts, ItemFacts DEF PutNew
    <3> HIDE DEF item
    <3>2. Segment(window, WindowCap - 1) /\ WindowCap - 1 \in Nat /\ (WindowCap - 1) + 1 = WindowCap
      BY <2>1, TLFacts, ItemFacts DEF Segment
    <3>3. Segment(<<item>> \o window, (WindowCap - 1) + 1)
          /\ Range(<<item>> \o window) = {item} \union Range(window)
      BY ONLY <1>1, <1>3, <3>2, ItemPushed
    <3> QED
      BY <3>1, <3>2, <3>3, TLFacts
  <2>2. CASE Len(window) >= WindowCap
    <3>1. /\ window' = <<item>> \o Front(window)
          /\ probation' = Added(probation, last, ProbationCap) \/ probation' = probation
      BY <2>2, TLFacts, ItemFacts DEF PutNew
    <3>2. window # << >>
      BY <2>2, TLFacts, ItemFacts
    <3>3. /\ Segment(Front(window), WindowCap - 1) /\ last \in CachedItem
          /\ last.key \notin KeysOf(Front(window))
          /\ Range(window) = {last} \union Range(Front(window))
          /\ WindowCap - 1 \in Nat /\ (WindowCap - 1) + 1 = WindowCap
      BY <3>2, TLFacts, ItemGone
    <3> HIDE DEF item, last
    <3>4. k \notin KeysOf(Front(window)) /\ Range(Front(window)) = {f \in Range(window) : f.key # last.key}
      BY <1>3, <3>3 DEF KeysOf
    <3>5. Segment(<<item>> \o Front(window), (WindowCap - 1) + 1)
          /\ Range(<<item>> \o Front(window)) = {item} \union Range(Front(window))
      BY ONLY <1>1, <3>3, <3>4, ItemPushed
    <3>6. Segment(Added(probation, last, ProbationCap), ProbationCap)
          /\ Range(Added(probation, last, ProbationCap)) \subseteq {last} \union Range(probation)
      BY ONLY <3>3, TLFacts, TLInv, AddedFacts
    <3>7. Segment(probation', ProbationCap) /\ Range(probation') \subseteq {last} \union Range(probation)
      BY <3>1, <3>6, TLFacts
    <3>8. Segment(window', WindowCap) /\ Range(window') = {item} \union {f \in Range(window) : f.key # last.key}
          /\ last \in Range(window)
      BY <3>1, <3>3, <3>4, <3>5
    <3> QED
      BY ONLY <3>7, <3>8
  <2> QED
    BY <2>1, <2>2, TLFacts, ItemFacts
<1> HIDE DEF item
<1>5. KeysOf(window') \cap (KeysOf(probation') \union KeysOf(protected)) = {}
  <2>1. CASE Range(window') = {item} \union Range(window) /\ Range(probation') = Range(probation)
    BY <1>1, <1>3, <2>1 DEF TLInv, KeysOf
  <2>2. ASSUME NEW e \in Range(window),
               Range(window') = {item} \union {f \in Range(window) : f.key # e.key},
               Range(probation') \subseteq {e} \union Range(probation)
        PROVE  KeysOf(window') \cap (KeysOf(probation') \union KeysOf(protected)) = {}
    BY <1>1, <1>3, <2>2 DEF TLInv, KeysOf
  <2> QED
    BY <1>4, <2>1, <2>2
<1>6. \A e \in Range(window') \union Range(protected) : e.val = kv'[e.key]
  BY <1>1, <1>3, <1>4 DEF TLInv, KeysOf
<1>7. \A e \in Range(probation') : e.val = kv'[e.key] \/ e.key \in KeysOf(protected)
  BY <1>1, <1>3, <1>4 DEF TLInv, KeysOf
<1> QED
  BY <1>1, <1>2, <1>4, <1>5, <1>6, <1>7, TLFacts
  DEF TLInv, WindowCap, ProbationCap, ProtectedCap, MainCap

LEMMA TLInvStep == TLInv /\ [TLNext]_tlVars => TLInv'
<1> SUFFICES ASSUME TLInv, [TLNext]_tlVars  PROVE TLInv'
  OBVIOUS
<1>1. CASE UNCHANGED tlVars
  BY <1>1 DEF tlVars, TLInv, WindowCap, ProbationCap, ProtectedCap, MainCap
<1>2. ASSUME NEW k \in Key, GetWindow(k) \/ GetProtected(k) \/ GetProbation(k)  PROVE TLInv'
  BY <1>2, GetWindowStep, GetProtectedStep, GetProbationStep
<1>3. ASSUME NEW k \in Key, NEW v \in Value, PutHit(k, v) \/ PutNew(k, v)  PROVE TLInv'
  BY <1>3, PutHitStep, PutNewStep
<1> QED
  BY <1>1, <1>2, <1>3 DEF TLNext

LEMMA TLInvBounds == TLInv => TLTypeOK /\ TLBounded /\ TLAnswers
<1> SUFFICES ASSUME TLInv  PROVE TLTypeOK /\ TLBounded /\ TLAnswers
  OBVIOUS
<1>1. TLTypeOK
  BY TLFacts DEF TLTypeOK, Segment, CachedItem
<1>2. TLBounded
  <2> DEFINE keys(items) == {items[i].key : i \in DOMAIN items}
  <2>1. \A items \in {window, probation, protected} :
           \A i, j \in DOMAIN items : items[i].key = items[j].key => i = j
    <3>1. SUFFICES ASSUME NEW items \in {window, probation, protected}, NEW i \in DOMAIN items,
                          NEW j \in DOMAIN items, items[i].key = items[j].key
                   PROVE  i = j
      OBVIOUS
    <3>2. /\ IsInjective(items) /\ \A e, f \in Range(items) : e.key = f.key => e = f
      BY TLFacts DEF Segment
    <3>3. items[i] = items[j]
      BY <3>1, <3>2 DEF Range
    <3> QED
      BY <3>2, <3>3 DEF IsInjective
  <2>2. keys(window) = KeysOf(window) /\ keys(probation) = KeysOf(probation)
        /\ keys(protected) = KeysOf(protected)
    BY DEF KeysOf, Range
  <2> HIDE DEF keys
  <2>3. keys(window) \cap (keys(probation) \union keys(protected)) = {}
    BY <2>2 DEF TLInv
  <2>4. Len(window) <= WindowCap /\ Len(probation) <= ProbationCap /\ Len(protected) <= ProtectedCap
    BY TLFacts DEF Segment
  <2> QED
    BY <2>1, <2>3, <2>4 DEF TLBounded, keys
<1>3. ASSUME NEW k \in Key, Has(Holder(k), k)  PROVE Item(Holder(k), k).val = kv[k]
  <2>1. CASE Has(window, k)
    <3>1. Item(window, k) \in Range(window) /\ Item(window, k).key = k
      BY <2>1, TLFacts, ItemFacts
    <3> QED
      BY <2>1, <3>1 DEF Holder, TLInv
  <2>2. CASE ~Has(window, k) /\ Has(protected, k)
    <3>1. Item(protected, k) \in Range(protected) /\ Item(protected, k).key = k
      BY <2>2, TLFacts, ItemFacts
    <3> QED
      BY <2>2, <3>1 DEF Holder, TLInv
  <2>3. CASE ~Has(window, k) /\ ~Has(protected, k)
    <3>1. Holder(k) = probation /\ Has(probation, k)
      BY <1>3, <2>3 DEF Holder
    <3>2. Item(probation, k) \in Range(probation) /\ Item(probation, k).key = k
          /\ k \notin KeysOf(protected)
      BY <2>3, <3>1, TLFacts, ItemFacts
    <3> QED
      BY <3>1, <3>2 DEF TLInv
  <2> QED
    BY <2>1, <2>2, <2>3
<1> QED
  BY <1>1, <1>2, <1>3 DEF TLAnswers

\* For any keys, values and capacity of 2 or more, the segments of W-TinyLFU
\* keep to their shares, and what get() finds is the last value put.
THEOREM TLCorrect == TLSpec => [](TLTypeOK /\ TLBounded /\ TLAnswers)
<1>1. TLSpec => []TLInv
  BY TLInvInit, TLInvStep, PTL DEF TLSpec
<1> QED
  BY <1>1, TLInvBounds, PTL

\* The three caches, each for its own constants: no sequence of requests makes
\* a list outgrow its share, and W-TinyLFU answers with the last value put.
THEOREM CachesSoundCorrect == ARCSpec /\ TQSpec /\ TLSpec => []CachesSound
BY ARCCorrect, TQCorrect, TLCorrect, PTL DEF CachesSound
-----------------------------------------------------------------------------
(* Circular lists *)

\* The i-th list_head after h on the list with the entries s; h comes after the last.
At(h, s, i) == IF i \in 1 .. Len(s) THEN s[i] ELSE h

Leads(to, h, s) == \A i \in 0 .. Len(s) : to[At(h, s, i)] = At(h, s, i + 1)

Entries(h, s) == s \in Seq(ListHead) /\ h \in ListHead /\ h \notin Range(s) /\ IsInjective(s)

LEMMA ListHeadFinite == IsFiniteSet(ListHead) /\ Cardinality(ListHead) \in Nat
<1> DEFINE hashes == {HashHead(d) : d \in Dentry}
           lrus == {LruHead(d) : d \in Dentry}
           heads == Bucket \X {"bucket"}
<1>1. IsFiniteSet(hashes)
  <2> DEFINE f == [d \in Dentry |-> HashHead(d)]
  <2>1. f \in Surjection(Dentry, hashes)
    BY DEF Surjection
  <2> HIDE DEF f, hashes
  <2> QED
    BY <2>1, DCSizes, FS_Surjection
<1>2. IsFiniteSet(lrus)
  <2> DEFINE f == [d \in Dentry |-> LruHead(d)]
  <2>1. f \in Surjection(Dentry, lrus)
    BY DEF Surjection
  <2> HIDE DEF f, lrus
  <2> QED
    BY <2>1, DCSizes, FS_Surjection
<1>3. IsFiniteSet(heads)
  <2>1. IsFiniteSet({"bucket"})
    BY FS_Singleton
  <2> QED
    BY <2>1, DCSizes, FS_Product
<1>4. IsFiniteSet({Lru})
  BY FS_Singleton
<1>5. ListHead = (({Lru} \union heads) \union hashes) \union lrus
  BY DEF ListHead
<1> HIDE DEF hashes, lrus, heads
<1>6. IsFiniteSet({Lru} \union heads)
  BY <1>3, <1>4, FS_Union
<1>7. IsFiniteSet(({Lru} \union heads) \union hashes)
  BY <1>1, <1>6, FS_Union
<1>8. IsFiniteSet((({Lru} \union heads) \union hashes) \union lrus)
  BY <1>2, <1>7, FS_Union
<1> QED
  BY <1>5, <1>8, FS_CardinalityType

\* A list of different list_heads has fewer entries than there are list_heads.
LEMMA EntriesFit ==
    ASSUME NEW h, NEW s, Entries(h, s)
    PROVE  /\ Len(s) \in Nat /\ Len(s) + 1 <= Cardinality(ListHead)
           /\ DOMAIN s = 1 .. Len(s) /\ \A i \in 1 .. Len(s) : s[i] \in ListHead /\ s[i] # h
           /\ \A i, j \in 1 .. Len(s) : s[i] = s[j] => i = j
<1>1. /\ s \in Seq(ListHead) /\ h \in ListHead /\ h \notin Range(s) /\ IsInjective(s)
  BY DEF Entries
<1>2. Len(s) \in Nat /\ DOMAIN s = 1 .. Len(s) /\ \A i \in 1 .. Len(s) : s[i] \in ListHead
  BY <1>1, LenProperties
<1>3. \A i \in 1 .. Len(s) : s[i] # h
  BY <1>1, <1>2 DEF Range
<1>4. \A i, j \in 1 .. Len(s) : s[i] = s[j] => i = j
  BY <1>1, <1>2 DEF IsInjective
<1> DEFINE n == Len(s)
           f == [i \in 0 .. n |-> IF i = 0 THEN h ELSE s[i]]
<1> HIDE DEF n
<1>5. n \in Nat /\ n = Len(s)
  BY <1>2 DEF n
<1>6. f \in Injection(0 .. n, ListHead)
  <2>1. \A i \in 0 .. n : i = 0 \/ i \in 1 .. n
    BY <1>5
  <2>2. \A i \in 0 .. n : f[i] \in ListHead /\ f[i] = IF i = 0 THEN h ELSE s[i]
    BY <1>1, <1>2, <1>5, <2>1
  <2>3. ASSUME NEW i \in 0 .. n, NEW j \in 0 .. n, f[i] = f[j]  PROVE i = j
    BY <1>3, <1>4, <1>5, <2>1, <2>2, <2>3
  <2>4. f \in [0 .. n -> ListHead]
    BY <2>2
  <2> HIDE DEF f
  <2> QED
    BY <2>3, <2>4 DEF Injection, IsInjective
<1>7. Cardinality(0 .. n) = n + 1
  <2>1. 0 \in Int /\ n \in Int /\ ~(0 > n) /\ n - 0 + 1 = n + 1
    BY <1>5
  <2> QED
    BY <2>1, FS_Interval
<1>8. Cardinality(0 .. n) <= Cardinality(ListHead)
  <2> HIDE DEF f
  <2> QED
    BY <1>6, ListHeadFinite, FS_Injection
<1> QED
  BY <1>2, <1>3, <1>4, <1>5, <1>7, <1>8

IsWalk(f, to, head) ==
    f = [i \in 0 .. Cardinality(ListHead) |->
            LET from == IF i = 0 THEN head ELSE f[i - 1]
            IN  IF from \in ListHead THEN to[from] ELSE Null]

\* A walk along pointers that lead through s and back finds s.
LEMMA WalkIs ==
    ASSUME NEW to \in [ListHead -> ListHead \union {Null}], NEW h, NEW s,
           Entries(h, s), Leads(to, h, s)
    PROVE  Walk(to, h) = s
<1> DEFINE N == Cardinality(ListHead)
           w == CHOOSE f : IsWalk(f, to, h)
           back == {i \in 0 .. N : w[i] = h}
<1>1. Walk(to, h) = [i \in 1 .. (IF back = {} THEN N ELSE Min(back)) |-> w[i - 1]]
  BY DEF Walk, IsWalk
<1>2. N \in Nat /\ Len(s) \in Nat /\ Len(s) + 1 <= N /\ DOMAIN s = 1 .. Len(s) /\ h \in ListHead
      /\ s \in Seq(ListHead) /\ \A i \in 1 .. Len(s) : s[i] \in ListHead /\ s[i] # h
  BY EntriesFit, ListHeadFinite DEF Entries
<1> HIDE DEF N
<1>3. \E f : IsWalk(f, to, h)
  <2> DEFINE S == ListHead \union {Null}
             step == [x \in (1 .. N) \X S |-> IF x[2] \in ListHead THEN to[x[2]] ELSE Null]
             start == to[h]
  <2>1. start \in S
    BY <1>2
  <2>2. step \in [(1 .. N) \X S -> S]
    <3>1. \A x \in (1 .. N) \X S : (IF x[2] \in ListHead THEN to[x[2]] ELSE Null) \in S
      OBVIOUS
    <3> QED
      BY <3>1
  <2>3. \A i \in 1 .. N, x \in S : step[<<i, x>>] = IF x \in ListHead THEN to[x] ELSE Null
    OBVIOUS
  <2> HIDE DEF step, S, start
  <2>4. PICK f \in [0 .. N -> S] : Repeats(f, start, N, step)
    BY ONLY <1>2, <2>1, <2>2, Rounds
  <2>5. \A i \in 1 .. N : i - 1 \in 0 .. N /\ i # 0
    BY <1>2
  <2>6. \A i \in 1 .. N : f[i] = IF f[i - 1] \in ListHead THEN to[f[i - 1]] ELSE Null
    BY <2>3, <2>4, <2>5 DEF Repeats
  <2>7. f[0] = IF h \in ListHead THEN to[h] ELSE Null
    BY <1>2, <2>4 DEF Repeats, start
  <2>8. \A i \in 0 .. N : i = 0 \/ i \in 1 .. N
    BY <1>2
  <2>9. \A i \in 0 .. N : f[i] = LET from == IF i = 0 THEN h ELSE f[i - 1]
                                 IN  IF from \in ListHead THEN to[from] ELSE Null
    BY <2>5, <2>6, <2>7, <2>8
  <2>10. IsWalk(f, to, h)
    BY <2>4, <2>9 DEF IsWalk, N
  <2> QED
    BY <2>10
<1>4. IsWalk(w, to, h)
  BY <1>3
<1> HIDE DEF w
<1>5. \A i \in 0 .. N : w[i] = LET from == IF i = 0 THEN h ELSE w[i - 1]
                               IN  IF from \in ListHead THEN to[from] ELSE Null
  BY <1>4 DEF IsWalk, N
<1> DEFINE good == {i \in 0 .. Len(s) : w[i] = At(h, s, i + 1)}
<1>6. 0 .. Len(s) \subseteq good
  <2>1. 0 \in good
    <3>1. 0 \in 0 .. N /\ 0 \in 0 .. Len(s) /\ 0 \notin 1 .. Len(s)
      BY <1>2
    <3>2. w[0] = to[h]
      BY <1>2, <1>5, <3>1
    <3>3. to[At(h, s, 0)] = At(h, s, 0 + 1) /\ At(h, s, 0) = h
      BY <3>1 DEF Leads, At
    <3> QED
      BY <3>1, <3>2, <3>3
  <2>2. ASSUME NEW i \in 1 .. Len(s), i - 1 \in good  PROVE i \in good
    <3>1. i \in 0 .. N /\ i \in 0 .. Len(s) /\ i # 0 /\ (i - 1) + 1 = i
      BY <1>2
    <3>2. w[i - 1] = At(h, s, i)
      BY <2>2, <3>1
    <3>3. At(h, s, i) \in ListHead
      BY <1>2 DEF At
    <3>4. w[i] = to[At(h, s, i)]
      BY <1>5, <3>1, <3>2, <3>3
    <3>5. to[At(h, s, i)] = At(h, s, i + 1)
      BY <3>1 DEF Leads
    <3> QED
      BY <3>1, <3>4, <3>5
  <2> HIDE DEF good
  <2> QED
    BY <1>2, <2>1, <2>2, UpTo
<1>7. w[Len(s)] = h
  <2>1. Len(s) \in good /\ Len(s) + 1 \notin 1 .. Len(s)
    BY <1>2, <1>6
  <2> QED
    BY <2>1 DEF At
<1>8. \A i \in 1 .. Len(s) : w[i - 1] = s[i]
  <2> TAKE i \in 1 .. Len(s)
  <2>1. i - 1 \in good /\ (i - 1) + 1 = i
    BY <1>2, <1>6
  <2> QED
    BY <2>1 DEF At
<1>9. Len(s) \in back /\ back \subseteq Nat /\ \A i \in back : i >= Len(s)
  <2>1. \A i \in 0 .. N : i < Len(s) => i + 1 \in 1 .. Len(s) /\ (i + 1) - 1 = i
    BY <1>2
  <2>2. \A i \in 0 .. N : i < Len(s) => w[i] # h
    BY <1>2, <1>8, <2>1
  <2>3. Len(s) \in 0 .. N /\ \A i \in 0 .. N : i >= Len(s) \/ i < Len(s)
    BY <1>2
  <2> QED
    BY <1>2, <1>7, <2>2, <2>3
<1>10. Min(back) = Len(s) /\ back # {}
  <2> HIDE DEF back
  <2>1. Min(back) \in back /\ \A i \in back : Min(back) <= i
    BY <1>9, LeastOf
  <2> DEFINE m == Min(back)
  <2>2. m \in Nat /\ m <= Len(s) /\ m >= Len(s)
    BY <1>9, <2>1
  <2> HIDE DEF m
  <2>3. \A a, b \in Nat : a <= b /\ a >= b => a = b
    BY SMTT(40)
  <2>4. m = Len(s)
    BY ZenonT(40), <1>2, <2>2, <2>3
  <2> QED
    BY <1>9, <2>4 DEF m
<1>11. Walk(to, h) = [i \in 1 .. Len(s) |-> w[i - 1]]
  BY <1>1, <1>10
<1> QED
  BY <1>2, <1>8, <1>11

Links == [next : [ListHead -> ListHead \union {Null}], prev : [ListHead -> ListHead \union {Null}]]

\* The list of head h has the entries s, forwards and backwards.
Loop(l, h, s) ==
    /\ Entries(h, s) /\ Leads(l.next, h, s)
    /\ \A i \in 0 .. Len(s) : l.prev[At(h, s, i + 1)] = At(h, s, i)

OnLoop(h, s) == {h} \union Range(s)

LEMMA AtFacts ==
    ASSUME NEW h, NEW s, Entries(h, s)
    PROVE  /\ Len(s) \in Nat /\ At(h, s, 0) = h /\ At(h, s, Len(s) + 1) = h
           /\ \A i \in 1 .. Len(s) : At(h, s, i) = s[i]
           /\ \A i : At(h, s, i) \in OnLoop(h, s) /\ At(h, s, i) \in ListHead
           /\ \A i, j \in 0 .. Len(s) : At(h, s, i) = At(h, s, j) => i = j
           /\ \A i, j \in 1 .. Len(s) + 1 : At(h, s, i) = At(h, s, j) => i = j
           /\ OnLoop(h, s) = {At(h, s, i) : i \in 0 .. Len(s)}
<1>1. /\ Len(s) \in Nat /\ DOMAIN s = 1 .. Len(s) /\ h \in ListHead
      /\ \A i \in 1 .. Len(s) : s[i] \in ListHead /\ s[i] # h
      /\ \A i, j \in 1 .. Len(s) : s[i] = s[j] => i = j
  BY EntriesFit DEF Entries
<1> DEFINE n == Len(s)
<1> HIDE DEF n
<1>2. /\ n \in Nat /\ n = Len(s) /\ 0 \notin 1 .. n /\ n + 1 \notin 1 .. n
      /\ \A i \in 0 .. n : i = 0 \/ i \in 1 .. n
      /\ \A i \in 1 .. n + 1 : i = n + 1 \/ i \in 1 .. n
      /\ \A i \in 1 .. n : i \in 0 .. n
      /\ 0 \in 0 .. n
  BY <1>1 DEF n
<1>3. At(h, s, 0) = h /\ At(h, s, n + 1) = h /\ \A i \in 1 .. n : At(h, s, i) = s[i]
  BY <1>2 DEF At
<1>4. \A i : At(h, s, i) \in OnLoop(h, s) /\ At(h, s, i) \in ListHead
  BY <1>1, <1>2 DEF At, OnLoop, Range
<1>5. \A i, j \in 0 .. n : At(h, s, i) = At(h, s, j) => i = j
  BY <1>1, <1>2, <1>3
<1>6. \A i, j \in 1 .. n + 1 : At(h, s, i) = At(h, s, j) => i = j
  BY <1>1, <1>2, <1>3
<1>7. OnLoop(h, s) = {At(h, s, i) : i \in 0 .. n}
  <2>1. ASSUME NEW x \in OnLoop(h, s)  PROVE \E i \in 0 .. n : x = At(h, s, i)
    BY <1>1, <1>2, <1>3 DEF OnLoop, Range
  <2> QED
    BY <1>4, <2>1
<1> QED
  BY <1>2, <1>3, <1>4, <1>5, <1>6, <1>7

\* Walks along a closed list find it in both directions.
LEMMA LoopWalks ==
    ASSUME NEW l \in Links, NEW h, NEW s, Loop(l, h, s)
    PROVE  Walk(l.next, h) = s /\ Walk(l.prev, h) = Reverse(s)
<1>1. /\ l.next \in [ListHead -> ListHead \union {Null}]
      /\ l.prev \in [ListHead -> ListHead \union {Null}]
  BY DEF Links
<1>2. Entries(h, s) /\ Leads(l.next, h, s) /\ \A i \in 0 .. Len(s) : l.prev[At(h, s, i + 1)] = At(h, s, i)
  BY DEF Loop
<1>3. Walk(l.next, h) = s
  BY <1>1, <1>2, WalkIs
<1> DEFINE r == Reverse(s)
           n == Len(s)
<1> HIDE DEF n
<1>4. /\ n \in Nat /\ n = Len(s) /\ DOMAIN s = 1 .. n
      /\ \A i \in 1 .. n : s[i] \in ListHead /\ s[i] # h
      /\ \A i, j \in 1 .. n : s[i] = s[j] => i = j
      /\ h \in ListHead
  BY <1>2, EntriesFit DEF n, Entries
<1>5. /\ \A i \in 1 .. n : n - i + 1 \in 1 .. n /\ n - (n - i + 1) + 1 = i
      /\ \A i, j \in 1 .. n : n - i + 1 = n - j + 1 => i = j
  BY <1>4
<1>6. /\ r \in Seq(ListHead) /\ Len(r) = n /\ DOMAIN r = 1 .. n
      /\ \A i \in 1 .. n : r[i] = s[n - i + 1]
  BY <1>4, <1>5 DEF Reverse
<1> HIDE DEF r
<1>7. Entries(h, r)
  <2>1. \A i \in 1 .. n : r[i] # h
    BY <1>4, <1>5, <1>6
  <2>2. h \notin Range(r)
    BY <1>6, <2>1 DEF Range
  <2>3. ASSUME NEW i \in 1 .. n, NEW j \in 1 .. n, r[i] = r[j]  PROVE i = j
    BY SMTT(40), <1>4, <1>5, <1>6, <2>3
  <2>4. IsInjective(r)
    BY <1>6, <2>3 DEF IsInjective
  <2> QED
    BY <1>4, <1>6, <2>2, <2>4 DEF Entries
<1>8. \A i \in 0 .. n + 1 : At(h, r, i) = At(h, s, n + 1 - i)
  <2> TAKE i \in 0 .. n + 1
  <2>1. CASE i \in 1 .. n
    <3>1. n + 1 - i = n - i + 1 /\ n - i + 1 \in 1 .. n
      BY <1>4, <2>1
    <3> QED
      BY <1>4, <1>6, <2>1, <3>1 DEF At
  <2>2. CASE i \notin 1 .. n
    <3>1. n + 1 - i \notin 1 .. n
      BY <1>4, <2>2
    <3> QED
      BY <1>4, <1>6, <2>2, <3>1 DEF At
  <2> QED
    BY <2>1, <2>2
<1>9. Leads(l.prev, h, r)
  <2> SUFFICES ASSUME NEW i \in 0 .. n  PROVE l.prev[At(h, r, i)] = At(h, r, i + 1)
    BY <1>6 DEF Leads
  <2>1. i \in 0 .. n + 1 /\ i + 1 \in 0 .. n + 1 /\ n - i \in 0 .. n
        /\ n + 1 - i = (n - i) + 1 /\ n + 1 - (i + 1) = n - i
    BY <1>4
  <2>2. At(h, r, i) = At(h, s, (n - i) + 1) /\ At(h, r, i + 1) = At(h, s, n - i)
    BY <1>8, <2>1
  <2> QED
    BY <1>2, <1>4, <2>1, <2>2
<1>10. Walk(l.prev, h) = r
  BY <1>1, <1>7, <1>9, WalkIs
<1> QED
  BY <1>3, <1>10 DEF r

\* A list that nobody writes to stays as it is.
LEMMA LoopKept ==
    ASSUME NEW l, NEW m, NEW h, NEW s, Loop(l, h, s),
           \A x \in OnLoop(h, s) : m.next[x] = l.next[x] /\ m.prev[x] = l.prev[x]
    PROVE  Loop(m, h, s)
<1>1. Entries(h, s)
  BY DEF Loop
<1>2. \A i : At(h, s, i) \in OnLoop(h, s)
  BY <1>1, AtFacts
<1> QED
  BY <1>2 DEF Loop, Leads

\* Who writes to the entries of one list only.
Elsewhere(l, m, X) == \A x \in ListHead \ X : m.next[x] = l.next[x] /\ m.prev[x] = l.prev[x]

\* What the stores of list_head's functions write.
LEMMA NextWritten ==
    ASSUME NEW l \in Links, NEW a \in ListHead, NEW b \in ListHead \union {Null}
    PROVE  LET m == [l EXCEPT !.next[a] = b]
           IN  /\ m \in Links /\ m.prev = l.prev
               /\ \A x \in ListHead : m.next[x] = IF x = a THEN b ELSE l.next[x]
BY DEF Links

LEMMA PrevWritten ==
    ASSUME NEW l \in Links, NEW a \in ListHead, NEW b \in ListHead \union {Null}
    PROVE  LET m == [l EXCEPT !.prev[a] = b]
           IN  /\ m \in Links /\ m.next = l.next
               /\ \A x \in ListHead : m.prev[x] = IF x = a THEN b ELSE l.prev[x]
BY DEF Links

LEMMA UnlinkWrites ==
    ASSUME NEW l \in Links, NEW x \in ListHead, NEW y \in ListHead
    PROVE  LET m == Unlink(l, x, y)
           IN  /\ m \in Links
               /\ \A z \in ListHead : /\ m.next[z] = IF z = x THEN y ELSE l.next[z]
                                      /\ m.prev[z] = IF z = y THEN x ELSE l.prev[z]
<1> DEFINE k == [l EXCEPT !.prev[y] = x]
           m == [k EXCEPT !.next[x] = y]
<1>1. Unlink(l, x, y) = m
  BY DEF Unlink
<1>2. k \in Links /\ k.next = l.next /\ \A z \in ListHead : k.prev[z] = IF z = y THEN x ELSE l.prev[z]
  BY PrevWritten
<1> HIDE DEF k
<1>3. m \in Links /\ m.prev = k.prev /\ \A z \in ListHead : m.next[z] = IF z = x THEN y ELSE k.next[z]
  BY <1>2, NextWritten
<1> HIDE DEF m
<1>4. \A z \in ListHead : m.next[z] = IF z = x THEN y ELSE l.next[z]
  BY <1>2, <1>3
<1>5. \A z \in ListHead : m.prev[z] = IF z = y THEN x ELSE l.prev[z]
  BY <1>2, <1>3
<1> QED
  BY ONLY <1>1, <1>3, <1>4, <1>5

LEMMA InitWrites ==
    ASSUME NEW l \in Links, NEW x \in ListHead
    PROVE  LET m == InitListHead(l, x)
           IN  m \in Links /\ Elsewhere(l, m, {x})
<1> DEFINE k == [l EXCEPT !.next[x] = x]
           m == [k EXCEPT !.prev[x] = x]
<1>1. InitListHead(l, x) = m
  BY DEF InitListHead
<1>2. k \in Links /\ k.prev = l.prev /\ \A z \in ListHead : k.next[z] = IF z = x THEN x ELSE l.next[z]
  BY NextWritten
<1> HIDE DEF k
<1>3. m \in Links /\ m.next = k.next /\ \A z \in ListHead : m.prev[z] = IF z = x THEN x ELSE k.prev[z]
  BY <1>2, PrevWritten
<1> HIDE DEF m
<1> QED
  BY <1>1, <1>2, <1>3 DEF Elsewhere

LEMMA AddWrites ==
    ASSUME NEW l \in Links, NEW x \in ListHead, NEW y \in ListHead, NEW e \in ListHead
    PROVE  LET m == ListAddBetween(l, e, x, y)
           IN  /\ m \in Links
               /\ \A z \in ListHead :
                     /\ m.next[z] = IF z = x THEN e ELSE IF z = e THEN y ELSE l.next[z]
                     /\ m.prev[z] = IF z = e THEN x ELSE IF z = y THEN e ELSE l.prev[z]
<1> DEFINE m1 == [l EXCEPT !.prev[y] = e]
           m2 == [m1 EXCEPT !.next[e] = y]
           m3 == [m2 EXCEPT !.prev[e] = x]
           m == [m3 EXCEPT !.next[x] = e]
<1>1. ListAddBetween(l, e, x, y) = m
  BY DEF ListAddBetween
<1>2. m1 \in Links /\ m1.next = l.next /\ \A z \in ListHead : m1.prev[z] = IF z = y THEN e ELSE l.prev[z]
  BY PrevWritten
<1> HIDE DEF m1
<1>3. m2 \in Links /\ m2.prev = m1.prev /\ \A z \in ListHead : m2.next[z] = IF z = e THEN y ELSE m1.next[z]
  BY <1>2, NextWritten
<1> HIDE DEF m2
<1>4. m3 \in Links /\ m3.next = m2.next /\ \A z \in ListHead : m3.prev[z] = IF z = e THEN x ELSE m2.prev[z]
  BY <1>3, PrevWritten
<1> HIDE DEF m3
<1>5. m \in Links /\ m.prev = m3.prev /\ \A z \in ListHead : m.next[z] = IF z = x THEN e ELSE m3.next[z]
  BY <1>4, NextWritten
<1> HIDE DEF m
<1> QED
  BY <1>1, <1>2, <1>3, <1>4, <1>5

\* __list_del() takes an entry off its list.
LEMMA Unlinked ==
    ASSUME NEW l \in Links, NEW h, NEW s, Loop(l, h, s), NEW j \in 1 .. Len(s)
    PROVE  LET m == Unlink(l, l.prev[s[j]], l.next[s[j]])
           IN  /\ m \in Links /\ Loop(m, h, RemoveAt(s, j))
               /\ Elsewhere(l, m, OnLoop(h, s))
<1> DEFINE before == At(h, s, j - 1)
           after == At(h, s, j + 1)
           t == RemoveAt(s, j)
           n == Len(s)
           m == Unlink(l, before, after)
<1>1. /\ Entries(h, s)
      /\ \A i \in 0 .. Len(s) : l.next[At(h, s, i)] = At(h, s, i + 1)
      /\ \A i \in 0 .. Len(s) : l.prev[At(h, s, i + 1)] = At(h, s, i)
  BY DEF Loop, Leads
<1>2. /\ Len(s) \in Nat /\ At(h, s, 0) = h /\ At(h, s, Len(s) + 1) = h
      /\ \A i \in 1 .. Len(s) : At(h, s, i) = s[i]
      /\ \A i : At(h, s, i) \in OnLoop(h, s) /\ At(h, s, i) \in ListHead
      /\ \A i, k \in 0 .. Len(s) : At(h, s, i) = At(h, s, k) => i = k
      /\ \A i, k \in 1 .. Len(s) + 1 : At(h, s, i) = At(h, s, k) => i = k
  <2>1. Entries(h, s)
    BY <1>1
  <2> QED
    BY ONLY <2>1, AtFacts
<1> HIDE DEF n, m, t
<1>3. /\ n \in Nat /\ n = Len(s) /\ j \in 1 .. n /\ j \in Nat /\ j - 1 \in 0 .. n
      /\ j \in 0 .. n /\ (j - 1) + 1 = j
  BY <1>2 DEF n
<1>4. before = l.prev[s[j]] /\ after = l.next[s[j]]
  BY <1>1, <1>2, <1>3
<1>5. /\ t \in Seq(ListHead) /\ Len(t) = n - 1 /\ s \in Seq(ListHead)
      /\ \A i \in 1 .. n - 1 : t[i] = IF i < j THEN s[i] ELSE s[i + 1]
      /\ h \notin Range(t) /\ IsInjective(t) /\ Range(t) \subseteq Range(s)
  <2>1. s \in Seq(ListHead) /\ h \notin Range(s) /\ IsInjective(s) /\ DOMAIN s = 1 .. n
    BY <1>1, <1>3, EntriesFit DEF Entries
  <2>2. j \in DOMAIN s
    BY <1>3, <2>1
  <2>3. /\ t \in Seq(ListHead) /\ Len(t) = n - 1
        /\ \A i \in DOMAIN t : /\ i \in Nat
                               /\ t[i] = IF i < j THEN s[i] ELSE s[i + 1]
                               /\ (IF i < j THEN i ELSE i + 1) \in DOMAIN s
    BY <1>3, <2>1, <2>2, Removed DEF t
  <2>4. DOMAIN t = 1 .. n - 1
    BY <2>3, LenProperties
  <2>5. Range(t) \subseteq Range(s)
    BY <2>3 DEF Range
  <2>6. ASSUME NEW i \in DOMAIN t, NEW k \in DOMAIN t, t[i] = t[k]  PROVE i = k
    <3> DEFINE up(x) == IF x < j THEN x ELSE x + 1
    <3>1. up(i) \in DOMAIN s /\ up(k) \in DOMAIN s /\ s[up(i)] = s[up(k)] /\ i \in Nat /\ k \in Nat
      BY <2>3, <2>6
    <3>2. up(i) = up(k)
      <4> HIDE DEF up
      <4> QED
        BY <2>1, <3>1 DEF IsInjective
    <3> QED
      BY <1>3, <3>1, <3>2
  <2>7. IsInjective(t)
    BY <2>6 DEF IsInjective
  <2> QED
    BY <2>1, <2>3, <2>4, <2>5, <2>7
<1>6. Entries(h, t)
  <2>1. h \in ListHead
    BY <1>1 DEF Entries
  <2> QED
    BY <1>5, <2>1 DEF Entries
<1>7. \A i \in 0 .. n : At(h, t, i) = IF i < j THEN At(h, s, i) ELSE At(h, s, i + 1)
  <2> TAKE i \in 0 .. n
  <2>1. CASE i \in 1 .. n - 1
    <3>1. i \in 1 .. n /\ i + 1 \in 1 .. n
      BY <1>3, <2>1
    <3> QED
      BY <1>3, <1>5, <2>1, <3>1 DEF At
  <2>2. CASE i = 0
    <3>1. i < j /\ i \notin 1 .. n - 1 /\ i \notin 1 .. n
      BY <1>3, <2>2
    <3> QED
      BY <1>3, <1>5, <2>2, <3>1 DEF At
  <2>3. CASE i = n /\ i # 0
    <3>1. ~(i < j) /\ i \notin 1 .. n - 1 /\ i + 1 \notin 1 .. n
      BY <1>3, <2>3
    <3> QED
      BY <1>3, <1>5, <2>3, <3>1 DEF At
  <2>4. i \in 1 .. n - 1 \/ i = 0 \/ i = n
    BY <1>3
  <2> QED
    BY <2>1, <2>2, <2>3, <2>4
<1>8. before \in ListHead /\ after \in ListHead /\ before \in OnLoop(h, s) /\ after \in OnLoop(h, s)
  BY <1>2
<1> HIDE DEF before, after
<1>10. /\ m \in Links
       /\ \A x \in ListHead : /\ m.next[x] = IF x = before THEN after ELSE l.next[x]
                              /\ m.prev[x] = IF x = after THEN before ELSE l.prev[x]
  BY <1>8, UnlinkWrites DEF m
<1>11. Elsewhere(l, m, OnLoop(h, s))
  <2>1. \A x \in ListHead \ OnLoop(h, s) : x \in ListHead /\ x # before /\ x # after
    BY <1>8
  <2> QED
    BY ONLY <1>10, <2>1 DEF Elsewhere
<1>13. \A i \in 0 .. n : /\ m.next[At(h, s, i)] = IF i = j - 1 THEN At(h, s, j + 1) ELSE At(h, s, i + 1)
                         /\ m.prev[At(h, s, i + 1)] = IF i = j THEN At(h, s, j - 1) ELSE At(h, s, i)
  <2> TAKE i \in 0 .. n
  <2>1. i + 1 \in 1 .. n + 1 /\ j + 1 \in 1 .. n + 1 /\ (i + 1 = j + 1 <=> i = j)
    BY <1>3
  <2>2. At(h, s, i) = before <=> i = j - 1
    BY <1>2, <1>3 DEF before
  <2>3. At(h, s, i + 1) = after <=> i = j
    BY <1>2, <1>3, <2>1 DEF after
  <2>4. At(h, s, i) \in ListHead /\ At(h, s, i + 1) \in ListHead
    BY <1>2
  <2>5. m.next[At(h, s, i)] = IF i = j - 1 THEN after ELSE l.next[At(h, s, i)]
    BY ONLY <1>10, <2>2, <2>4
  <2>6. m.prev[At(h, s, i + 1)] = IF i = j THEN before ELSE l.prev[At(h, s, i + 1)]
    BY ONLY <1>10, <2>3, <2>4
  <2>7. i \in 0 .. Len(s)
    BY <1>3
  <2> QED
    BY <1>1, <2>5, <2>6, <2>7 DEF before, after
<1>14. ASSUME NEW i \in 0 .. Len(t)
       PROVE  m.next[At(h, t, i)] = At(h, t, i + 1) /\ m.prev[At(h, t, i + 1)] = At(h, t, i)
  <2>2. i \in 0 .. n - 1 /\ i \in 0 .. n /\ i + 1 \in 0 .. n
    BY <1>3, <1>5
  <2>3. CASE i + 1 < j
    <3>1. i < j /\ i # j - 1 /\ i # j
      BY <1>3, <2>2, <2>3
    <3>2. At(h, t, i) = At(h, s, i) /\ At(h, t, i + 1) = At(h, s, i + 1)
      BY <1>7, <2>2, <2>3, <3>1
    <3> QED
      BY <1>13, <2>2, <3>1, <3>2
  <2>4. CASE i + 1 = j
    <3>1. i < j /\ i = j - 1 /\ ~(i + 1 < j)
      BY <1>3, <2>2, <2>4
    <3>2. At(h, t, i) = At(h, s, j - 1) /\ At(h, t, i + 1) = At(h, s, j + 1)
      BY <1>7, <2>2, <2>4, <3>1
    <3> QED
      BY <1>3, <1>13, <3>2
  <2>5. CASE i + 1 > j
    <3>1. ~(i < j) /\ ~(i + 1 < j) /\ i + 1 # j - 1 /\ i + 1 # j /\ (i + 1) + 1 = i + 2
      BY <1>3, <2>2, <2>5
    <3>2. At(h, t, i) = At(h, s, i + 1) /\ At(h, t, i + 1) = At(h, s, (i + 1) + 1)
      BY <1>7, <2>2, <3>1
    <3> QED
      BY <1>13, <2>2, <3>1, <3>2
  <2> QED
    BY <1>3, <2>2, <2>3, <2>4, <2>5
<1>15. Loop(m, h, t)
  BY <1>6, <1>14 DEF Loop, Leads
<1> QED
  BY <1>4, <1>10, <1>11, <1>15 DEF m, t

\* list_add_tail() puts an entry that is on no list behind the others.
LEMMA Tailed ==
    ASSUME NEW l \in Links, NEW h, NEW s, Loop(l, h, s),
           NEW e \in ListHead, e \notin OnLoop(h, s)
    PROVE  LET m == ListAddTail(l, e, h)
           IN  /\ m \in Links /\ Loop(m, h, Append(s, e))
               /\ Elsewhere(l, m, OnLoop(h, s) \union {e})
<1> DEFINE n == Len(s)
           before == At(h, s, n)
           t == Append(s, e)
           m == ListAddBetween(l, e, before, h)
<1>1. /\ Entries(h, s)
      /\ \A i \in 0 .. n : l.next[At(h, s, i)] = At(h, s, i + 1)
      /\ \A i \in 0 .. n : l.prev[At(h, s, i + 1)] = At(h, s, i)
  BY DEF Loop, Leads
<1>2. /\ n \in Nat /\ At(h, s, 0) = h /\ At(h, s, n + 1) = h
      /\ \A i \in 1 .. n : At(h, s, i) = s[i]
      /\ \A i : At(h, s, i) \in OnLoop(h, s) /\ At(h, s, i) \in ListHead
      /\ \A i, k \in 0 .. n : At(h, s, i) = At(h, s, k) => i = k
      /\ \A i, k \in 1 .. n + 1 : At(h, s, i) = At(h, s, k) => i = k
  <2>1. Entries(h, s)
    BY <1>1
  <2> QED
    BY ONLY <2>1, AtFacts
<1>3. /\ s \in Seq(ListHead) /\ h \in ListHead /\ h \notin Range(s) /\ IsInjective(s)
      /\ DOMAIN s = 1 .. n /\ OnLoop(h, s) = {h} \union Range(s)
  BY <1>1, EntriesFit DEF Entries, OnLoop
<1>4. /\ t \in Seq(ListHead) /\ Len(t) = n + 1 /\ t[n + 1] = e
      /\ \A i \in 1 .. n : t[i] = s[i]
      /\ DOMAIN t = 1 .. n + 1
  BY <1>2, <1>3
<1> HIDE DEF t, m
<1>5. \A i \in 1 .. n + 1 : i = n + 1 \/ i \in 1 .. n
  BY <1>2
<1>6. Entries(h, t)
  <2>1. \A i \in 1 .. n : s[i] # e /\ s[i] # h
    BY <1>3 DEF Range
  <2>2. e # h
    BY <1>3
  <2>3. h \notin Range(t)
    BY <1>4, <1>5, <2>1, <2>2 DEF Range
  <2>4. \A i, k \in 1 .. n : s[i] = s[k] => i = k
    BY <1>3 DEF IsInjective
  <2> HIDE DEF n
  <2>5. ASSUME NEW i \in 1 .. n + 1, NEW k \in 1 .. n + 1, t[i] = t[k]  PROVE i = k
    BY <1>4, <1>5, <2>1, <2>4, <2>5
  <2>6. IsInjective(t)
    BY <1>4, <2>5 DEF IsInjective
  <2> QED
    BY <1>3, <1>4, <2>3, <2>6 DEF Entries
<1>7. \A i \in 0 .. n : At(h, t, i) = At(h, s, i)
  <2> HIDE DEF n
  <2>1. \A i \in 1 .. Len(s) : i \in 1 .. Len(t) /\ i \in 1 .. n
    BY <1>2, <1>4 DEF n
  <2>2. \A i \in 0 .. n : i \in 1 .. Len(s) \/ (i = 0 /\ i \notin 1 .. Len(s) /\ i \notin 1 .. Len(t))
    BY <1>2, <1>4 DEF n
  <2> QED
    BY <1>4, <2>1, <2>2 DEF At
<1>8. At(h, t, n + 1) = e /\ At(h, t, n + 1 + 1) = h
  <2> HIDE DEF n
  <2>1. n + 1 \in 1 .. Len(t) /\ n + 1 + 1 \notin 1 .. Len(t)
    BY <1>2, <1>4
  <2> QED
    BY <1>4, <2>1 DEF At
<1>9. before = l.prev[h] /\ before \in ListHead /\ before \in OnLoop(h, s) /\ e # before /\ e # h
  <2>1. n \in 0 .. n
    BY <1>2
  <2> QED
    BY <1>1, <1>2, <1>3, <2>1
<1>10. ListAddTail(l, e, h) = m
  BY <1>9 DEF ListAddTail, m
<1>11. /\ m \in Links
       /\ \A z \in ListHead :
             /\ m.next[z] = IF z = before THEN e ELSE IF z = e THEN h ELSE l.next[z]
             /\ m.prev[z] = IF z = e THEN before ELSE IF z = h THEN e ELSE l.prev[z]
  <2> HIDE DEF before
  <2>1. before \in ListHead /\ h \in ListHead /\ e \in ListHead /\ l \in Links
    BY <1>3, <1>9
  <2> QED
    BY ONLY <2>1, AddWrites DEF m
<1>12. Elsewhere(l, m, OnLoop(h, s) \union {e})
  <2>1. \A z \in ListHead \ (OnLoop(h, s) \union {e}) : z \in ListHead /\ z # before /\ z # h /\ z # e
    BY <1>3, <1>9
  <2> QED
    BY ONLY <1>11, <2>1 DEF Elsewhere
<1>13. ASSUME NEW i \in 0 .. n + 1
       PROVE  m.next[At(h, t, i)] = At(h, t, i + 1) /\ m.prev[At(h, t, i + 1)] = At(h, t, i)
  <2>1. CASE i \in 0 .. n /\ i # n
    <3>1. i \in 0 .. n /\ i + 1 \in 0 .. n /\ n \in 0 .. n /\ i + 1 \in 1 .. n + 1 /\ n + 1 \in 1 .. n + 1
          /\ i + 1 # n + 1
      BY <1>2, <2>1
    <3>2. At(h, s, i) # before /\ At(h, s, i) # e /\ At(h, s, i) \in ListHead
      BY <1>2, <2>1, <3>1
    <3>3. At(h, s, i + 1) # h /\ At(h, s, i + 1) # e /\ At(h, s, i + 1) \in ListHead
      BY <1>2, <3>1
    <3>4. m.next[At(h, s, i)] = l.next[At(h, s, i)] /\ m.prev[At(h, s, i + 1)] = l.prev[At(h, s, i + 1)]
      <4> HIDE DEF before
      <4> QED
        BY ONLY <1>11, <3>2, <3>3
    <3> QED
      BY <1>1, <1>7, <3>1, <3>4
  <2>2. CASE i = n
    <3>1. n \in 0 .. n /\ At(h, t, i) = before /\ At(h, t, i + 1) = e
      BY <1>2, <1>7, <1>8, <2>2
    <3> HIDE DEF before
    <3> QED
      BY <1>9, <1>11, <3>1
  <2>3. CASE i = n + 1
    <3>1. At(h, t, i) = e /\ At(h, t, i + 1) = h /\ h \in ListHead
      BY <1>3, <1>8, <2>3
    <3> HIDE DEF before
    <3> QED
      BY ONLY <1>9, <1>11, <3>1, e \in ListHead
  <2>4. i \in 0 .. n \/ i = n + 1
    BY <1>2
  <2> QED
    BY <2>1, <2>2, <2>3, <2>4
<1>14. Loop(m, h, t)
  <2> HIDE DEF n
  <2> QED
    BY <1>4, <1>6, <1>13 DEF Loop, Leads
<1> QED
  BY <1>10, <1>11, <1>12, <1>14 DEF t
-----------------------------------------------------------------------------
(* The lists of the directory cache *)

Heads == {Lru} \union (Bucket \X {"bucket"})

LEMMA HeadsApart ==
    /\ Heads \subseteq ListHead /\ Lru \in Heads /\ \A b \in Bucket : <<b, "bucket">> \in Heads
    /\ \A b \in Bucket : <<b, "bucket">> # Lru
    /\ \A b, c \in Bucket : <<b, "bucket">> = <<c, "bucket">> => b = c
    /\ \A h \in Heads : h = Lru \/ \E b \in Bucket : h = <<b, "bucket">>
    /\ \A d \in Dentry : HashHead(d) \in ListHead /\ LruHead(d) \in ListHead
    /\ \A d \in Dentry : HashHead(d) \notin Heads /\ LruHead(d) \notin Heads
    /\ \A d, e \in Dentry : /\ HashHead(d) # LruHead(e)
                            /\ HashHead(d) = HashHead(e) => d = e
                            /\ LruHead(d) = LruHead(e) => d = e
    /\ \A d \in Dentry : HashHead(d)[2] = d /\ LruHead(d)[2] = d
<1>1. /\ \A a, b, c : Len(<<a>>) = 1 /\ Len(<<b, c>>) = 2 /\ <<b, c>>[1] = b /\ <<b, c>>[2] = c
      /\ "d_hash" # "d_lru"
  OBVIOUS
<1>2. \A a, b, c : <<a>> # <<b, c>>
  BY <1>1
<1>3. \A a, b, c, d : <<a, b>> = <<c, d>> => a = c /\ b = d
  BY <1>1
<1>4. "d_hash" \notin Bucket /\ "d_lru" \notin Bucket
  BY DCSizes
<1>5. \A h \in Heads : h = Lru \/ \E b \in Bucket : h = <<b, "bucket">>
  BY DEF Heads
<1>6. \A d \in Dentry : HashHead(d) \notin Heads /\ LruHead(d) \notin Heads
  BY <1>2, <1>3, <1>4, <1>5 DEF HashHead, LruHead, Lru
<1>7. /\ Heads \subseteq ListHead /\ Lru \in Heads /\ \A b \in Bucket : <<b, "bucket">> \in Heads
      /\ \A d \in Dentry : HashHead(d) \in ListHead /\ LruHead(d) \in ListHead
  BY DEF Heads, ListHead
<1>8. \A b \in Bucket : <<b, "bucket">> # Lru
  BY <1>2 DEF Lru
<1>9. \A b, c \in Bucket : <<b, "bucket">> = <<c, "bucket">> => b = c
  BY <1>3
<1>10. \A d, e \in Dentry : /\ HashHead(d) # LruHead(e)
                            /\ HashHead(d) = HashHead(e) => d = e
                            /\ LruHead(d) = LruHead(e) => d = e
  BY <1>1, <1>3 DEF HashHead, LruHead
<1>11. \A d \in Dentry : HashHead(d)[2] = d /\ LruHead(d)[2] = d
  BY <1>1 DEF HashHead, LruHead
<1> QED
  BY <1>5, <1>6, <1>7, <1>8, <1>9, <1>10, <1>11

\* An entry taken off a list of different entries is no longer on it.
LEMMA RemovedRange ==
    ASSUME NEW S, NEW s \in Seq(S), IsInjective(s), NEW j \in 1 .. Len(s)
    PROVE  Range(RemoveAt(s, j)) = Range(s) \ {s[j]} /\ s[j] \in Range(s)
<1> DEFINE t == RemoveAt(s, j)
<1>1. DOMAIN s = 1 .. Len(s) /\ Len(s) \in Nat /\ j \in Nat
  BY LenProperties
<1>2. /\ \A i \in DOMAIN t : /\ i \in Nat
                             /\ t[i] = IF i < j THEN s[i] ELSE s[i + 1]
                             /\ (IF i < j THEN i ELSE i + 1) \in DOMAIN s
      /\ \A i \in DOMAIN s : i # j =>
            LET at == IF i < j THEN i ELSE i - 1
            IN  at \in DOMAIN t /\ t[at] = s[i]
  <2>1. j \in DOMAIN s /\ s \in Seq(S)
    BY <1>1
  <2> HIDE DEF t
  <2> QED
    BY ONLY <2>1, Removed DEF t
<1> HIDE DEF t
<1>3. ASSUME NEW x \in Range(t)  PROVE x \in Range(s) \ {s[j]}
  <2>1. PICK i \in DOMAIN t : x = t[i]
    BY DEF Range
  <2> DEFINE k == IF i < j THEN i ELSE i + 1
  <2>2. k \in DOMAIN s /\ x = s[k] /\ k # j
    BY <1>1, <1>2, <2>1
  <2>3. s[k] # s[j]
    BY <1>1, <2>2 DEF IsInjective
  <2> QED
    BY <2>2, <2>3 DEF Range
<1>4. ASSUME NEW x \in Range(s), x # s[j]  PROVE x \in Range(t)
  <2>1. PICK i \in DOMAIN s : x = s[i]
    BY DEF Range
  <2>2. i # j
    BY <1>4, <2>1
  <2>3. \E at \in DOMAIN t : t[at] = s[i]
    BY <1>2, <2>2
  <2> QED
    BY <2>1, <2>3 DEF Range
<1>5. s[j] \in Range(s)
  BY <1>1 DEF Range
<1> QED
  BY <1>3, <1>4, <1>5 DEF t

\* list_del() and list_del_init() take an entry off its list; only its neighbours and
\* itself are written to.
LEMMA Deleted ==
    ASSUME NEW l \in Links, NEW h, NEW s, Loop(l, h, s), NEW j \in 1 .. Len(s),
           NEW m \in {ListDel(l, s[j]), ListDelInit(l, s[j])}
    PROVE  m \in Links /\ Loop(m, h, RemoveAt(s, j)) /\ Elsewhere(l, m, OnLoop(h, s))
<1> DEFINE e == s[j]
           k == Unlink(l, l.prev[e], l.next[e])
           t == RemoveAt(s, j)
<1>1. k \in Links /\ Loop(k, h, t) /\ Elsewhere(l, k, OnLoop(h, s))
  BY Unlinked
<1>2. s \in Seq(ListHead) /\ IsInjective(s) /\ h \notin Range(s) /\ h \in ListHead
  BY DEF Loop, Entries
<1>3. Range(t) = Range(s) \ {e} /\ e \in Range(s) /\ e \in ListHead
  <2>1. s[j] \in ListHead
    BY <1>2
  <2> QED
    BY <1>2, <2>1, RemovedRange
<1>4. e \notin OnLoop(h, t) /\ e \in OnLoop(h, s) /\ OnLoop(h, t) \subseteq ListHead
  <2>1. Entries(h, t)
    BY <1>1 DEF Loop
  <2> HIDE DEF t, e
  <2>2. t \in Seq(ListHead)
    BY <2>1 DEF Entries
  <2>3. Range(t) \subseteq ListHead
    BY <2>2, RangeOfSeq
  <2> QED
    BY <1>2, <1>3, <2>3 DEF OnLoop
<1>5. m \in Links /\ Elsewhere(k, m, {e})
  <2>1. CASE m = ListDelInit(l, e)
    <3>1. m = InitListHead(k, e)
      BY <2>1 DEF ListDelInit
    <3> HIDE DEF k, e
    <3> QED
      BY ONLY <1>1, <1>3, <3>1, InitWrites
  <2>2. CASE m = ListDel(l, e)
    <3> DEFINE n == [k EXCEPT !.next[e] = Null]
               o == [n EXCEPT !.prev[e] = Null]
    <3>1. m = o
      BY <2>2 DEF ListDel
    <3> HIDE DEF k, e
    <3>2. /\ n \in Links /\ n.prev = k.prev
          /\ \A x \in ListHead : n.next[x] = IF x = e THEN Null ELSE k.next[x]
      BY <1>1, <1>3, NextWritten
    <3> HIDE DEF n
    <3>3. /\ o \in Links /\ o.next = n.next
          /\ \A x \in ListHead : o.prev[x] = IF x = e THEN Null ELSE n.prev[x]
      BY <1>1, <1>3, <3>2, PrevWritten
    <3> HIDE DEF o
    <3> QED
      BY ONLY <3>1, <3>2, <3>3 DEF Elsewhere
  <2> QED
    BY <2>1, <2>2
<1> HIDE DEF k, e, t
<1>6. Loop(m, h, t)
  <2>1. \A x \in OnLoop(h, t) : x \in ListHead \ {e}
    BY <1>4
  <2>2. \A x \in OnLoop(h, t) : m.next[x] = k.next[x] /\ m.prev[x] = k.prev[x]
    BY <1>5, <2>1 DEF Elsewhere
  <2> QED
    BY ONLY <1>1, <2>2, LoopKept
<1>7. Elsewhere(l, m, OnLoop(h, s))
  BY <1>1, <1>4, <1>5 DEF Elsewhere
<1> QED
  BY <1>5, <1>6, <1>7 DEF t

\* All lists: ch[h] are the entries of the list of head h.
AllLoops(l, ch) ==
    /\ l \in Links /\ ch = [h \in Heads |-> ch[h]]
    /\ \A h \in Heads : Loop(l, h, ch[h])

\* What is written to one list leaves the others alone.
LEMMA OneChanged ==
    ASSUME NEW l, NEW ch, AllLoops(l, ch), NEW h \in Heads, NEW m \in Links, NEW t, Loop(m, h, t),
           NEW X, Elsewhere(l, m, X), \A g \in Heads \ {h} : OnLoop(g, ch[g]) \cap X = {}
    PROVE  AllLoops(m, [ch EXCEPT ![h] = t])
<1> DEFINE new == [ch EXCEPT ![h] = t]
<1>1. \A g \in Heads : new[g] = IF g = h THEN t ELSE ch[g]
  BY DEF AllLoops
<1>2. new = [g \in Heads |-> new[g]]
  BY DEF AllLoops
<1> HIDE DEF new
<1>3. ASSUME NEW g \in Heads, g # h  PROVE Loop(m, g, ch[g])
  <2>1. Loop(l, g, ch[g])
    BY DEF AllLoops
  <2>2. Entries(g, ch[g])
    BY <2>1 DEF Loop
  <2>3. \A x \in OnLoop(g, ch[g]) : x \in ListHead
    <3>1. ch[g] \in Seq(ListHead) /\ g \in ListHead
      BY <2>2 DEF Entries
    <3>2. Range(ch[g]) \subseteq ListHead
      BY <3>1, RangeOfSeq
    <3> QED
      BY <3>1, <3>2 DEF OnLoop
  <2>4. \A x \in OnLoop(g, ch[g]) : x \in ListHead \ X
    BY <1>3, <2>3
  <2>5. \A x \in OnLoop(g, ch[g]) : m.next[x] = l.next[x] /\ m.prev[x] = l.prev[x]
    BY <2>4 DEF Elsewhere
  <2> QED
    BY ONLY <2>1, <2>5, LoopKept
<1> QED
  BY <1>1, <1>2, <1>3 DEF AllLoops, new

\* No list_head is on two lists.
Apart(ch) == \A g, h \in Heads : g # h => OnLoop(g, ch[g]) \cap OnLoop(h, ch[h]) = {}

\* On no list.
Off(e, ch) == \A g \in Heads : e \notin OnLoop(g, ch[g])

\* The heads of lists are among their entries; entries are list_heads.
LEMMA OnLoops ==
    ASSUME NEW l, NEW ch, AllLoops(l, ch), NEW h \in Heads
    PROVE  /\ Loop(l, h, ch[h]) /\ Entries(h, ch[h]) /\ ch[h] \in Seq(ListHead)
           /\ IsInjective(ch[h]) /\ Len(ch[h]) \in Nat /\ OnLoop(h, ch[h]) \subseteq ListHead
<1>1. Loop(l, h, ch[h])
  BY DEF AllLoops
<1>2. Entries(h, ch[h])
  BY <1>1 DEF Loop
<1>3. ch[h] \in Seq(ListHead) /\ IsInjective(ch[h]) /\ h \in ListHead
  BY <1>2 DEF Entries
<1>4. Range(ch[h]) \subseteq ListHead /\ Len(ch[h]) \in Nat
  BY <1>3, RangeOfSeq, LenProperties
<1> QED
  BY <1>1, <1>2, <1>3, <1>4 DEF OnLoop

\* What the walks find when all lists are closed.
LEMMA AllWalks ==
    ASSUME NEW l, NEW ch, AllLoops(l, ch)
    PROVE  /\ ch = [h \in Heads |-> Walk(l.next, h)]
           /\ \A h \in Heads : /\ Walk(l.next, h) = ch[h] /\ Walk(l.prev, h) = Reverse(ch[h])
                               /\ IsInjective(ch[h])
<1>1. ASSUME NEW h \in Heads
      PROVE  Walk(l.next, h) = ch[h] /\ Walk(l.prev, h) = Reverse(ch[h]) /\ IsInjective(ch[h])
  <2>1. Loop(l, h, ch[h]) /\ IsInjective(ch[h])
    BY OnLoops
  <2>2. l \in Links
    BY DEF AllLoops
  <2> QED
    BY ONLY <2>1, <2>2, LoopWalks
<1>2. ch = [h \in Heads |-> ch[h]]
  BY DEF AllLoops
<1> QED
  BY <1>1, <1>2

\* An entry taken off its list is on none; the others stay as they are.
LEMMA EntryDropped ==
    ASSUME NEW l, NEW ch, AllLoops(l, ch), Apart(ch),
           NEW h \in Heads, NEW j \in 1 .. Len(ch[h]),
           NEW m \in {ListDel(l, ch[h][j]), ListDelInit(l, ch[h][j])}
    PROVE  LET new == [ch EXCEPT ![h] = RemoveAt(ch[h], j)]
           IN  /\ AllLoops(m, new) /\ Apart(new)
               /\ \A g \in Heads : new[g] = IF g = h THEN RemoveAt(ch[h], j) ELSE ch[g]
               /\ Range(new[h]) = Range(ch[h]) \ {ch[h][j]}
               /\ Off(ch[h][j], new)
<1> DEFINE s == ch[h]
           e == s[j]
           t == RemoveAt(s, j)
           new == [ch EXCEPT ![h] = t]
<1>1. /\ l \in Links /\ Loop(l, h, s) /\ s \in Seq(ListHead) /\ IsInjective(s) /\ h \notin Range(s)
      /\ OnLoop(h, s) \subseteq ListHead
  BY OnLoops DEF AllLoops, Entries
<1>2. m \in Links /\ Loop(m, h, t) /\ Elsewhere(l, m, OnLoop(h, s))
  <2> HIDE DEF s, t
  <2>1. j \in 1 .. Len(s) /\ m \in {ListDel(l, s[j]), ListDelInit(l, s[j])}
    BY DEF s
  <2> QED
    BY ONLY <1>1, <2>1, Deleted DEF t
<1>3. Range(t) = Range(s) \ {e} /\ e \in Range(s)
  <2> HIDE DEF s, t
  <2>1. j \in 1 .. Len(s)
    BY DEF s
  <2> QED
    BY ONLY <1>1, <2>1, RemovedRange DEF t
<1>4. \A g \in Heads : new[g] = IF g = h THEN t ELSE ch[g]
  BY DEF AllLoops
<1>5. AllLoops(m, new)
  <2>1. \A g \in Heads \ {h} : OnLoop(g, ch[g]) \cap OnLoop(h, s) = {}
    BY DEF Apart
  <2> HIDE DEF s, t
  <2> QED
    BY ONLY AllLoops(l, ch), h \in Heads, <1>2, <2>1, OneChanged
<1> HIDE DEF new, e, t, s
<1>6. OnLoop(h, t) = OnLoop(h, s) \ {e} /\ e \in OnLoop(h, s)
  BY <1>1, <1>3 DEF OnLoop
<1>7. s = ch[h]
  BY DEF s
<1>8. Apart(new)
  BY <1>4, <1>6, <1>7 DEF Apart
<1>9. Off(e, new)
  BY <1>4, <1>6, <1>7 DEF Apart, Off
<1> QED
  BY <1>3, <1>4, <1>5, <1>8, <1>9 DEF new, e, t, s

\* The lists with the entry e behind the others of the list of head h.
Longer(ch, h, e) == [ch EXCEPT ![h] = Append(ch[h], e)]

\* An entry of no list added behind those of one.
LEMMA EntryAdded ==
    ASSUME NEW l, NEW ch, AllLoops(l, ch), Apart(ch), NEW h \in Heads,
           NEW e \in ListHead, Off(e, ch),
           NEW m \in {ListAddTail(l, e, h)}
    PROVE  /\ AllLoops(m, Longer(ch, h, e)) /\ Apart(Longer(ch, h, e))
           /\ \A g \in Heads : Longer(ch, h, e)[g] = IF g = h THEN Append(ch[h], e) ELSE ch[g]
           /\ Range(Longer(ch, h, e)[h]) = Range(ch[h]) \union {e}
<1> DEFINE s == ch[h]
           t == Append(s, e)
           new == [ch EXCEPT ![h] = t]
<1>1. l \in Links /\ Loop(l, h, s) /\ s \in Seq(ListHead) /\ e \notin OnLoop(h, s)
  BY OnLoops DEF AllLoops, Off
<1>2. m \in Links /\ Loop(m, h, t) /\ Elsewhere(l, m, OnLoop(h, s) \union {e})
  <2> HIDE DEF s
  <2> QED
    BY ONLY e \in ListHead, m \in {ListAddTail(l, e, h)}, <1>1, Tailed
<1>3. Range(t) = Range(s) \union {e}
  <2> HIDE DEF s
  <2>1. \A i \in 1 .. Len(t) : t[i] = IF i = Len(s) + 1 THEN e ELSE s[i]
    BY <1>1, AppendProperties
  <2>2. Len(t) = Len(s) + 1 /\ Len(s) \in Nat /\ DOMAIN t = 1 .. Len(t) /\ DOMAIN s = 1 .. Len(s)
    BY <1>1, AppendProperties, LenProperties
  <2> HIDE DEF t
  <2>3. \A x \in Range(t) : x \in Range(s) \union {e}
    BY <2>1, <2>2 DEF Range
  <2>4. \A x \in Range(s) : x \in Range(t)
    BY <2>1, <2>2 DEF Range
  <2>5. e \in Range(t)
    <3>1. Len(s) + 1 \in DOMAIN t /\ t[Len(s) + 1] = e
      BY <2>1, <2>2
    <3> QED
      BY <3>1 DEF Range
  <2> QED
    BY <2>3, <2>4, <2>5
<1>4. \A g \in Heads : new[g] = IF g = h THEN t ELSE ch[g]
  BY DEF AllLoops
<1>5. AllLoops(m, new)
  <2>1. \A g \in Heads \ {h} : OnLoop(g, ch[g]) \cap (OnLoop(h, s) \union {e}) = {}
    BY DEF Apart, Off
  <2> HIDE DEF s, t
  <2> QED
    BY ONLY AllLoops(l, ch), h \in Heads, <1>2, <2>1, OneChanged
<1> HIDE DEF new, t, s
<1>6. OnLoop(h, t) = OnLoop(h, s) \union {e}
  BY <1>3 DEF OnLoop
<1>7. s = ch[h]
  BY DEF s
<1>8. Apart(new)
  BY <1>4, <1>6, <1>7 DEF Apart, Off
<1> QED
  BY <1>3, <1>4, <1>5, <1>8 DEF new, t, s, Longer

\* INIT_LIST_HEAD() of an entry of no list.
LEMMA EntryInitialised ==
    ASSUME NEW l, NEW ch, AllLoops(l, ch),
           NEW e \in ListHead, Off(e, ch)
    PROVE  AllLoops(InitListHead(l, e), ch)
<1> DEFINE m == InitListHead(l, e)
<1>1. l \in Links
  BY DEF AllLoops
<1>2. m \in Links /\ Elsewhere(l, m, {e})
  BY ONLY e \in ListHead, <1>1, InitWrites
<1> HIDE DEF m
<1>3. ASSUME NEW g \in Heads  PROVE Loop(m, g, ch[g])
  <2>1. Loop(l, g, ch[g]) /\ OnLoop(g, ch[g]) \subseteq ListHead \ {e}
    BY OnLoops DEF Off
  <2>2. \A x \in OnLoop(g, ch[g]) : m.next[x] = l.next[x] /\ m.prev[x] = l.prev[x]
    BY <1>2, <2>1 DEF Elsewhere
  <2> QED
    BY ONLY <2>1, <2>2, LoopKept
<1> QED
  BY <1>2, <1>3 DEF AllLoops, m
-----------------------------------------------------------------------------
(* The lists and the names of the directory cache *)

Occupied(nm) == {d \in Dentry : nm[d] # NoName}

\* A cached dentry is on the eviction list and on the chain of its bucket.
Filled(nm, ch) ==
    /\ Range(ch[Lru]) = {LruHead(d) : d \in Occupied(nm)}
    /\ \A b \in Bucket : Range(ch[<<b, "bucket">>]) =
                             {HashHead(d) : d \in {e \in Occupied(nm) : HashOf[nm[e]] = b}}

Lists(l, nm, ch) ==
    AllLoops(l, ch) /\ nm \in [Dentry -> Name \union {NoName}] /\ Filled(nm, ch)

LEMMA Buckets ==
    ASSUME NEW n \in Name
    PROVE  BucketOf(n) \in Heads /\ HashOf[n] \in Bucket /\ BucketOf(n) # Lru
<1>1. HashOf[n] \in Bucket
  BY DCSizes
<1> QED
  BY <1>1, HeadsApart DEF BucketOf

\* A list_head is on the list of at most one head, and on that of which one follows
\* from the dentry's name.
LEMMA WhoseLists ==
    ASSUME NEW l, NEW nm, NEW ch, Lists(l, nm, ch)
    PROVE  /\ Apart(ch)
           /\ \A d \in Dentry, g \in Heads :
                 /\ LruHead(d) \in OnLoop(g, ch[g]) <=> (nm[d] # NoName /\ g = Lru)
                 /\ HashHead(d) \in OnLoop(g, ch[g]) <=> (nm[d] # NoName /\ g = BucketOf(nm[d]))
<1>1. \A d \in Dentry : nm[d] \in Name \union {NoName}
  BY DEF Lists
<1>2. ASSUME NEW x \in OnLoop(Lru, ch[Lru]), x # Lru
      PROVE  \E d \in Dentry : x = LruHead(d) /\ nm[d] # NoName
  BY <1>2 DEF OnLoop, Lists, Filled, Occupied
<1>3. ASSUME NEW b \in Bucket, NEW x \in OnLoop(<<b, "bucket">>, ch[<<b, "bucket">>]), x # <<b, "bucket">>
      PROVE  \E d \in Dentry : x = HashHead(d) /\ nm[d] # NoName /\ HashOf[nm[d]] = b
  BY <1>3 DEF OnLoop, Lists, Filled, Occupied
<1>4. ASSUME NEW d \in Dentry, nm[d] # NoName
      PROVE  /\ LruHead(d) \in OnLoop(Lru, ch[Lru])
             /\ HashHead(d) \in OnLoop(BucketOf(nm[d]), ch[BucketOf(nm[d])])
  <2>1. d \in Occupied(nm) /\ HashOf[nm[d]] \in Bucket
    BY <1>1, <1>4, Buckets DEF Occupied
  <2> QED
    BY <2>1 DEF OnLoop, Lists, Filled, BucketOf
<1>5. ASSUME NEW g \in Heads, NEW x \in OnLoop(g, ch[g])
      PROVE  \/ x = g
             \/ g = Lru /\ \E d \in Dentry : x = LruHead(d) /\ nm[d] # NoName
             \/ \E d \in Dentry : x = HashHead(d) /\ nm[d] # NoName /\ g = BucketOf(nm[d])
  <2>1. CASE g = Lru
    BY <1>2, <1>5, <2>1
  <2>2. CASE g # Lru
    <3>1. PICK b \in Bucket : g = <<b, "bucket">>
      BY <2>2, HeadsApart
    <3> QED
      BY <1>3, <1>5, <3>1 DEF BucketOf
  <2> QED
    BY <2>1, <2>2
<1>6. /\ \A d, e \in Dentry : /\ HashHead(d) # LruHead(e)
                              /\ HashHead(d) = HashHead(e) => d = e
                              /\ LruHead(d) = LruHead(e) => d = e
      /\ \A d \in Dentry : HashHead(d) \notin Heads /\ LruHead(d) \notin Heads
  BY HeadsApart
<1>7. Apart(ch)
  <2>1. SUFFICES ASSUME NEW g \in Heads, NEW h \in Heads, g # h,
                        NEW x \in OnLoop(g, ch[g]), x \in OnLoop(h, ch[h])
                 PROVE  FALSE
    BY DEF Apart
  <2>2. CASE x = g \/ x = h
    BY <1>5, <1>6, <2>1, <2>2
  <2>3. CASE x # g /\ x # h
    BY <1>5, <1>6, <2>1, <2>3
  <2> QED
    BY <2>2, <2>3
<1>8. ASSUME NEW d \in Dentry, NEW g \in Heads
      PROVE  /\ LruHead(d) \in OnLoop(g, ch[g]) <=> (nm[d] # NoName /\ g = Lru)
             /\ HashHead(d) \in OnLoop(g, ch[g]) <=> (nm[d] # NoName /\ g = BucketOf(nm[d]))
  <2>1. ASSUME LruHead(d) \in OnLoop(g, ch[g])  PROVE nm[d] # NoName /\ g = Lru
    BY <1>5, <1>6, <2>1
  <2>2. ASSUME HashHead(d) \in OnLoop(g, ch[g])  PROVE nm[d] # NoName /\ g = BucketOf(nm[d])
    BY <1>5, <1>6, <2>2
  <2> QED
    BY <1>4, <2>1, <2>2
<1> QED
  BY <1>7, <1>8

\* An entry is on the list of a head at some place.
LEMMA PlaceOf ==
    ASSUME NEW l, NEW ch, AllLoops(l, ch), NEW h \in Heads, NEW e \in OnLoop(h, ch[h]), e # h
    PROVE  \E j \in 1 .. Len(ch[h]) : ch[h][j] = e
<1>1. ch[h] \in Seq(ListHead) /\ e \in Range(ch[h])
  BY OnLoops DEF OnLoop
<1>2. DOMAIN ch[h] = 1 .. Len(ch[h])
  BY <1>1
<1> QED
  BY <1>1, <1>2 DEF Range

\* evict_lru() of a list that is not empty frees the dentry in front.
LEMMA Evicted ==
    ASSUME NEW l, NEW nm, NEW ch, Lists(l, nm, ch), ch[Lru] # << >>
    PROVE  LET d == l.next[Lru][2]
               m == ListDel(ListDel(l, LruHead(d)), HashHead(d))
           IN  /\ l.next[Lru] # Lru /\ l.next[Lru] = ch[Lru][1] /\ d \in Occupied(nm)
               /\ \E new : /\ Lists(m, [nm EXCEPT ![d] = NoName], new)
                           /\ new[Lru] = RemoveAt(ch[Lru], 1)
<1> DEFINE d == l.next[Lru][2]
           k == ListDel(l, LruHead(d))
           m == ListDel(k, HashHead(d))
           h == BucketOf(nm[d])
           one == [ch EXCEPT ![Lru] = RemoveAt(ch[Lru], 1)]
<1>1. /\ AllLoops(l, ch) /\ Apart(ch) /\ Lru \in Heads /\ nm \in [Dentry -> Name \union {NoName}]
      /\ Filled(nm, ch)
  BY WhoseLists, HeadsApart DEF Lists
<1>2. /\ Loop(l, Lru, ch[Lru]) /\ Entries(Lru, ch[Lru]) /\ ch[Lru] \in Seq(ListHead)
      /\ Len(ch[Lru]) \in Nat /\ OnLoop(Lru, ch[Lru]) \subseteq ListHead
  BY <1>1, OnLoops
<1>3. 1 \in 1 .. Len(ch[Lru]) /\ ch[Lru][1] \in Range(ch[Lru])
  <2>1. Len(ch[Lru]) # 0
    BY <1>2, EmptySeq
  <2>2. 1 \in 1 .. Len(ch[Lru]) /\ DOMAIN ch[Lru] = 1 .. Len(ch[Lru])
    BY <1>2, <2>1
  <2> QED
    BY <2>2 DEF Range
<1>4. l.next[Lru] = ch[Lru][1]
  <2>1. l.next[At(Lru, ch[Lru], 0)] = At(Lru, ch[Lru], 0 + 1)
    BY <1>2 DEF Loop, Leads
  <2> QED
    BY <1>3, <2>1 DEF At
<1>5. PICK e \in Occupied(nm) : ch[Lru][1] = LruHead(e)
  BY <1>1, <1>3 DEF Filled
<1>6. /\ d = e /\ d \in Occupied(nm) /\ d \in Dentry /\ nm[d] \in Name /\ LruHead(d) = ch[Lru][1]
      /\ LruHead(d) # Lru
  <2>1. e \in Dentry /\ nm[e] # NoName
    BY DEF Occupied
  <2>2. d = e
    BY <1>4, <1>5, <2>1, HeadsApart
  <2>3. nm[e] \in Name
    BY <1>1, <2>1
  <2>4. LruHead(e) # Lru
    BY <1>1, <2>1, HeadsApart
  <2> QED
    BY <1>5, <2>1, <2>2, <2>3, <2>4
<1>7. h \in Heads /\ h # Lru
  BY <1>6, Buckets
<1> HIDE DEF d, k, m, h, one
<1>8. /\ AllLoops(k, one) /\ Apart(one)
      /\ \A g \in Heads : one[g] = IF g = Lru THEN RemoveAt(ch[Lru], 1) ELSE ch[g]
      /\ Range(one[Lru]) = Range(ch[Lru]) \ {LruHead(d)}
  <2>1. k \in {ListDel(l, ch[Lru][1]), ListDelInit(l, ch[Lru][1])}
    BY <1>6 DEF k
  <2>2. LET new == [ch EXCEPT ![Lru] = RemoveAt(ch[Lru], 1)]
        IN  /\ AllLoops(k, new) /\ Apart(new)
            /\ \A g \in Heads : new[g] = IF g = Lru THEN RemoveAt(ch[Lru], 1) ELSE ch[g]
            /\ Range(new[Lru]) = Range(ch[Lru]) \ {ch[Lru][1]}
            /\ Off(ch[Lru][1], new)
    <3>1. AllLoops(l, ch) /\ Apart(ch) /\ Lru \in Heads /\ 1 \in 1 .. Len(ch[Lru])
      BY <1>1, <1>3
    <3> QED
      BY ONLY SMTT(40), <2>1, <3>1, EntryDropped
  <2> QED
    BY <1>6, <2>2 DEF one
<1>9. PICK j \in 1 .. Len(one[h]) : one[h][j] = HashHead(d)
  <2>1. HashHead(d) \in OnLoop(h, ch[h]) /\ HashHead(d) # h
    BY <1>6, <1>7, WhoseLists, HeadsApart DEF h, Occupied
  <2>2. one[h] = ch[h]
    BY <1>7, <1>8
  <2>3. HashHead(d) \in OnLoop(h, one[h])
    BY <2>1, <2>2
  <2> QED
    BY ONLY <1>7, <1>8, <2>1, <2>3, PlaceOf
<1> DEFINE two == [one EXCEPT ![h] = RemoveAt(one[h], j)]
<1>10. /\ AllLoops(m, two) /\ Apart(two)
       /\ \A g \in Heads : two[g] = IF g = h THEN RemoveAt(one[h], j) ELSE one[g]
       /\ Range(two[h]) = Range(one[h]) \ {HashHead(d)}
  <2>1. m \in {ListDel(k, one[h][j]), ListDelInit(k, one[h][j])}
    BY <1>9 DEF m
  <2>2. LET new == [one EXCEPT ![h] = RemoveAt(one[h], j)]
        IN  /\ AllLoops(m, new) /\ Apart(new)
            /\ \A g \in Heads : new[g] = IF g = h THEN RemoveAt(one[h], j) ELSE one[g]
            /\ Range(new[h]) = Range(one[h]) \ {one[h][j]}
            /\ Off(one[h][j], new)
    <3>1. AllLoops(k, one) /\ Apart(one) /\ h \in Heads /\ j \in 1 .. Len(one[h])
      BY <1>7, <1>8
    <3> QED
      BY ONLY <2>1, <3>1, EntryDropped
  <2> QED
    BY <1>9, <2>2
<1> HIDE DEF two
<1>11. two[Lru] = RemoveAt(ch[Lru], 1)
  BY <1>1, <1>7, <1>8, <1>10
<1> DEFINE nn == [nm EXCEPT ![d] = NoName]
<1>12. /\ nn \in [Dentry -> Name \union {NoName}] /\ Occupied(nn) = Occupied(nm) \ {d}
       /\ \A e2 \in Occupied(nn) : nn[e2] = nm[e2]
  BY <1>1, <1>6 DEF Occupied
<1> HIDE DEF nn
<1>13. Filled(nn, two)
  <2>1. Range(two[Lru]) = {LruHead(f) : f \in Occupied(nn)}
    <3>1. Range(two[Lru]) = {LruHead(f) : f \in Occupied(nm)} \ {LruHead(d)}
      BY <1>1, <1>8, <1>11 DEF Filled
    <3>2. \A f \in Occupied(nm) : LruHead(f) = LruHead(d) => f = d
      BY <1>6, HeadsApart DEF Occupied
    <3> QED
      BY <1>12, <3>1, <3>2
  <2>2. ASSUME NEW b \in Bucket
        PROVE  Range(two[<<b, "bucket">>]) =
                   {HashHead(f) : f \in {e2 \in Occupied(nn) : HashOf[nn[e2]] = b}}
    <3> DEFINE g == <<b, "bucket">>
    <3>1. Range(ch[g]) = {HashHead(f) : f \in {e2 \in Occupied(nm) : HashOf[nm[e2]] = b}}
      BY <1>1 DEF Filled
    <3>2. g \in Heads /\ g # Lru
      BY HeadsApart
    <3>3. one[g] = ch[g]
      BY <1>8, <3>2
    <3>4. \A f \in Occupied(nm) : HashHead(f) = HashHead(d) => f = d
      BY <1>6, HeadsApart DEF Occupied
    <3>5. g = h <=> HashOf[nm[d]] = b
      <4>1. HashOf[nm[d]] \in Bucket
        BY <1>6, Buckets
      <4> QED
        BY <4>1, HeadsApart DEF h, BucketOf
    <3> HIDE DEF g
    <3>6. CASE g = h
      <4>1. Range(two[g]) = {HashHead(f) : f \in {e2 \in Occupied(nm) : HashOf[nm[e2]] = b}} \ {HashHead(d)}
        BY <1>10, <3>1, <3>3, <3>6
      <4>2. {e2 \in Occupied(nn) : HashOf[nn[e2]] = b} = {e2 \in Occupied(nm) : HashOf[nm[e2]] = b} \ {d}
        BY <1>12
      <4> QED
        BY <3>4, <4>1, <4>2 DEF g
    <3>7. CASE g # h
      <4>1. Range(two[g]) = {HashHead(f) : f \in {e2 \in Occupied(nm) : HashOf[nm[e2]] = b}}
        BY <1>10, <3>1, <3>2, <3>3, <3>7
      <4>2. {e2 \in Occupied(nn) : HashOf[nn[e2]] = b} = {e2 \in Occupied(nm) : HashOf[nm[e2]] = b}
        BY <1>12, <3>5, <3>7
      <4> QED
        BY <4>1, <4>2 DEF g
    <3> QED
      BY <3>6, <3>7
  <2> QED
    BY <2>1, <2>2 DEF Filled
<1>14. Lists(m, nn, two)
  BY <1>10, <1>12, <1>13 DEF Lists
<1> QED
  BY <1>4, <1>6, <1>11, <1>14 DEF d, k, m, nn

\* add() chains a free dentry to its bucket and puts it behind the others.
LEMMA Inserted ==
    ASSUME NEW l, NEW nm, NEW ch, Lists(l, nm, ch), NEW n \in Name,
           NEW d \in Dentry, nm[d] = NoName
    PROVE  LET fresh   == InitListHead(InitListHead(l, LruHead(d)), HashHead(d))
               chained == ListAddTail(fresh, HashHead(d), BucketOf(n))
           IN  \E new : /\ Lists(ListAddTail(chained, LruHead(d), Lru), [nm EXCEPT ![d] = n], new)
                        /\ new[Lru] = Append(ch[Lru], LruHead(d))
<1> DEFINE first   == InitListHead(l, LruHead(d))
           fresh   == InitListHead(first, HashHead(d))
           h       == BucketOf(n)
           chained == ListAddTail(fresh, HashHead(d), h)
           m       == ListAddTail(chained, LruHead(d), Lru)
           one     == Longer(ch, h, HashHead(d))
           two     == Longer(one, Lru, LruHead(d))
           nn      == [nm EXCEPT ![d] = n]
<1>1. /\ AllLoops(l, ch) /\ Apart(ch) /\ Lru \in Heads /\ nm \in [Dentry -> Name \union {NoName}]
      /\ Filled(nm, ch)
  BY WhoseLists, HeadsApart DEF Lists
<1>2. h \in Heads /\ h # Lru /\ LruHead(d) \in ListHead /\ HashHead(d) \in ListHead
  BY Buckets, HeadsApart
<1>3. Off(LruHead(d), ch) /\ Off(HashHead(d), ch)
  BY WhoseLists DEF Off
<1>4. n # NoName
  BY DCSizes
<1> HIDE DEF first, fresh, h, chained, m, one, two, nn
<1>5. AllLoops(first, ch)
  BY ONLY <1>1, <1>2, <1>3, EntryInitialised DEF first
<1>6. AllLoops(fresh, ch)
  BY ONLY <1>2, <1>3, <1>5, EntryInitialised DEF fresh
<1>7. /\ AllLoops(chained, one) /\ Apart(one)
      /\ \A g \in Heads : one[g] = IF g = h THEN Append(ch[h], HashHead(d)) ELSE ch[g]
      /\ Range(one[h]) = Range(ch[h]) \union {HashHead(d)}
  <2>1. Off(HashHead(d), ch)
    BY <1>3
  <2>2. Apart(ch) /\ h \in Heads /\ HashHead(d) \in ListHead
    BY <1>1, <1>2
  <2>3. chained \in {ListAddTail(fresh, HashHead(d), h)}
    BY DEF chained
  <2> QED
    BY ONLY <1>6, <2>1, <2>2, <2>3, EntryAdded DEF one
<1>8. Off(LruHead(d), one)
  <2>1. LruHead(d) # HashHead(d)
    BY HeadsApart
  <2>2. \A g \in Heads : OnLoop(g, one[g]) \subseteq OnLoop(g, ch[g]) \union {HashHead(d)}
    BY <1>7 DEF OnLoop
  <2> QED
    BY <1>3, <2>1, <2>2 DEF Off
<1>9. /\ AllLoops(m, two) /\ Apart(two)
      /\ \A g \in Heads : two[g] = IF g = Lru THEN Append(one[Lru], LruHead(d)) ELSE one[g]
      /\ Range(two[Lru]) = Range(one[Lru]) \union {LruHead(d)}
  <2>1. AllLoops(chained, one) /\ Apart(one) /\ Lru \in Heads /\ LruHead(d) \in ListHead
    BY <1>1, <1>2, <1>7
  <2>2. m \in {ListAddTail(chained, LruHead(d), Lru)}
    BY DEF m
  <2> QED
    BY ONLY <1>8, <2>1, <2>2, EntryAdded DEF two
<1>10. two[Lru] = Append(ch[Lru], LruHead(d)) /\ one[Lru] = ch[Lru]
  BY <1>1, <1>2, <1>7, <1>9
<1>11. /\ nn \in [Dentry -> Name \union {NoName}] /\ Occupied(nn) = Occupied(nm) \union {d}
       /\ d \notin Occupied(nm) /\ nn[d] = n /\ \A e \in Occupied(nm) : nn[e] = nm[e]
  BY <1>1, <1>4 DEF Occupied, nn
<1>12. Filled(nn, two)
  <2>1. Range(two[Lru]) = {LruHead(f) : f \in Occupied(nn)}
    <3>1. Range(two[Lru]) = {LruHead(f) : f \in Occupied(nm)} \union {LruHead(d)}
      BY <1>1, <1>9, <1>10 DEF Filled
    <3> QED
      BY <1>11, <3>1
  <2>2. ASSUME NEW b \in Bucket
        PROVE  Range(two[<<b, "bucket">>]) =
                   {HashHead(f) : f \in {e \in Occupied(nn) : HashOf[nn[e]] = b}}
    <3> DEFINE g == <<b, "bucket">>
    <3>1. Range(ch[g]) = {HashHead(f) : f \in {e \in Occupied(nm) : HashOf[nm[e]] = b}}
      BY <1>1 DEF Filled
    <3>2. g \in Heads /\ g # Lru
      BY HeadsApart
    <3>3. two[g] = one[g]
      BY <1>9, <3>2
    <3>4. g = h <=> HashOf[n] = b
      <4>1. HashOf[n] \in Bucket
        BY Buckets
      <4> QED
        BY <4>1, HeadsApart DEF h, BucketOf
    <3> HIDE DEF g
    <3>5. CASE g = h
      <4>1. Range(two[g]) = {HashHead(f) : f \in {e \in Occupied(nm) : HashOf[nm[e]] = b}} \union {HashHead(d)}
        BY <1>7, <3>1, <3>3, <3>5
      <4>2. {e \in Occupied(nn) : HashOf[nn[e]] = b} = {e \in Occupied(nm) : HashOf[nm[e]] = b} \union {d}
        BY <1>11, <3>4, <3>5
      <4> QED
        BY <4>1, <4>2 DEF g
    <3>6. CASE g # h
      <4>1. Range(two[g]) = {HashHead(f) : f \in {e \in Occupied(nm) : HashOf[nm[e]] = b}}
        BY <1>7, <3>1, <3>2, <3>3, <3>6
      <4>2. {e \in Occupied(nn) : HashOf[nn[e]] = b} = {e \in Occupied(nm) : HashOf[nm[e]] = b}
        BY <1>11, <3>4, <3>6
      <4> QED
        BY <4>1, <4>2 DEF g
    <3> QED
      BY <3>5, <3>6
  <2> QED
    BY <2>1, <2>2 DEF Filled
<1>13. Lists(m, nn, two)
  BY <1>9, <1>11, <1>12 DEF Lists
<1> QED
  BY <1>10, <1>13 DEF m, nn, chained, fresh, first, h

\* A hit moves the dentry behind the others.
LEMMA MovedBack ==
    ASSUME NEW l, NEW nm, NEW ch, Lists(l, nm, ch), NEW d \in Occupied(nm)
    PROVE  \E new : \E j \in 1 .. Len(ch[Lru]) :
               /\ Lists(ListAddTail(ListDelInit(l, LruHead(d)), LruHead(d), Lru), nm, new)
               /\ ch[Lru][j] = LruHead(d)
               /\ new[Lru] = Append(RemoveAt(ch[Lru], j), LruHead(d))
<1>1. /\ AllLoops(l, ch) /\ Apart(ch) /\ Lru \in Heads /\ nm \in [Dentry -> Name \union {NoName}]
      /\ Filled(nm, ch)
  BY WhoseLists, HeadsApart DEF Lists
<1>2. /\ d \in Dentry /\ LruHead(d) \in ListHead /\ LruHead(d) # Lru
      /\ LruHead(d) \in OnLoop(Lru, ch[Lru])
  <2>1. d \in Dentry /\ nm[d] # NoName
    BY DEF Occupied
  <2> QED
    BY <1>1, <2>1, WhoseLists, HeadsApart
<1>3. PICK j \in 1 .. Len(ch[Lru]) : ch[Lru][j] = LruHead(d)
  BY ONLY SMTT(40), <1>1, <1>2, PlaceOf
<1> DEFINE k   == ListDelInit(l, LruHead(d))
           m   == ListAddTail(k, LruHead(d), Lru)
           one == [ch EXCEPT ![Lru] = RemoveAt(ch[Lru], j)]
           two == Longer(one, Lru, LruHead(d))
<1> HIDE DEF k, m, one, two
<1>4. /\ AllLoops(k, one) /\ Apart(one)
      /\ \A g \in Heads : one[g] = IF g = Lru THEN RemoveAt(ch[Lru], j) ELSE ch[g]
      /\ Range(one[Lru]) = Range(ch[Lru]) \ {LruHead(d)}
      /\ Off(LruHead(d), one)
  <2>1. k \in {ListDel(l, ch[Lru][j]), ListDelInit(l, ch[Lru][j])}
    BY <1>3 DEF k
  <2>2. AllLoops(l, ch) /\ Apart(ch) /\ Lru \in Heads /\ j \in 1 .. Len(ch[Lru])
    BY <1>1
  <2>3. LET new == [ch EXCEPT ![Lru] = RemoveAt(ch[Lru], j)]
        IN  /\ AllLoops(k, new) /\ Apart(new)
            /\ \A g \in Heads : new[g] = IF g = Lru THEN RemoveAt(ch[Lru], j) ELSE ch[g]
            /\ Range(new[Lru]) = Range(ch[Lru]) \ {ch[Lru][j]}
            /\ Off(ch[Lru][j], new)
    BY ONLY <2>1, <2>2, EntryDropped
  <2> QED
    BY <1>3, <2>3 DEF one
<1>5. /\ AllLoops(m, two) /\ Apart(two)
      /\ \A g \in Heads : two[g] = IF g = Lru THEN Append(one[Lru], LruHead(d)) ELSE one[g]
      /\ Range(two[Lru]) = Range(one[Lru]) \union {LruHead(d)}
  <2>1. AllLoops(k, one) /\ Apart(one) /\ Lru \in Heads /\ LruHead(d) \in ListHead
    BY <1>1, <1>2, <1>4
  <2>2. Off(LruHead(d), one)
    BY <1>4
  <2>3. m \in {ListAddTail(k, LruHead(d), Lru)}
    BY DEF m
  <2> QED
    BY ONLY <2>1, <2>2, <2>3, EntryAdded DEF two
<1>6. Filled(nm, two)
  <2>1. Range(two[Lru]) = Range(ch[Lru])
    BY <1>2, <1>4, <1>5 DEF OnLoop
  <2>2. \A b \in Bucket : two[<<b, "bucket">>] = ch[<<b, "bucket">>]
    BY <1>4, <1>5, HeadsApart
  <2> QED
    BY <1>1, <2>1, <2>2 DEF Filled
<1>7. two[Lru] = Append(RemoveAt(ch[Lru], j), LruHead(d))
  BY <1>1, <1>4, <1>5
<1>8. Lists(m, nm, two)
  BY <1>1, <1>5, <1>6 DEF Lists
<1> QED
  BY <1>3, <1>7, <1>8 DEF m, k

\* There are as many cached dentries as entries of the eviction list.
LEMMA ListsCount ==
    ASSUME NEW l, NEW nm, NEW ch, Lists(l, nm, ch)
    PROVE  /\ Cardinality(Occupied(nm)) = Len(ch[Lru]) /\ Len(ch[Lru]) \in 0 .. Cardinality(Dentry)
           /\ \A i \in 1 .. Len(ch[Lru]) : \E d \in Occupied(nm) : ch[Lru][i] = LruHead(d)
<1> DEFINE s == ch[Lru]
           f == [i \in 1 .. Len(s) |-> s[i][2]]
<1>1. /\ s \in Seq(ListHead) /\ IsInjective(s) /\ Len(s) \in Nat
      /\ Range(s) = {LruHead(d) : d \in Occupied(nm)}
  BY OnLoops, HeadsApart DEF Lists, Filled
<1> HIDE DEF s
<1>2. DOMAIN s = 1 .. Len(s)
  BY <1>1
<1>3. \A i \in 1 .. Len(s) : \E d \in Occupied(nm) : s[i] = LruHead(d)
  BY <1>1, <1>2 DEF Range
<1>4. \A d \in Occupied(nm) : \E i \in 1 .. Len(s) : s[i] = LruHead(d)
  BY <1>1, <1>2 DEF Range
<1>5. \A d \in Occupied(nm) : d \in Dentry /\ LruHead(d)[2] = d
  BY HeadsApart DEF Occupied
<1>6. f \in Bijection(1 .. Len(s), Occupied(nm))
  <2>1. f \in [1 .. Len(s) -> Occupied(nm)]
    BY <1>3, <1>5
  <2>2. \A i, j \in 1 .. Len(s) : f[i] = f[j] => i = j
    <3>1. \A i \in 1 .. Len(s) : s[i] = LruHead(f[i])
      BY <1>3, <1>5
    <3>2. \A i, j \in 1 .. Len(s) : s[i] = s[j] => i = j
      BY <1>1, <1>2 DEF IsInjective
    <3> QED
      BY <3>1, <3>2
  <2>3. \A d \in Occupied(nm) : \E i \in 1 .. Len(s) : f[i] = d
    BY <1>4, <1>5
  <2> HIDE DEF f
  <2> QED
    BY <2>1, <2>2, <2>3 DEF Bijection, Injection, Surjection, IsInjective
<1>7. Cardinality(Occupied(nm)) = Len(s)
  <2>1. ExistsBijection(1 .. Len(s), Occupied(nm))
    BY <1>6 DEF ExistsBijection
  <2> QED
    BY <1>1, <2>1, FS_CountingElements
<1>8. Cardinality(Occupied(nm)) <= Cardinality(Dentry) /\ Cardinality(Dentry) \in Nat
  <2>1. IsFiniteSet(Dentry)
    BY DCSizes
  <2>2. Occupied(nm) \subseteq Dentry
    BY DEF Occupied
  <2> QED
    BY <2>1, <2>2, FS_Subset, FS_CardinalityType
<1> QED
  BY <1>1, <1>3, <1>7, <1>8 DEF s
-----------------------------------------------------------------------------
(* The order of the last uses *)

\* The names of the entries s, oldest first, end the names by last use.
LastUsed(nm, s, u) ==
    /\ u \in Seq(Name) /\ IsInjective(u) /\ Len(s) <= Len(u)
    /\ \A i \in 1 .. Len(s) : nm[s[i][2]] = u[Len(u) - Len(s) + i]

\* used after the use of n
Reused(u, n) == Append(IF In(u, n) THEN Erase(u, n) ELSE u, n)

\* The cache: what the invariant says of the lists ch, the count and the order.
DCGood(l, nm, count, u, ch) ==
    /\ Lists(l, nm, ch)
    /\ count = Len(ch[Lru]) /\ count <= DcacheCapacity
    /\ LastUsed(nm, ch[Lru], u)

\* A use puts the name behind the others and leaves these in their order.
LEMMA ReusedOrder ==
    ASSUME NEW u \in Seq(Name), IsInjective(u), NEW n \in Name
    PROVE  /\ Reused(u, n) \in Seq(Name) /\ IsInjective(Reused(u, n))
           /\ Reused(u, n)[Len(Reused(u, n))] = n /\ Len(u) \in Nat
           /\ (\A i \in 1 .. Len(u) : u[i] # n) =>
                 /\ Len(Reused(u, n)) = Len(u) + 1
                 /\ \A i \in 1 .. Len(u) : Reused(u, n)[i] = u[i]
           /\ \A k \in 1 .. Len(u) : u[k] = n =>
                 /\ Len(Reused(u, n)) = Len(u)
                 /\ \A i \in 1 .. Len(u) - 1 : Reused(u, n)[i] = IF i < k THEN u[i] ELSE u[i + 1]
<1> DEFINE v == IF In(u, n) THEN Erase(u, n) ELSE u
           w == Reused(u, n)
<1>1. DOMAIN u = 1 .. Len(u) /\ Len(u) \in Nat
  BY LenProperties
<1>2. v \in Seq(Name) /\ IsInjective(v) /\ n \notin Range(v)
  <2>1. CASE In(u, n)
    BY <2>1, Erased
  <2>2. CASE ~In(u, n)
    BY <2>2, OnList
  <2> QED
    BY <2>1, <2>2
<1>3. (\A i \in 1 .. Len(u) : u[i] # n) => v = u
  BY <1>1 DEF In
<1>4. ASSUME NEW k \in 1 .. Len(u), u[k] = n
      PROVE  /\ Len(v) = Len(u) - 1
             /\ \A i \in 1 .. Len(u) - 1 : v[i] = IF i < k THEN u[i] ELSE u[i + 1]
  <2>1. In(u, n)
    BY <1>1, <1>4 DEF In
  <2>2. k = CHOOSE i \in DOMAIN u : u[i] = n
    <3>1. \A i \in DOMAIN u : u[i] = n => i = k
      BY <1>1, <1>4 DEF IsInjective
    <3> QED
      BY <1>1, <1>4, <3>1
  <2>3. v = RemoveAt(u, k)
    BY <2>1, <2>2 DEF Erase
  <2>4. /\ RemoveAt(u, k) \in Seq(Name) /\ Len(RemoveAt(u, k)) = Len(u) - 1
        /\ \A j \in DOMAIN RemoveAt(u, k) :
              RemoveAt(u, k)[j] = IF j < k THEN u[j] ELSE u[j + 1]
    <3>1. k \in DOMAIN u /\ u \in Seq(Name)
      BY <1>1
    <3> QED
      BY ONLY <3>1, Removed
  <2> HIDE DEF v
  <2>5. Len(v) = Len(u) - 1 /\ DOMAIN v = 1 .. Len(v)
    BY <1>2, <2>3, <2>4
  <2> QED
    BY <2>3, <2>4, <2>5
<1>5. w = Append(v, n)
  BY DEF Reused
<1> HIDE DEF v, w
<1>6. /\ w \in Seq(Name) /\ Len(w) = Len(v) + 1 /\ Len(v) \in Nat /\ DOMAIN v = 1 .. Len(v)
      /\ DOMAIN w = 1 .. Len(w) /\ \A i \in 1 .. Len(w) : w[i] = IF i = Len(v) + 1 THEN n ELSE v[i]
  <2>1. \A i \in 1 .. Len(w) : w[i] = IF i = Len(v) + 1 THEN n ELSE v[i]
    BY <1>2, <1>5, AppendProperties
  <2> QED
    BY <1>2, <1>5, <2>1, LenProperties, AppendProperties
<1>7. IsInjective(w)
  <2>1. SUFFICES ASSUME NEW i \in DOMAIN w, NEW j \in DOMAIN w, w[i] = w[j]  PROVE i = j
    BY DEF IsInjective
  <2>2. \A k \in 1 .. Len(v) : v[k] # n
    BY <1>2, <1>6 DEF Range
  <2>3. \A a, b \in 1 .. Len(v) : v[a] = v[b] => a = b
    BY <1>2, <1>6 DEF IsInjective
  <2>4. /\ i = Len(v) + 1 \/ i \in 1 .. Len(v)
        /\ j = Len(v) + 1 \/ j \in 1 .. Len(v)
    BY <1>6
  <2> QED
    BY <1>6, <2>1, <2>2, <2>3, <2>4
<1>8. w[Len(w)] = n
  BY <1>6
<1>9. ASSUME \A i \in 1 .. Len(u) : u[i] # n
      PROVE  Len(w) = Len(u) + 1 /\ \A i \in 1 .. Len(u) : w[i] = u[i]
  BY <1>1, <1>3, <1>6, <1>9
<1>10. ASSUME NEW k \in 1 .. Len(u), u[k] = n
       PROVE  /\ Len(w) = Len(u)
              /\ \A i \in 1 .. Len(u) - 1 : w[i] = IF i < k THEN u[i] ELSE u[i + 1]
  <2>1. /\ Len(v) = Len(u) - 1
        /\ \A i \in 1 .. Len(u) - 1 : v[i] = IF i < k THEN u[i] ELSE u[i + 1]
    BY <1>4, <1>10
  <2>2. Len(w) = Len(u) /\ Len(v) = Len(u) - 1
    <3>1. Len(v) = Len(u) - 1 /\ Len(u) \in Nat /\ Len(w) = Len(v) + 1
      BY <1>1, <1>6, <2>1
    <3> QED
      BY ONLY SMTT(40), <3>1
  <2>3. ASSUME NEW i \in 1 .. Len(u) - 1  PROVE w[i] = v[i]
    <3>1. i \in 1 .. Len(w) /\ i # Len(v) + 1
      <4>1. \A a \in Nat : \A x \in 1 .. a - 1 : x \in 1 .. a /\ x # (a - 1) + 1
        BY SMTT(40)
      <4>2. i \in 1 .. Len(u) /\ i # (Len(u) - 1) + 1
        BY ZenonT(40), <1>1, <4>1
      <4> QED
        BY ONLY <2>2, <4>2
    <3> QED
      BY <1>6, <3>1
  <2> QED
    BY <2>1, <2>2, <2>3
<1> QED
  BY ZenonT(40), <1>1, <1>6, <1>7, <1>8, <1>9, <1>10 DEF w

\* evict_lru() of a cache that is not empty.
LEMMA EvictGood ==
    ASSUME NEW l, NEW nm, NEW count, NEW u, NEW ch, DCGood(l, nm, count, u, ch), count > 0
    PROVE  LET s == Evict([links |-> l, nameOf |-> nm, count |-> count])
           IN  s.count = count - 1 /\ \E new : DCGood(s.links, s.nameOf, s.count, u, new)
<1> DEFINE d == l.next[Lru][2]
           m == ListDel(ListDel(l, LruHead(d)), HashHead(d))
           nn == [nm EXCEPT ![d] = NoName]
           q == ch[Lru]
           r == RemoveAt(q, 1)
<1>1. Lists(l, nm, ch) /\ count = Len(q) /\ count <= DcacheCapacity /\ LastUsed(nm, q, u)
  BY DEF DCGood
<1>2. q # << >> /\ q \in Seq(ListHead) /\ IsInjective(q) /\ Len(q) \in Nat
  <2>1. q \in Seq(ListHead) /\ IsInjective(q) /\ Len(q) \in Nat
    BY <1>1, OnLoops, HeadsApart DEF Lists
  <2> QED
    BY <1>1, <2>1, EmptySeq
<1>3. /\ l.next[Lru] # Lru /\ l.next[Lru] = q[1] /\ d \in Occupied(nm)
      /\ \E new : Lists(m, nn, new) /\ new[Lru] = r
  <2>1. Lists(l, nm, ch) /\ ch[Lru] # << >>
    BY <1>1, <1>2
  <2> QED
    BY ONLY <2>1, Evicted, ZenonT(60)
<1>4. LET s == Evict([links |-> l, nameOf |-> nm, count |-> count])
      IN  s.links = m /\ s.nameOf = nn /\ s.count = count - 1
  BY <1>3 DEF Evict
<1> HIDE DEF d, m, q, r
<1>5. /\ r \in Seq(ListHead) /\ Len(r) = Len(q) - 1
      /\ \A i \in 1 .. Len(r) : r[i] = q[i + 1]
  <2>1. 1 \in DOMAIN q
    BY <1>2, EmptySeq
  <2>2. /\ RemoveAt(q, 1) \in Seq(ListHead) /\ Len(RemoveAt(q, 1)) = Len(q) - 1
        /\ \A j \in DOMAIN RemoveAt(q, 1) : RemoveAt(q, 1)[j] = IF j < 1 THEN q[j] ELSE q[j + 1]
    BY ONLY <1>2, <2>1, Removed
  <2> QED
    BY <2>2 DEF r
<1>6. \A i \in 1 .. Len(q) : \E e \in Dentry : q[i] = LruHead(e) /\ q[i][2] = e
  <2>1. \A i \in 1 .. Len(q) : \E e \in Occupied(nm) : q[i] = LruHead(e)
    BY <1>1, ListsCount DEF q
  <2> QED
    BY <2>1, HeadsApart DEF Occupied
<1>7. LastUsed(nn, r, u)
  <2>1. u \in Seq(Name) /\ IsInjective(u) /\ Len(r) <= Len(u) /\ Len(u) \in Nat
    BY <1>1, <1>2, <1>5, LenProperties DEF LastUsed
  <2>2. ASSUME NEW i \in 1 .. Len(r)  PROVE nn[r[i][2]] = u[Len(u) - Len(r) + i]
    <3>1. i + 1 \in 1 .. Len(q) /\ r[i] = q[i + 1] /\ 1 \in 1 .. Len(q)
      BY <1>2, <1>5
    <3>2. q[i + 1] # q[1]
      <4>1. DOMAIN q = 1 .. Len(q) /\ i + 1 # 1
        BY <1>2, <3>1
      <4> QED
        BY <1>2, <3>1, <4>1 DEF IsInjective
    <3>3. q[i + 1][2] # d /\ q[i + 1][2] \in Dentry
      BY <1>3, <1>6, <3>1, <3>2 DEF d
    <3>4. nn[q[i + 1][2]] = nm[q[i + 1][2]]
      BY <1>1, <3>3 DEF Lists
    <3>5. nm[q[i + 1][2]] = u[Len(u) - Len(q) + (i + 1)]
      BY <1>1, <3>1 DEF LastUsed
    <3>6. Len(u) - Len(q) + (i + 1) = Len(u) - Len(r) + i
      BY <1>2, <1>5, <2>1
    <3> QED
      BY <3>1, <3>4, <3>5, <3>6
  <2> QED
    BY <2>1, <2>2 DEF LastUsed
<1>8. PICK new : Lists(m, nn, new) /\ new[Lru] = r
  BY <1>3
<1>9. count - 1 = Len(r) /\ count - 1 <= DcacheCapacity
  BY <1>1, <1>2, <1>5, DCSizes
<1>10. DCGood(m, nn, count - 1, u, new)
  BY <1>7, <1>8, <1>9 DEF DCGood
<1> QED
  BY <1>4, <1>10

\* add() of a name that is not cached, with room for it.
LEMMA InsertGood ==
    ASSUME NEW l, NEW nm, NEW count, NEW u, NEW ch, DCGood(l, nm, count, u, ch), count < DcacheCapacity,
           NEW n \in Name, NEW d \in Dentry, nm[d] = NoName, \A e \in Dentry : nm[e] # n
    PROVE  LET fresh   == InitListHead(InitListHead(l, LruHead(d)), HashHead(d))
               chained == ListAddTail(fresh, HashHead(d), BucketOf(n))
           IN  \E new : DCGood(ListAddTail(chained, LruHead(d), Lru), [nm EXCEPT ![d] = n],
                               count + 1, Reused(u, n), new)
<1> DEFINE fresh   == InitListHead(InitListHead(l, LruHead(d)), HashHead(d))
           chained == ListAddTail(fresh, HashHead(d), BucketOf(n))
           m  == ListAddTail(chained, LruHead(d), Lru)
           nn == [nm EXCEPT ![d] = n]
           q  == ch[Lru]
           r  == Append(q, LruHead(d))
           w  == Reused(u, n)
<1>1. Lists(l, nm, ch) /\ count = Len(q) /\ count <= DcacheCapacity /\ LastUsed(nm, q, u)
  BY DEF DCGood
<1>2. PICK new : Lists(m, nn, new) /\ new[Lru] = r
  BY <1>1, Inserted
<1> HIDE DEF m, q, r, w, fresh, chained
<1>3. q \in Seq(ListHead) /\ Len(q) \in Nat
  BY <1>1, OnLoops, HeadsApart DEF Lists, q
<1>4. /\ Len(r) = Len(q) + 1 /\ r[Len(q) + 1] = LruHead(d)
      /\ \A i \in 1 .. Len(q) : r[i] = q[i]
  <2>1. LruHead(d) \in ListHead
    BY HeadsApart
  <2> QED
    BY <1>3, <2>1, AppendProperties DEF r
<1>5. \A i \in 1 .. Len(q) : q[i][2] \in Dentry /\ q[i][2] # d /\ nm[q[i][2]] # n
  <2>1. \A i \in 1 .. Len(q) : \E e \in Occupied(nm) : q[i] = LruHead(e)
    BY <1>1, ListsCount DEF q
  <2>2. \A e \in Occupied(nm) : e \in Dentry /\ LruHead(e)[2] = e /\ e # d /\ nm[e] # n
    BY HeadsApart DEF Occupied
  <2> QED
    BY <2>1, <2>2
<1>6. /\ u \in Seq(Name) /\ IsInjective(u) /\ Len(q) <= Len(u) /\ Len(u) \in Nat
      /\ \A i \in 1 .. Len(q) : nm[q[i][2]] = u[Len(u) - Len(q) + i]
  BY <1>1, LenProperties DEF LastUsed
<1>7. /\ w \in Seq(Name) /\ IsInjective(w) /\ w[Len(w)] = n
      /\ (\A i \in 1 .. Len(u) : u[i] # n) =>
            /\ Len(w) = Len(u) + 1
            /\ \A i \in 1 .. Len(u) : w[i] = u[i]
      /\ \A k \in 1 .. Len(u) : u[k] = n =>
            /\ Len(w) = Len(u)
            /\ \A i \in 1 .. Len(u) - 1 : w[i] = IF i < k THEN u[i] ELSE u[i + 1]
  BY ZenonT(40), <1>6, ReusedOrder DEF w
<1>8. /\ Len(r) <= Len(w) /\ Len(w) \in Nat
      /\ \A i \in 1 .. Len(q) : w[Len(w) - Len(r) + i] = u[Len(u) - Len(q) + i]
  <2>1. CASE \A i \in 1 .. Len(u) : u[i] # n
    <3>1. Len(w) = Len(u) + 1
      BY <1>7, <2>1
    <3>2. Len(r) <= Len(w) /\ Len(w) \in Nat
      BY <1>3, <1>4, <1>6, <3>1
    <3>3. ASSUME NEW i \in 1 .. Len(q)
          PROVE  w[Len(w) - Len(r) + i] = u[Len(u) - Len(q) + i]
      <4>1. Len(w) - Len(r) + i = Len(u) - Len(q) + i /\ Len(u) - Len(q) + i \in 1 .. Len(u)
        BY <1>3, <1>4, <1>6, <3>1
      <4> QED
        BY <1>7, <2>1, <4>1
    <3> QED
      BY <3>2, <3>3
  <2>2. CASE \E k \in 1 .. Len(u) : u[k] = n
    <3>1. PICK k \in 1 .. Len(u) : u[k] = n
      BY <2>2
    <3>2. Len(w) = Len(u) /\ \A i \in 1 .. Len(u) - 1 : w[i] = IF i < k THEN u[i] ELSE u[i + 1]
      BY <1>7, <3>1
    <3>3. \A i \in 1 .. Len(q) : k # Len(u) - Len(q) + i
      BY <1>5, <1>6, <3>1
    <3>4. k <= Len(u) - Len(q)
      <4>1. SUFFICES ASSUME k > Len(u) - Len(q)  PROVE FALSE
        BY <1>3, <1>6
      <4>2. k - (Len(u) - Len(q)) \in 1 .. Len(q)
        BY <1>3, <1>6, <4>1
      <4>3. k = Len(u) - Len(q) + (k - (Len(u) - Len(q)))
        BY <1>3, <1>6
      <4> QED
        BY <3>3, <4>2, <4>3
    <3>5. Len(r) <= Len(w) /\ Len(w) \in Nat
      BY <1>3, <1>4, <1>6, <3>2, <3>4
    <3>6. ASSUME NEW i \in 1 .. Len(q)
          PROVE  w[Len(w) - Len(r) + i] = u[Len(u) - Len(q) + i]
      <4> DEFINE j == Len(w) - Len(r) + i
      <4>1. j \in 1 .. Len(u) - 1 /\ ~(j < k) /\ j + 1 = Len(u) - Len(q) + i
        BY <1>3, <1>4, <1>6, <3>2, <3>4
      <4> HIDE DEF j
      <4>2. w[j] = u[j + 1]
        BY <3>2, <4>1
      <4> QED
        BY <4>1, <4>2 DEF j
    <3> QED
      BY <3>5, <3>6
  <2> QED
    BY <2>1, <2>2
<1>9. LastUsed(nn, r, w)
  <2>1. ASSUME NEW i \in 1 .. Len(r)  PROVE nn[r[i][2]] = w[Len(w) - Len(r) + i]
    <3>1. CASE i = Len(q) + 1
      <4>1. r[i][2] = d
        BY <1>4, <3>1, HeadsApart
      <4>2. nn[d] = n
        BY <1>1 DEF Lists
      <4>3. Len(w) - Len(r) + i = Len(w)
        BY <1>3, <1>4, <1>8, <3>1
      <4> QED
        BY <1>7, <4>1, <4>2, <4>3
    <3>2. CASE i \in 1 .. Len(q)
      <4>1. r[i] = q[i] /\ q[i][2] # d /\ q[i][2] \in Dentry
        BY <1>4, <1>5, <3>2
      <4>2. nn[q[i][2]] = nm[q[i][2]]
        BY <1>1, <4>1 DEF Lists
      <4> QED
        BY <1>6, <1>8, <3>2, <4>1, <4>2
    <3>3. i = Len(q) + 1 \/ i \in 1 .. Len(q)
      BY <1>3, <1>4
    <3> QED
      BY <3>1, <3>2, <3>3
  <2> QED
    BY <1>7, <1>8, <2>1 DEF LastUsed
<1>10. count + 1 = Len(r) /\ count + 1 <= DcacheCapacity
  BY <1>1, <1>3, <1>4, DCSizes
<1>11. DCGood(m, nn, count + 1, w, new)
  BY <1>2, <1>9, <1>10 DEF DCGood
<1> QED
  BY <1>11 DEF m, w, chained, fresh

\* lookup() of a name that a dentry holds.
LEMMA HitGood ==
    ASSUME NEW l, NEW nm, NEW count, NEW u, NEW ch, DCGood(l, nm, count, u, ch),
           NEW n \in Name, NEW d \in Dentry, nm[d] = n
    PROVE  \E new : DCGood(ListAddTail(ListDelInit(l, LruHead(d)), LruHead(d), Lru), nm,
                           count, Reused(u, n), new)
<1> DEFINE m == ListAddTail(ListDelInit(l, LruHead(d)), LruHead(d), Lru)
           q == ch[Lru]
           w == Reused(u, n)
<1>1. Lists(l, nm, ch) /\ count = Len(q) /\ count <= DcacheCapacity /\ LastUsed(nm, q, u)
  BY DEF DCGood
<1>2. d \in Occupied(nm)
  BY DCSizes DEF Occupied
<1>3. PICK new : \E j \in 1 .. Len(q) :
          /\ Lists(m, nm, new)
          /\ q[j] = LruHead(d)
          /\ new[Lru] = Append(RemoveAt(q, j), LruHead(d))
  <2>1. Lists(l, nm, ch)
    BY <1>1
  <2> QED
    BY ONLY <1>2, <2>1, MovedBack
<1>4. PICK j \in 1 .. Len(q) :
          /\ Lists(m, nm, new)
          /\ q[j] = LruHead(d)
          /\ new[Lru] = Append(RemoveAt(q, j), LruHead(d))
  BY <1>3
<1> DEFINE t == RemoveAt(q, j)
           r == Append(t, LruHead(d))
<1> HIDE DEF m, q, r, t, w
<1>5. q \in Seq(ListHead) /\ Len(q) \in Nat /\ DOMAIN q = 1 .. Len(q)
  BY <1>1, OnLoops, HeadsApart DEF Lists, q
<1>6. /\ t \in Seq(ListHead) /\ Len(t) = Len(q) - 1 /\ DOMAIN t = 1 .. Len(t)
      /\ \A i \in DOMAIN t : t[i] = IF i < j THEN q[i] ELSE q[i + 1]
  <2>1. j \in DOMAIN q
    BY SMTT(40), <1>5
  <2>2. /\ RemoveAt(q, j) \in Seq(ListHead) /\ Len(RemoveAt(q, j)) = Len(q) - 1
        /\ \A i \in DOMAIN RemoveAt(q, j) :
              RemoveAt(q, j)[i] = IF i < j THEN q[i] ELSE q[i + 1]
    BY ONLY ZenonT(40), <1>5, <2>1, Removed
  <2> QED
    BY <2>2, LenProperties DEF t
<1>7. /\ Len(r) = Len(q) /\ r[Len(q)] = LruHead(d)
      /\ \A i \in 1 .. Len(q) - 1 : r[i] = IF i < j THEN q[i] ELSE q[i + 1]
  <2>1. LruHead(d) \in ListHead
    BY HeadsApart
  <2>2. Len(r) = Len(t) + 1 /\ r[Len(t) + 1] = LruHead(d) /\ \A i \in 1 .. Len(t) : r[i] = t[i]
    BY <1>6, <2>1, AppendProperties DEF r
  <2>3. Len(t) + 1 = Len(q) /\ Len(t) = Len(q) - 1
    BY <1>5, <1>6
  <2> QED
    BY <1>6, <2>2, <2>3
<1>8. /\ u \in Seq(Name) /\ IsInjective(u) /\ Len(q) <= Len(u) /\ Len(u) \in Nat
      /\ \A i \in 1 .. Len(q) : nm[q[i][2]] = u[Len(u) - Len(q) + i]
  BY <1>1, LenProperties DEF LastUsed
<1> DEFINE k == Len(u) - Len(q) + j
<1>9. k \in 1 .. Len(u)
  BY <1>5, <1>8
<1>10. u[k] = n
  <2>1. q[j][2] = d
    BY <1>4, HeadsApart
  <2> QED
    BY <1>8, <2>1
<1> HIDE DEF k
<1>11. /\ w \in Seq(Name) /\ IsInjective(w) /\ w[Len(w)] = n /\ Len(w) = Len(u)
       /\ \A i \in 1 .. Len(u) - 1 : w[i] = IF i < k THEN u[i] ELSE u[i + 1]
  <2>1. /\ w \in Seq(Name) /\ IsInjective(w) /\ w[Len(w)] = n
        /\ \A kk \in 1 .. Len(u) : u[kk] = n =>
              /\ Len(w) = Len(u)
              /\ \A i \in 1 .. Len(u) - 1 : w[i] = IF i < kk THEN u[i] ELSE u[i + 1]
    BY <1>8, ReusedOrder DEF w
  <2> QED
    BY <1>9, <1>10, <2>1
<1>12. LastUsed(nm, r, w)
  <2>1. ASSUME NEW i \in 1 .. Len(r)  PROVE nm[r[i][2]] = w[Len(w) - Len(r) + i]
    <3>1. CASE i = Len(q)
      <4>1. r[i][2] = d
        BY <1>7, <3>1, HeadsApart
      <4>2. Len(w) - Len(r) + i = Len(w)
        BY <1>5, <1>7, <1>8, <1>11, <3>1
      <4> QED
        BY <1>11, <4>1, <4>2
    <3>2. CASE i \in 1 .. Len(q) - 1
      <4> DEFINE a == Len(u) - Len(q) + i
      <4>1. /\ a \in 1 .. Len(u) - 1 /\ Len(w) - Len(r) + i = a
            /\ a < k <=> i < j
        BY <1>5, <1>7, <1>8, <1>11, <3>2 DEF k
      <4>2. i \in 1 .. Len(q) /\ i + 1 \in 1 .. Len(q) /\ a + 1 = Len(u) - Len(q) + (i + 1)
        BY <1>5, <1>8, <3>2
      <4>3. nm[q[i][2]] = u[a] /\ nm[q[i + 1][2]] = u[a + 1]
        BY <1>8, <4>2
      <4> HIDE DEF a
      <4>4. r[i] = (IF i < j THEN q[i] ELSE q[i + 1]) /\ w[a] = (IF a < k THEN u[a] ELSE u[a + 1])
        BY SMTT(40), <1>7, <1>11, <3>2, <4>1
      <4> QED
        BY <4>1, <4>3, <4>4
    <3>3. i = Len(q) \/ i \in 1 .. Len(q) - 1
      <4>1. \A a \in Nat : \A x \in 1 .. a : x = a \/ x \in 1 .. a - 1
        OBVIOUS
      <4>2. i \in 1 .. Len(q)
        BY <1>7
      <4> QED
        BY ONLY ZenonT(40), <1>5, <4>1, <4>2
    <3> QED
      BY <3>1, <3>2, <3>3
  <2>2. Len(r) <= Len(w)
    BY <1>7, <1>8, <1>11
  <2> QED
    BY <1>11, <2>1, <2>2 DEF LastUsed
<1>13. new[Lru] = r
  BY <1>4 DEF r, t, q
<1>14. DCGood(m, nm, count, w, new)
  BY <1>1, <1>4, <1>7, <1>12, <1>13 DEF DCGood
<1> QED
  BY <1>14 DEF m, w
-----------------------------------------------------------------------------
(* The directory cache *)

Chains == [h \in Heads |-> Walk(links.next, h)]

\* The inductive invariant: the walks are the lists.
DCInv == DCGood(links, nameOf, activeCount, used, Chains)

LEMMA SomeChains ==
    ASSUME NEW l, NEW nm, NEW count, NEW u, NEW ch, DCGood(l, nm, count, u, ch)
    PROVE  DCGood(l, nm, count, u, [h \in Heads |-> Walk(l.next, h)])
<1>1. AllLoops(l, ch)
  BY DEF DCGood, Lists
<1>2. ch = [h \in Heads |-> Walk(l.next, h)]
  BY <1>1, AllWalks
<1> QED
  BY <1>2

\* The dentries lookup() finds are those that hold the name.
LEMMA CachedAre ==
    ASSUME DCInv, NEW n \in Name
    PROVE  Cached(n) = {d \in Dentry : nameOf[d] = n}
<1>1. Lists(links, nameOf, Chains)
  BY DEF DCInv, DCGood
<1>2. BucketOf(n) \in Heads /\ HashOf[n] \in Bucket /\ n # NoName
  BY Buckets, DCSizes
<1>3. Walk(links.next, BucketOf(n)) = Chains[BucketOf(n)]
  BY <1>2 DEF Chains
<1>4. \A d \in Dentry : nameOf[d] = n => HashHead(d) \in Range(Chains[BucketOf(n)])
  <2>1. Range(Chains[BucketOf(n)]) =
            {HashHead(d) : d \in {e \in Occupied(nameOf) : HashOf[nameOf[e]] = HashOf[n]}}
    BY <1>1, <1>2 DEF Lists, Filled, BucketOf
  <2> QED
    BY <1>2, <2>1 DEF Occupied
<1> QED
  BY <1>3, <1>4 DEF Cached

\* Empty lists, no dentry cached.
LEMMA DCStart == ASSUME DCInit  PROVE DCInv
<1> DEFINE ch == [h \in Heads |-> << >>]
<1>1. links \in Links
  BY DEF DCInit, Links
<1>2. ASSUME NEW h \in Heads  PROVE Loop(links, h, << >>)
  <2>1. h \in ListHead
    BY HeadsApart
  <2>2. << >> \in Seq(ListHead) /\ Len(<< >>) = 0 /\ Range(<< >>) = {} /\ IsInjective(<< >>)
    BY DEF Range, IsInjective
  <2>3. links.next[h] = h /\ links.prev[h] = h
    BY <2>1 DEF DCInit
  <2>4. At(h, << >>, 0) = h /\ At(h, << >>, 0 + 1) = h
    BY <2>2 DEF At
  <2>5. \A i \in 0 .. Len(<< >>) : i = 0
    BY <2>2
  <2> QED
    BY <2>1, <2>2, <2>3, <2>4, <2>5 DEF Loop, Entries, Leads
<1>3. AllLoops(links, ch)
  BY <1>1, <1>2 DEF AllLoops
<1>4. nameOf \in [Dentry -> Name \union {NoName}] /\ Occupied(nameOf) = {}
  BY DEF DCInit, Occupied
<1>5. Filled(nameOf, ch)
  <2>1. Range(<< >>) = {}
    BY DEF Range
  <2> QED
    BY <1>4, <2>1, HeadsApart DEF Filled
<1>6. LastUsed(nameOf, << >>, used)
  <2>1. used = << >>
    BY DEF DCInit
  <2> QED
    BY <2>1 DEF LastUsed, IsInjective
<1>7. activeCount = Len(ch[Lru]) /\ activeCount <= DcacheCapacity
  BY HeadsApart, DCSizes DEF DCInit
<1>8. ch[Lru] = << >>
  BY HeadsApart
<1>9. DCGood(links, nameOf, activeCount, used, ch)
  BY <1>3, <1>4, <1>5, <1>6, <1>7, <1>8 DEF DCGood, Lists
<1> QED
  BY <1>9, SomeChains DEF DCInv, Chains

LEMMA DCStep == ASSUME DCInv, [DCNext]_dcVars  PROVE DCInv'
<1> DEFINE good(l, nm, count, u) == \E ch : DCGood(l, nm, count, u, ch)
<1>1. SUFFICES good(links', nameOf', activeCount', used')
  BY SomeChains DEF DCInv, Chains
<1>2. DCGood(links, nameOf, activeCount, used, Chains)
  BY DEF DCInv
<1>3. /\ nameOf \in [Dentry -> Name \union {NoName}] /\ activeCount <= DcacheCapacity
      /\ activeCount \in Nat /\ used \in Seq(Name)
  <2>1. Lists(links, nameOf, Chains) /\ activeCount = Len(Chains[Lru]) /\ used \in Seq(Name)
    BY <1>2 DEF DCGood, LastUsed
  <2>2. activeCount \in Nat
    BY <2>1, OnLoops, HeadsApart DEF Lists
  <2> QED
    BY <1>2, <2>1, <2>2 DEF DCGood, Lists
<1>4. State.links = links /\ State.nameOf = nameOf /\ State.count = activeCount
  BY DEF State
<1>5. ASSUME activeCount > 0
      PROVE  /\ Evict(State).count = activeCount - 1
             /\ good(Evict(State).links, Evict(State).nameOf, Evict(State).count, used)
             /\ \A e \in Dentry : Evict(State).nameOf[e] \in {nameOf[e], NoName}
  <2>1. /\ Evict(State).count = activeCount - 1
        /\ good(Evict(State).links, Evict(State).nameOf, Evict(State).count, used)
    BY <1>2, <1>5, EvictGood DEF State
  <2>2. \A e \in Dentry : Evict(State).nameOf[e] \in {nameOf[e], NoName}
    BY <1>3, <1>4 DEF Evict
  <2> QED
    BY <2>1, <2>2
<1>6. CASE EvictLru
  <2>1. activeCount > 0 /\ links' = Evict(State).links /\ nameOf' = Evict(State).nameOf
        /\ activeCount' = Evict(State).count /\ used' = used
    BY <1>6 DEF EvictLru
  <2> QED
    BY <1>5, <2>1
<1>7. ASSUME NEW n \in Name, LookupHit(n)  PROVE good(links', nameOf', activeCount', used')
  <2>1. PICK d \in Cached(n) :
            /\ links' = ListAddTail(ListDelInit(links, LruHead(d)), LruHead(d), Lru)
            /\ used' = UsedNow(n) /\ nameOf' = nameOf /\ activeCount' = activeCount
    BY <1>7 DEF LookupHit
  <2>2. d \in Dentry /\ nameOf[d] = n
    BY DEF Cached
  <2>3. UsedNow(n) = Reused(used, n)
    BY DEF UsedNow, Reused
  <2>4. \E new : DCGood(ListAddTail(ListDelInit(links, LruHead(d)), LruHead(d), Lru), nameOf,
                        activeCount, Reused(used, n), new)
    BY ONLY <1>2, <2>2, n \in Name, HitGood
  <2> QED
    BY <2>1, <2>3, <2>4
<1>8. ASSUME NEW n \in Name, Add(n)  PROVE good(links', nameOf', activeCount', used')
  <2> DEFINE s == IF activeCount >= DcacheCapacity THEN Evict(State) ELSE State
  <2>1. Cached(n) = {}
    BY <1>8 DEF Add
  <2>2. PICK d \in {e \in Dentry : s.nameOf[e] = NoName} :
            LET fresh   == InitListHead(InitListHead(s.links, LruHead(d)), HashHead(d))
                chained == ListAddTail(fresh, HashHead(d), BucketOf(n))
            IN  /\ links' = ListAddTail(chained, LruHead(d), Lru)
                /\ nameOf' = [s.nameOf EXCEPT ![d] = n]
    BY <1>8 DEF Add
  <2>3. activeCount' = s.count + 1 /\ used' = Reused(used, n)
    BY <1>8 DEF Add, UsedNow, Reused
  <2>4. \A e \in Dentry : nameOf[e] # n
    BY <2>1, CachedAre
  <2>5. /\ good(s.links, s.nameOf, s.count, used) /\ s.count < DcacheCapacity
        /\ \A e \in Dentry : s.nameOf[e] # n
    <3>1. n # NoName /\ DcacheCapacity \in Nat \ {0}
      BY DCSizes
    <3>2. CASE activeCount >= DcacheCapacity
      <4>1. activeCount > 0 /\ s = Evict(State)
        BY <1>3, <3>1, <3>2
      <4>2. Evict(State).count < DcacheCapacity
        <5>1. Evict(State).count = activeCount - 1
          BY <1>5, <4>1
        <5>2. activeCount \in Nat /\ activeCount <= DcacheCapacity
          BY <1>3
        <5> QED
          BY ONLY <3>1, <5>1, <5>2
      <4>3. \A e \in Dentry : Evict(State).nameOf[e] # n
        BY <1>5, <2>4, <3>1, <4>1
      <4> QED
        BY <1>5, <4>1, <4>2, <4>3
    <3>3. CASE ~(activeCount >= DcacheCapacity)
      <4>1. s = State
        BY <3>3
      <4>2. activeCount < DcacheCapacity
        BY <1>3, <3>1, <3>3
      <4> QED
        BY <1>2, <1>4, <2>4, <4>1, <4>2
    <3> QED
      BY <3>2, <3>3
  <2> HIDE DEF s
  <2>6. PICK ch : DCGood(s.links, s.nameOf, s.count, used, ch)
    BY <2>5
  <2>7. d \in Dentry /\ s.nameOf[d] = NoName
    OBVIOUS
  <2>8. LET fresh   == InitListHead(InitListHead(s.links, LruHead(d)), HashHead(d))
            chained == ListAddTail(fresh, HashHead(d), BucketOf(n))
        IN  \E new : DCGood(ListAddTail(chained, LruHead(d), Lru), [s.nameOf EXCEPT ![d] = n],
                            s.count + 1, Reused(used, n), new)
    BY ONLY <2>5, <2>6, <2>7, n \in Name, InsertGood
  <2> QED
    BY <2>2, <2>3, <2>8
<1>9. CASE UNCHANGED dcVars
  BY <1>2, <1>9 DEF dcVars
<1> QED
  BY <1>6, <1>7, <1>8, <1>9 DEF DCNext

\* What the invariant says of the walks, of the dentries and of the order.
LEMMA DCMeans == ASSUME DCInv  PROVE DCTypeOK /\ DcacheSound /\ LruOrder
<1> DEFINE s == Chains[Lru]
<1>1. /\ Lists(links, nameOf, Chains) /\ activeCount = Len(s) /\ activeCount <= DcacheCapacity
      /\ LastUsed(nameOf, s, used)
  BY DEF DCInv, DCGood
<1>2. /\ AllLoops(links, Chains) /\ nameOf \in [Dentry -> Name \union {NoName}]
      /\ Filled(nameOf, Chains)
  BY <1>1 DEF Lists
<1>3. \A h \in Heads : /\ Walk(links.next, h) = Chains[h] /\ IsInjective(Chains[h])
                       /\ Walk(links.prev, h) = Reverse(Chains[h])
  BY <1>2, AllWalks
<1>4. /\ Cardinality(Occupied(nameOf)) = Len(s) /\ Len(s) \in 0 .. Cardinality(Dentry)
      /\ \A i \in 1 .. Len(s) : \E d \in Occupied(nameOf) : s[i] = LruHead(d)
  BY <1>1, ListsCount
<1>5. Lru \in Heads /\ \A b \in Bucket : <<b, "bucket">> \in Heads
  BY HeadsApart
<1>6. DCTypeOK
  <2>1. links \in Links /\ used \in Seq(Name)
    BY <1>1, <1>2 DEF AllLoops, LastUsed
  <2> QED
    BY <1>1, <1>2, <1>4, <2>1 DEF DCTypeOK, Links
<1>7. DcacheSound
  <2>1. Occupied(nameOf) = {d \in Dentry : nameOf[d] # NoName}
    BY DEF Occupied
  <2>2. \A h \in {Lru} \union (Bucket \X {"bucket"}) :
            /\ Walk(links.prev, h) = Reverse(Walk(links.next, h))
            /\ IsInjective(Walk(links.next, h))
    BY <1>3 DEF Heads
  <2>3. Range(Walk(links.next, Lru)) = {LruHead(d) : d \in Occupied(nameOf)}
    BY <1>2, <1>3, <1>5 DEF Filled
  <2>4. \A b \in Bucket : Range(Walk(links.next, <<b, "bucket">>)) =
            {HashHead(d) : d \in {e \in Occupied(nameOf) : HashOf[nameOf[e]] = b}}
    BY <1>2, <1>3, <1>5 DEF Filled
  <2>5. activeCount = Cardinality(Occupied(nameOf)) /\ activeCount <= DcacheCapacity
    BY <1>1, <1>4
  <2> QED
    BY <2>1, <2>2, <2>3, <2>4, <2>5 DEF DcacheSound
<1>8. LruOrder
  <2> DEFINE c == activeCount
             a == [i \in 1 .. c |-> nameOf[Walk(links.next, Lru)[i][2]]]
             b == SubSeq(used, Len(used) - c + 1, Len(used))
  <2>1. /\ used \in Seq(Name) /\ c <= Len(used) /\ Len(used) \in Nat /\ c \in Nat
        /\ \A i \in 1 .. c : nameOf[s[i][2]] = used[Len(used) - c + i]
    <3>1. used \in Seq(Name) /\ c = Len(s) /\ Len(s) \in Nat /\ Len(used) \in Nat
      BY <1>1, <1>4, LenProperties DEF LastUsed
    <3>2. c <= Len(used) /\ \A i \in 1 .. c : nameOf[s[i][2]] = used[Len(used) - c + i]
      BY <1>1 DEF LastUsed
    <3> QED
      BY ONLY <3>1, <3>2
  <2>2. /\ b \in Seq(Name) /\ Len(b) = c
        /\ \A i \in 1 .. c : b[i] = used[Len(used) - c + i]
    <3>1. \A i \in Len(used) - c + 1 .. Len(used) : used[i] \in Name
      BY <2>1, ElementOfSeq
    <3>2. /\ SubSeq(used, Len(used) - c + 1, Len(used)) \in Seq(Name)
          /\ Len(b) = IF Len(used) - c + 1 <= Len(used)
                      THEN Len(used) - (Len(used) - c + 1) + 1 ELSE 0
          /\ \A i \in 1 .. Len(used) - (Len(used) - c + 1) + 1 :
                b[i] = used[(Len(used) - c + 1) + i - 1]
      BY <2>1, <3>1, SubSeqProperties
    <3>3. Len(used) - (Len(used) - c + 1) + 1 = c /\ (Len(used) - c + 1 <= Len(used) <=> c > 0)
      BY <2>1
    <3>4. \A i \in 1 .. c : (Len(used) - c + 1) + i - 1 = Len(used) - c + i
      BY <2>1
    <3> HIDE DEF b, c
    <3> QED
      BY <2>1, <3>2, <3>3, <3>4 DEF b
  <2>3. \A i \in 1 .. c : a[i] = b[i]
    <3>1. Walk(links.next, Lru) = s
      BY <1>3, <1>5
    <3> QED
      BY <2>1, <2>2, <3>1
  <2>4. a \in Seq(Name) /\ Len(a) = c
    <3>1. \A i \in 1 .. c : a[i] \in Name
      <4>1. \A i \in 1 .. Len(b) : b[i] \in Name
        BY <2>2, ElementOfSeq
      <4> QED
        BY <2>2, <2>3, <4>1
    <3>2. a = [i \in 1 .. c |-> a[i]]
      OBVIOUS
    <3> HIDE DEF a, b, c
    <3> QED
      BY <2>1, <3>1, <3>2
  <2>5. a = b
    <3> HIDE DEF a, b, c
    <3> QED
      BY <2>2, <2>3, <2>4, SeqEqual
  <2> QED
    BY <2>5 DEF LruOrder
<1> QED
  BY <1>6, <1>7, <1>8

\* The intrusive lists of the directory cache are closed in both directions, each
\* cached dentry is on the chain of its bucket and on the eviction list and on no
\* other, the count is right and within the capacity, and what is cached is what
\* was used last, in the order of the last uses: whatever the numbers of dentries,
\* of buckets and of names and whatever the capacity.
THEOREM DcacheCorrect == DCSpec => [](DCTypeOK /\ DcacheSound /\ LruOrder)
<1>1. DCInit => DCInv
  BY DCStart
<1>2. DCInv /\ [DCNext]_dcVars => DCInv'
  BY DCStep
<1>3. DCInv => DCTypeOK /\ DcacheSound /\ LruOrder
  BY DCMeans
<1> QED
  BY <1>1, <1>2, <1>3, PTL DEF DCSpec
-----------------------------------------------------------------------------
(* The engines as one run has them: each execution is of one of them *)

EnginesInv ==
    /\ part = "lsm" => LSMInv
    /\ part = "bitcask" => BCInv
    /\ part = "pages" => SPInv
    /\ part = "tiny lsm" => TinyInv

LEMMA EnginesInvInit == MCInit => EnginesInv
<1> SUFFICES ASSUME MCInit  PROVE EnginesInv
  OBVIOUS
<1>1. /\ BCInit /\ SPInit /\ TinyInit
      /\ part \notin {"deep lsm", "wide lsm"} => AMInit /\ LSMInit
  BY DEF MCInit
<1> QED
  BY <1>1, LSMInvInit, BCInvInit, SPInvInit, TinyInvInit DEF EnginesInv

LEMMA EnginesInvStep == EnginesInv /\ [StoreNext \/ OtherNext]_vars => EnginesInv'
<1> SUFFICES ASSUME EnginesInv, [StoreNext \/ OtherNext]_vars  PROVE EnginesInv'
  OBVIOUS
<1>1. /\ part' = part
      /\ part = "lsm" => [LSMNext]_lsmVars
      /\ part = "bitcask" => [BCNext]_bcVars
      /\ part = "pages" => [SPNext]_spVars
      /\ part = "tiny lsm" => [TinyNext]_tinyVars
  <2>1. CASE StoreNext
    BY <2>1 DEF StoreNext
  <2>2. CASE OtherNext
    BY <2>2 DEF OtherNext, treeVars, engineVars, lsmVars, bcVars, spVars, tinyVars
  <2>3. CASE UNCHANGED vars
    BY <2>3 DEF vars, treeVars, engineVars, lsmVars, bcVars, spVars, tinyVars
  <2> QED
    BY <2>1, <2>2, <2>3
<1> QED
  BY <1>1, LSMInvStep, BCInvStep, SPInvStep, TinyInvStep DEF EnginesInv

\* Whichever engine runs, its get() always answers with the last value put: what
\* the run on MCStores checks on three keys, for any keys, values, sizes and bounds.
THEOREM GetsLastPutCorrect == MCSpec => []GetsLastPut
<1>1. EnginesInv => GetsLastPut
  BY LSMInvSound, BCInvSound, SPInvSound, TinyInvSound DEF EnginesInv, GetsLastPut
<1> QED
  BY <1>1, EnginesInvInit, EnginesInvStep, PTL DEF MCSpec
=============================================================================
