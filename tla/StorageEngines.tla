---------------------------- MODULE StorageEngines ----------------------------
(***************************************************************************)
(* The LSM tree of lsm_trees.cpp and the three engines of                  *)
(* storage_engines_breakdown.cpp.                                          *)
(*                                                                         *)
(* LSMTree (LSM): leveled compaction.  A sorted run (SSTable) is a         *)
(* non-empty function from the keys it holds to a value or a tombstone; a  *)
(* level is a sequence of runs, the newest first on level 0, in key order  *)
(* below.  The Bloom filter can only skip a run that does not hold the     *)
(* key, so it does not appear.  The write-ahead log keeps the last record  *)
(* of each key: the program only ever appends to it and clears it.  Loops  *)
(* are functions from the number of rounds done to the loop's variables.   *)
(*                                                                         *)
(* BitcaskEngine (BC): an append-only log and an index in memory, the key  *)
(* directory, of where each key's last record starts.  The log is a        *)
(* sequence of cells: a header, which carries the stored key length, then  *)
(* one cell per character of the key and of the value.  An offset is the   *)
(* number of cells before a record.  Timestamps, sizes in statistics and   *)
(* the flag byte, which no operation reads, are left out.                  *)
(*                                                                         *)
(* BTreePageEngine (SP): cells are added at the end of the last page,      *)
(* slots after its header, and an index maps each key to a page and a      *)
(* slot.  The key and the two length fields of a cell take CellOverhead.   *)
(* A record longer than an empty page is outside the domain: nothing in    *)
(* put() checks for it.                                                    *)
(*                                                                         *)
(* LSMTinyEngine (Tiny): a memtable, runs kept oldest first, a compaction  *)
(* the caller asks for.  A deletion stores the sentinel string             *)
(* "__TOMBSTONE__": the values put are taken to be other strings.          *)
(***************************************************************************)
EXTENDS AbstractMap, Integers, SequencesExt

-----------------------------------------------------------------------------
(* Tables: functions from the keys they hold to entries                     *)

\* The table with the entry of one key replaced or added.
With(t, k, entry) == [j \in DOMAIN t \union {k} |-> IF j = k THEN entry ELSE t[j]]

\* Tables are numbered in the order in which they are asked.
HeldIn(tables) == UNION {DOMAIN tables[i] : i \in DOMAIN tables}
Holders(tables, k) == {i \in DOMAIN tables : k \in DOMAIN tables[i]}

\* Mutant: the tables are merged from the newest to the oldest.
OldestWins(tables) == [k \in HeldIn(tables) |-> tables[Max(Holders(tables, k))][k]]

\* The entries of all the tables, an earlier table hiding a later one.
Overlay(tables) == [k \in HeldIn(tables) |-> tables[Min(Holders(tables, k))][k]]
-----------------------------------------------------------------------------
(* LSMTree                                                                  *)

CONSTANTS Tombstone,           \* the entry a remove() leaves
          Absent,              \* "this run says nothing of the key"
          MemtableThreshold, L0CompactionThreshold, MaxLevels, IndexInterval

ASSUME LSMSizes ==
    /\ Key \subseteq Nat
    /\ {MemtableThreshold, L0CompactionThreshold, IndexInterval} \subseteq Nat \ {0}
    /\ MaxLevels \in Nat \ {0, 1}
    /\ Tombstone \notin Value /\ Absent \notin Value \union {Tombstone}

VARIABLES memtable, levels, wal

lsmVars == <<memtable, levels, wal, kv>>

Entry == Value \union {Tombstone}
Level == 0 .. MaxLevels - 1
NoEntries == [k \in {} |-> Tombstone]

LSMTypeOK ==
    /\ DOMAIN memtable \subseteq Key /\ \A k \in DOMAIN memtable : memtable[k] \in Entry
    /\ \A l \in Level : \A t \in Range(levels[l]) :
          /\ DOMAIN t \subseteq Key /\ DOMAIN t # {}
          /\ \A k \in DOMAIN t : t[k] \in Entry

LSMInit ==
    /\ memtable = NoEntries
    /\ levels = [l \in Level |-> << >>]
    /\ wal = NoEntries
-----------------------------------------------------------------------------
(* Sorted runs *)

MinKey(t) == Min(DOMAIN t)
MaxKey(t) == Max(DOMAIN t)

RankIn(S, k) == Cardinality({j \in S : j < k})

InOrder(S) == [i \in 1 .. Cardinality(S) |-> CHOOSE k \in S : RankIn(S, k) = i - 1]

\* Runs sorted by their first keys, which differ.
SortedRuns(runs) ==
    LET firsts == InOrder({MinKey(t) : t \in runs})
    IN  [i \in DOMAIN firsts |-> CHOOSE t \in runs : MinKey(t) = firsts[i]]

\* Mutant: ranges that only touch are taken to be apart.
OverlapsStrictly(t, low, high) == ~(MaxKey(t) <= low \/ MinKey(t) >= high)

OverlapsWith(t, low, high) == ~(MaxKey(t) < low \/ MinKey(t) > high)

\* A round of the binary search for the last block whose first key is at most
\* "key" (low > high: the loop is over, also when mid = 0 breaks it).
BlockRound(sparse, key, s) ==
    LET mid == s.low + (s.high - s.low) \div 2
    IN  IF s.low > s.high THEN s
        ELSE IF sparse[mid] <= key THEN [low |-> mid + 1, high |-> s.high, block |-> mid]
        ELSE [low |-> s.low, high |-> mid - 1, block |-> s.block]

\* SSTable::get: only the block the sparse index points at is scanned.
TableGet(t, key) ==
    LET keys   == InOrder(DOMAIN t)
        blocks == (Len(keys) - 1) \div IndexInterval
        sparse == [b \in 0 .. blocks |-> keys[b * IndexInterval + 1]]
        search[n \in 0 .. blocks + 1] ==
            IF n = 0 THEN [low |-> 0, high |-> blocks, block |-> 0]
            ELSE BlockRound(sparse, key, search[n - 1])
        block  == search[blocks + 1].block
        last   == IF block < blocks THEN (block + 1) * IndexInterval ELSE Len(keys)
    IN  IF /\ MinKey(t) <= key /\ key <= MaxKey(t)
           /\ \E i \in block * IndexInterval + 1 .. last : keys[i] = key
        THEN t[key] ELSE Absent

\* A round of the search for the run of a level whose range holds the key; what
\* that run says of the key ends it.
RunRound(tables, key, s) ==
    LET mid == s.low + (s.high - s.low) \div 2
        t   == tables[mid + 1]
    IN  IF s.low > s.high THEN s
        ELSE IF MinKey(t) <= key /\ key <= MaxKey(t)
             THEN [low |-> s.low, high |-> s.low - 1, answer |-> TableGet(t, key)]
        ELSE IF key < MinKey(t) THEN [low |-> s.low, high |-> mid - 1, answer |-> Absent]
        ELSE [low |-> mid + 1, high |-> s.high, answer |-> Absent]

\* get() on a level below 0.
LevelGet(tables, key) ==
    LET search[n \in 0 .. Len(tables)] ==
            IF n = 0 THEN [low |-> 0, high |-> Len(tables) - 1, answer |-> Absent]
            ELSE RunRound(tables, key, search[n - 1])
    IN  search[Len(tables)].answer

FirstAnswer(answers) ==
    LET given == {i \in DOMAIN answers : answers[i] # Absent}
    IN  IF given = {} THEN Absent ELSE answers[Min(given)]

\* LSMTree::get: the memtable, level 0 from the newest run, then each level.
Get(key) ==
    LET answers == [l \in Level |->
                       IF l = 0
                       THEN FirstAnswer([i \in DOMAIN levels[0] |-> TableGet(levels[0][i], key)])
                       ELSE LevelGet(levels[l], key)]
        entry   == IF key \in DOMAIN memtable THEN memtable[key] ELSE FirstAnswer(answers)
    IN  IF entry \in {Absent, Tombstone} THEN NoValue ELSE entry
-----------------------------------------------------------------------------
(* Compaction *)

\* The entries cut, in key order, into runs of twice a memtable.
Chunks(entries) ==
    LET size    == 2 * MemtableThreshold
        count   == (Cardinality(DOMAIN entries) + size - 1) \div size
    IN  [i \in 1 .. count |->
            Restrict(entries, {k \in DOMAIN entries : RankIn(DOMAIN entries, k) \div size = i - 1})]

Overfull(l, tables) == Len(tables) > L0CompactionThreshold * 2^l

\* compact_level(s.level): all of level 0, or the first run of a deeper level,
\* is merged into the runs it overlaps on the next level.  Those share no key
\* (LevelsSound), so that their order does not matter.  The level compacted
\* next is "next" if it is too full, else the last, on which the call returns.
CompactLevel(s) ==
    LET level   == s.level
        next    == level + 1
        tables  == s.levels[level]
        picked  == IF level = 0 THEN tables ELSE <<Head(tables)>>
        keys    == HeldIn(picked)
        meeting == {i \in DOMAIN s.levels[next] :
                       OverlapsWith(s.levels[next][i], Min(keys), Max(keys))}
        apart   == DOMAIN s.levels[next] \ meeting
        merged  == Overlay(<<Overlay(picked), Overlay(Restrict(s.levels[next], meeting))>>)
        kept    == IF next = MaxLevels - 1
                   THEN Restrict(merged, {k \in DOMAIN merged : merged[k] # Tombstone})
                   ELSE merged
        below   == SortedRuns(Range(Restrict(s.levels[next], apart)) \union Range(Chunks(kept)))
    IN  IF level >= MaxLevels - 1 \/ tables = << >> THEN s
        ELSE [levels |-> [s.levels EXCEPT ![level] = IF level = 0 THEN << >> ELSE Tail(@),
                                          ![next] = below],
              level  |-> IF Overfull(next, below) THEN next ELSE MaxLevels - 1]

\* compact_level(0), with the calls it ends in.
CompactedLevels(ls) ==
    LET after[n \in 0 .. MaxLevels - 1] ==
            IF n = 0 THEN [levels |-> ls, level |-> 0] ELSE CompactLevel(after[n - 1])
    IN  after[MaxLevels - 1].levels

\* flush_memtable() on a memtable that is not empty.
FlushMemtable(m) ==
    LET ls == [levels EXCEPT ![0] = <<m>> \o @]
    IN  /\ levels' = IF Len(ls[0]) >= L0CompactionThreshold THEN CompactedLevels(ls) ELSE ls
        /\ memtable' = NoEntries
        /\ wal' = NoEntries
-----------------------------------------------------------------------------
(* put(), remove() and flush() *)

Write(k, entry) ==
    LET m == With(memtable, k, entry)
    IN  IF Cardinality(DOMAIN m) >= MemtableThreshold
        THEN FlushMemtable(m)
        ELSE /\ memtable' = m
             /\ wal' = With(wal, k, entry)
             /\ UNCHANGED levels

LSMPut(k, v) == Write(k, v) /\ AMPut(k, v)

LSMRemove(k) == Write(k, Tombstone) /\ AMRemove(k)

LSMFlush == memtable # NoEntries /\ FlushMemtable(memtable) /\ UNCHANGED kv

LSMNext ==
    \/ \E k \in Key, v \in Value : LSMPut(k, v)
    \/ \E k \in Key : LSMRemove(k)
    \/ LSMFlush

LSMSpec == AMInit /\ LSMInit /\ [][LSMNext]_lsmVars
-----------------------------------------------------------------------------
(* What is checked *)

\* Below level 0 the runs of a level are in key order and share no key range,
\* which the binary search of get() relies on; no tombstone reaches the last
\* level; the log would rebuild exactly the memtable.
LevelsSound ==
    /\ Len(levels[0]) < L0CompactionThreshold
    /\ \A l \in Level \ {0} : \A i \in 1 .. Len(levels[l]) - 1 :
          MaxKey(levels[l][i]) < MinKey(levels[l][i + 1])
    /\ \A t \in Range(levels[MaxLevels - 1]) : Tombstone \notin Range(t)
    /\ wal = memtable

\* get() answers with the last value put: no older entry shows through, however
\* the entries are spread over the memtable and the levels.
LSMAnswers == \A k \in Key : Get(k) = kv[k]
-----------------------------------------------------------------------------
CONSTANTS KeyLen, ValLen,       \* characters of a key, of a value
          LengthModulus,        \* the stored key length is a uint16_t (BC)
          MaxLog,               \* bound: cells of the log (BC)
          CellOverhead, SlotSize, HeaderSize, PageSize,   \* (SP)
          MaxPages,             \* bound: pages allocated (SP)
          Sentinel,             \* not in Value (Tiny)
          TinyThreshold,        \* memtable_threshold_ (Tiny)
          MaxTables             \* bound: runs held at a time (Tiny)

ASSUME RecordSizes == \A v \in Value : ValLen[v] \in Nat

\* The length of a key fits the field it is stored in.
ASSUME BCSizes ==
    /\ LengthModulus \in Nat /\ \A k \in Key : KeyLen[k] \in 0 .. LengthModulus - 1
    /\ MaxLog \in Nat

\* A record fits an empty page: put() does not ask.
ASSUME SPSizes ==
    /\ CellOverhead \in Nat \ {0} /\ {SlotSize, HeaderSize, PageSize} \subseteq Nat
    /\ HeaderSize <= PageSize
    /\ \A v \in Value : HeaderSize + SlotSize + CellOverhead + ValLen[v] <= PageSize
    /\ MaxPages \in Nat \ {0}

ASSUME TinySizes ==
    /\ Sentinel \notin Value
    /\ TinyThreshold \in Nat \ {0} /\ MaxTables \in Nat

VARIABLES diskLog, keydir,      \* BitcaskEngine
          pages,                \* page number -> its slots, free space and cells
          index,                \* btree_index_
          tinyMem, sstables     \* LSMTinyEngine

bcVars == <<diskLog, keydir, kv>>
spVars == <<pages, index, kv>>
tinyVars == <<tinyMem, sstables, kv>>
-----------------------------------------------------------------------------
(* BitcaskEngine                                                            *)

Pointer == [offset : 0 .. MaxLog, size : Nat, tombstone : BOOLEAN]

NoPointers == [k \in {} |-> [offset |-> 0, size |-> 0, tombstone |-> TRUE]]

BCTypeOK ==
    /\ DOMAIN keydir \subseteq Key
    /\ \A k \in DOMAIN keydir : keydir[k] \in Pointer
    /\ Len(diskLog) <= MaxLog

BCInit ==
    /\ diskLog = << >>
    /\ keydir = NoPointers

KeyCells(k) == [i \in 1 .. KeyLen[k] |-> <<"key", i>>]
ValueCells(v) == [i \in 1 .. ValLen[v] |-> <<v, i>>]

Record(k, valueCells) == << <<"header", KeyLen[k] % LengthModulus>> >> \o KeyCells(k) \o valueCells

Live(k) == k \in DOMAIN keydir /\ ~keydir[k].tombstone

\* The cells get() copies: it skips the header and the stored key length.
ReadAt(disk, ptr) ==
    LET start == ptr.offset + 1 + disk[ptr.offset + 1][2]
    IN  SubSeq(disk, start + 1, start + ptr.size)

BCPut(k, v) ==
    /\ Len(diskLog) + 1 + KeyLen[k] + ValLen[v] <= MaxLog
    /\ diskLog' = diskLog \o Record(k, ValueCells(v))
    /\ keydir' = With(keydir, k, [offset |-> Len(diskLog), size |-> ValLen[v], tombstone |-> FALSE])
    /\ AMPut(k, v)

\* del() of a key that is there; of any other it returns at once.
BCDel(k) ==
    /\ Live(k)
    /\ Len(diskLog) + 1 + KeyLen[k] <= MaxLog
    /\ diskLog' = diskLog \o Record(k, << >>)
    /\ keydir' = With(keydir, k, [offset |-> Len(diskLog), size |-> 0, tombstone |-> TRUE])
    /\ AMRemove(k)

\* merge_and_compact(): the live records are copied, in the order in which the
\* hash table lists the keys, to a new log with a new directory.
Compacted(order) ==
    LET after[n \in 0 .. Len(order)] ==
            IF n = 0 THEN [log |-> << >>, dir |-> NoPointers]
            ELSE LET new == after[n - 1]
                     k   == order[n]
                 IN  [log |-> new.log \o Record(k, ReadAt(diskLog, keydir[k])),
                      dir |-> With(new.dir, k, [keydir[k] EXCEPT !.offset = Len(new.log)])]
    IN  after[Len(order)]

MergeAndCompact(order) ==
    /\ diskLog' = Compacted(order).log
    /\ keydir' = Compacted(order).dir
    /\ UNCHANGED kv

BCNext ==
    \/ \E k \in Key, v \in Value : BCPut(k, v)
    \/ \E k \in Key : BCDel(k)
    \/ \E order \in SetToSeqs({k \in Key : Live(k)}) : MergeAndCompact(order)

BCSpec == AMInit /\ BCInit /\ [][BCNext]_bcVars

\* What get() reads through the directory is the last value put, wherever
\* compaction has moved its record.
BCAnswers ==
    \A k \in Key : IF Live(k) THEN /\ kv[k] # NoValue
                                   /\ ReadAt(diskLog, keydir[k]) = ValueCells(kv[k])
                   ELSE kv[k] = NoValue
-----------------------------------------------------------------------------
(* BTreePageEngine                                                          *)

EmptyPage == [slots |-> << >>, start |-> HeaderSize, end |-> PageSize,
              cells |-> [o \in {} |-> NoValue]]

SPTypeOK ==
    /\ Len(pages) \in 1 .. MaxPages
    /\ \A n \in DOMAIN pages : pages[n].start \in Nat /\ pages[n].end \in Nat

SPInit ==
    /\ pages = <<EmptyPage>>
    /\ index = [k \in {} |-> <<1, 1>>]

CellSize(v) == CellOverhead + ValLen[v]

Fits(page, v) ==
    /\ page.end >= page.start
    /\ page.end - page.start >= SlotSize + CellSize(v)

WithCell(page, v) ==
    LET offset == page.end - CellSize(v)
    IN  [slots |-> Append(page.slots, [offset |-> offset, length |-> CellSize(v)]),
         start |-> page.start + SlotSize,
         end   |-> offset,
         cells |-> With(page.cells, offset, v)]

\* put(): the cell goes to the last page if it fits there, else to a new one.
SPPut(k, v) ==
    LET last  == Len(pages)
        fits  == Fits(pages[last], v)
        n     == IF fits THEN last ELSE last + 1
        page  == WithCell(IF fits THEN pages[last] ELSE EmptyPage, v)
    IN  /\ n <= MaxPages
        /\ pages' = SubSeq(pages, 1, n - 1) \o <<page>>
        /\ index' = With(index, k, <<n, Len(page.slots)>>)
        /\ AMPut(k, v)

SPNext == \E k \in Key, v \in Value : SPPut(k, v)

SPSpec == AMInit /\ SPInit /\ [][SPNext]_spVars
\* The slots stop before the cells, and no two cells of a page share a byte.
CellsApart ==
    \A n \in DOMAIN pages :
        LET slots == pages[n].slots
        IN  /\ HeaderSize + SlotSize * Len(slots) <= pages[n].end
            /\ \A i \in DOMAIN slots :
                  /\ slots[i].offset + slots[i].length <= PageSize
                  /\ \A j \in 1 .. i - 1 :
                        slots[i].offset + slots[i].length <= slots[j].offset

\* get() through the index finds the last value put.
SPAnswers ==
    \A k \in Key :
        kv[k] = IF k \in DOMAIN index
                THEN LET page == pages[index[k][1]]
                     IN  page.cells[page.slots[index[k][2]].offset]
                ELSE NoValue
-----------------------------------------------------------------------------
(* LSMTinyEngine                                                            *)

NoRecords == [k \in {} |-> Sentinel]

TinyTypeOK ==
    /\ DOMAIN tinyMem \subseteq Key
    /\ Len(sstables) <= MaxTables
    /\ \A t \in Range(sstables) : DOMAIN t # {} /\ DOMAIN t \subseteq Key

TinyInit == tinyMem = NoRecords /\ sstables = << >>

\* put() of a value or, from del(), of the sentinel
Store(k, entry) ==
    LET m == With(tinyMem, k, entry)
    IN  IF Cardinality(DOMAIN m) >= TinyThreshold
        THEN /\ Len(sstables) < MaxTables
             /\ sstables' = Append(sstables, m)
             /\ tinyMem' = NoRecords
        ELSE tinyMem' = m /\ UNCHANGED sstables

TinyPut(k, v) == Store(k, v) /\ AMPut(k, v)

TinyDel(k) == Store(k, Sentinel) /\ AMRemove(k)

\* compact(): the runs merged, a newer record replacing an older one, without
\* the deleted keys
TinyCompact ==
    LET merged == Overlay(Reverse(sstables))
        kept   == Restrict(merged, {k \in DOMAIN merged : merged[k] # Sentinel})
    IN  /\ Len(sstables) > 1
        /\ sstables' = IF DOMAIN kept = {} THEN << >> ELSE <<kept>>
        /\ UNCHANGED <<tinyMem, kv>>

TinyNext ==
    \/ \E k \in Key : TinyDel(k) \/ \E v \in Value : TinyPut(k, v)
    \/ TinyCompact

TinySpec == AMInit /\ TinyInit /\ [][TinyNext]_tinyVars
\* get(): the memtable, then the runs from the newest to the oldest
TinyGet(k) ==
    LET tables  == <<tinyMem>> \o Reverse(sstables)
        holders == Holders(tables, k)
        entry   == tables[Min(holders)][k]
    IN  IF holders = {} \/ entry = Sentinel THEN NoValue ELSE entry

\* get() answers with the last value put, before and after a compaction.
TinyAnswers == \A k \in Key : TinyGet(k) = kv[k]
=============================================================================
