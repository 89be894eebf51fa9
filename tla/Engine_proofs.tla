----------------------------- MODULE Engine_proofs -----------------------------
(***************************************************************************)
(* Proofs about the storage engines and the replication helpers, for any   *)
(* keys, values, nodes, servers, sizes and bounds:                         *)
(*                                                                         *)
(*   - the LSM tree, Bitcask, the slotted pages and the small LSM engine   *)
(*     answer with the last value put, through every flush, compaction,    *)
(*     deletion and new page;                                              *)
(*   - a node that joins or leaves the hash ring moves only its own keys;  *)
(*   - vector clocks order events exactly by causality;                    *)
(*   - no two Raft servers apply different commands at an index.           *)
(*                                                                         *)
(* The engines do not interact; their proofs share what is said of tables. *)
(***************************************************************************)
EXTENDS StorageEngines, DistributedEngines, FiniteSetTheorems, SequenceTheorems, WellFoundedInduction, TLAPS

-----------------------------------------------------------------------------
(* Numbers, and loops counted by rounds *)

\* The least of a set of naturals.
LEMMA LeastOf ==
    ASSUME NEW S, S \subseteq Nat, S # {}
    PROVE  Min(S) \in S /\ \A t \in S : Min(S) <= t
<1>1. \E x \in S : \A y \in S : ~ (<<y, x>> \in OpToRel(<, Nat))
  BY NatLessThanWellFounded, WFMin
<1>2. \E x \in S : \A y \in S : ~ (y < x)
  BY <1>1 DEF OpToRel
<1>3. \E x \in S : \A y \in S : x <= y
  BY <1>2
<1> QED
  BY <1>3 DEF Min

\* What holds of 0 and of the successor of whatever it holds of holds of every
\* natural number up to a bound.
LEMMA UpTo ==
    ASSUME NEW N \in Nat, NEW S, 0 \in S, \A i \in 1 .. N : i - 1 \in S => i \in S
    PROVE  0 .. N \subseteq S
<1> DEFINE left == {i \in 0 .. N : i \notin S}
<1> SUFFICES ASSUME left # {}  PROVE FALSE
  OBVIOUS
<1>1. left \subseteq Nat
  OBVIOUS
<1>2. Min(left) \in left /\ \A t \in left : Min(left) <= t
  <2> HIDE DEF left
  <2> QED
    BY <1>1, LeastOf
<1> DEFINE x == Min(left)
<1>3. x \in 0 .. N /\ x \notin S /\ \A t \in left : x <= t
  BY <1>2
<1> HIDE DEF x
<1>4. x # 0 /\ x - 1 \in 0 .. N /\ ~(x <= x - 1) /\ x \in 1 .. N
  BY <1>3
<1>5. x - 1 \in S
  BY <1>3, <1>4
<1> QED
  BY <1>3, <1>4, <1>5

\* The greatest of a finite set of naturals.
LEMMA GreatestOf ==
    ASSUME NEW S, S \subseteq Nat, S # {}, IsFiniteSet(S)
    PROVE  Max(S) \in S /\ \A t \in S : t <= Max(S)
<1>1. PICK b \in Nat : \A t \in S : t <= b
  <2>1. PICK n \in Nat : \E f \in [1 .. n -> S] : \A s \in S : \E i \in 1 .. n : f[i] = s
    BY FS_NatSurjection, FS_NatBijection DEF ExistsBijection, Bijection, Surjection
  <2>2. PICK f \in [1 .. n -> S] : \A s \in S : \E i \in 1 .. n : f[i] = s
    BY <2>1
  <2> DEFINE bounded == {m \in 0 .. n : \E c \in Nat : \A i \in 1 .. m : f[i] <= c}
  <2>3. 0 \in bounded
    BY <2>1
  <2>4. ASSUME NEW m \in 1 .. n, m - 1 \in bounded  PROVE m \in bounded
    <3>1. PICK c \in Nat : \A i \in 1 .. m - 1 : f[i] <= c
      BY <2>4
    <3>2. f[m] \in Nat
      BY <2>1, <2>2
    <3> DEFINE d == c + f[m]
    <3>3. d \in Nat /\ \A i \in 1 .. m : f[i] <= d
      <4>1. ASSUME NEW i \in 1 .. m  PROVE f[i] \in Nat /\ (i = m \/ i \in 1 .. m - 1)
        <5>1. i \in 1 .. n
          BY <2>1
        <5>2. f[i] \in S
          BY <2>2, <5>1
        <5>3. i = m \/ i \in 1 .. m - 1
          BY <2>1
        <5> QED
          BY <5>2, <5>3
      <4> QED
        BY <3>1, <3>2, <4>1
    <3> HIDE DEF d
    <3> QED
      BY <3>3
  <2>5. n \in bounded
    <3> HIDE DEF bounded
    <3>1. 0 .. n \subseteq bounded
      BY <2>1, <2>3, <2>4, UpTo
    <3>2. n \in 0 .. n
      BY <2>1
    <3> QED
      BY <3>1, <3>2
  <2> QED
    BY <2>2, <2>5
<1> DEFINE over == {c \in Nat : \A t \in S : t <= c}
<1>2. over \subseteq Nat /\ over # {}
  BY <1>1
<1> DEFINE x == Min(over)
<1>3. x \in over /\ \A c \in over : x <= c
  <2> HIDE DEF over
  <2> QED
    BY <1>2, LeastOf
<1> HIDE DEF x
<1>4. x \in Nat /\ \A t \in S : t <= x
  BY <1>3
<1>5. x \in S
  <2> SUFFICES ASSUME x \notin S  PROVE FALSE
    OBVIOUS
  <2>1. \A t \in S : t \in Nat /\ t <= x /\ t # x
    BY <1>4
  <2>2. PICK s \in S : TRUE
    OBVIOUS
  <2>3. x - 1 \in Nat /\ ~(x <= x - 1)
    BY <1>4, <2>1, <2>2
  <2>4. \A t \in S : t <= x - 1
    BY <1>4, <2>1
  <2> QED
    BY <1>3, <2>3, <2>4
<1>6. \E y \in S : \A t \in S : y >= t
  <2>1. \A t \in S : t \in Nat
    OBVIOUS
  <2> QED
    BY <1>4, <1>5, <2>1
<1>7. Max(S) \in S /\ \A t \in S : Max(S) >= t
  BY <1>6 DEF Max
<1> QED
  BY <1>7

\* f gives the variables of a loop by the number of rounds done.
Repeats(f, start, N, step) ==
    f[0] = start /\ \A i \in 1 .. N : f[i] = step[<<i, f[i - 1]>>]

\* A loop whose round "step" keeps its variables in S: the function from the
\* number of rounds done to the variables exists.
LEMMA Rounds ==
    ASSUME NEW S, NEW start \in S, NEW N \in Nat, NEW step \in [(1 .. N) \X S -> S]
    PROVE  \E f \in [0 .. N -> S] : Repeats(f, start, N, step)
<1> DEFINE done == {m \in 0 .. N : \E f \in [0 .. m -> S] :
                       /\ f[0] = start
                       /\ \A i \in 1 .. m : f[i] = step[<<i, f[i - 1]>>]}
<1>1. 0 \in done
  <2> DEFINE f == [n \in 0 .. 0 |-> start]
  <2>1. f \in [0 .. 0 -> S] /\ f[0] = start /\ \A i \in 1 .. 0 : f[i] = step[<<i, f[i - 1]>>]
    OBVIOUS
  <2> HIDE DEF f
  <2>2. \E g \in [0 .. 0 -> S] : g[0] = start /\ \A i \in 1 .. 0 : g[i] = step[<<i, g[i - 1]>>]
    BY <2>1
  <2> QED
    BY <2>2
<1>2. ASSUME NEW m \in 1 .. N, m - 1 \in done  PROVE m \in done
  <2>1. PICK f \in [0 .. m - 1 -> S] :
            /\ f[0] = start
            /\ \A i \in 1 .. m - 1 : f[i] = step[<<i, f[i - 1]>>]
    BY <1>2
  <2>2. f[m - 1] \in S /\ step[<<m, f[m - 1]>>] \in S
    BY <2>1
  <2> DEFINE g == [n \in 0 .. m |-> IF n = m THEN step[<<m, f[m - 1]>>] ELSE f[n]]
  <2>3. \A n \in 0 .. m : n # m => n \in 0 .. m - 1
    OBVIOUS
  <2>4. g \in [0 .. m -> S]
    BY <2>1, <2>2, <2>3
  <2>5. g[0] = start
    BY <2>1
  <2>6. ASSUME NEW i \in 1 .. m  PROVE g[i] = step[<<i, g[i - 1]>>]
    <3>1. i - 1 \in 0 .. m /\ i - 1 # m /\ g[i - 1] = f[i - 1]
      OBVIOUS
    <3>2. CASE i = m
      BY <3>1, <3>2
    <3>3. CASE i # m
      <4>1. i \in 1 .. m - 1 /\ g[i] = f[i]
        BY <3>3
      <4> QED
        BY <2>1, <3>1, <4>1
    <3> QED
      BY <3>2, <3>3
  <2> HIDE DEF g
  <2> QED
    BY <2>4, <2>5, <2>6
<1>3. N \in done
  <2> HIDE DEF done
  <2>1. 0 .. N \subseteq done
    BY <1>1, <1>2, UpTo
  <2>2. N \in 0 .. N
    OBVIOUS
  <2> QED
    BY <2>1, <2>2
<1> QED
  BY <1>3 DEF Repeats
-----------------------------------------------------------------------------
(* Tables, and what lies on top *)

LEMMA WithFacts ==
    ASSUME NEW t, NEW k, NEW e
    PROVE  /\ DOMAIN With(t, k, e) = DOMAIN t \union {k}
           /\ With(t, k, e)[k] = e
           /\ \A j \in DOMAIN t : j # k => With(t, k, e)[j] = t[j]
BY DEF With

\* Functions on part of a set.
Partly(D, S) == UNION {[d -> S] : d \in SUBSET D}

LEMMA PartlyFacts ==
    ASSUME NEW D, NEW S, NEW t
    PROVE  t \in Partly(D, S) <=> /\ t = [k \in DOMAIN t |-> t[k]]
                                  /\ DOMAIN t \subseteq D /\ \A k \in DOMAIN t : t[k] \in S
BY DEF Partly

LEMMA WithPartly ==
    ASSUME NEW D, NEW S, NEW t \in Partly(D, S), NEW k \in D, NEW e \in S
    PROVE  With(t, k, e) \in Partly(D, S)
<1> DEFINE w == With(t, k, e)
<1>1. /\ w = [j \in DOMAIN w |-> w[j]]
      /\ DOMAIN w = DOMAIN t \union {k} /\ w[k] = e /\ \A j \in DOMAIN t : j # k => w[j] = t[j]
  BY WithFacts DEF With
<1>2. DOMAIN t \subseteq D /\ \A j \in DOMAIN t : t[j] \in S
  BY PartlyFacts
<1> HIDE DEF w
<1>3. \A j \in DOMAIN w : w[j] \in S
  BY <1>1, <1>2
<1>4. w \in Partly(D, S)
  BY <1>1, <1>2, <1>3, PartlyFacts
<1> QED
  BY <1>4 DEF w

LEMMA HeldFacts ==
    ASSUME NEW tables, NEW k
    PROVE  /\ k \in HeldIn(tables) <=> \E i \in DOMAIN tables : k \in DOMAIN tables[i]
           /\ Holders(tables, k) = {} <=> k \notin HeldIn(tables)
BY DEF HeldIn, Holders

\* The first table that holds a key says what the overlay does.
LEMMA FirstHolds ==
    ASSUME NEW tables, DOMAIN tables \subseteq Nat, NEW k, NEW i \in DOMAIN tables,
           k \in DOMAIN tables[i], \A j \in DOMAIN tables : k \in DOMAIN tables[j] => i <= j
    PROVE  k \in HeldIn(tables) /\ Min(Holders(tables, k)) = i /\ Overlay(tables)[k] = tables[i][k]
<1> DEFINE H == Holders(tables, k)
<1>1. H \subseteq Nat /\ i \in H /\ \A j \in H : i <= j
  BY DEF Holders
<1>2. Min(H) = i
  <2> HIDE DEF H
  <2>1. Min(H) \in H /\ \A t \in H : Min(H) <= t
    BY <1>1, LeastOf
  <2>2. Min(H) \in Nat /\ i \in Nat /\ Min(H) <= i /\ i <= Min(H)
    BY <1>1, <2>1
  <2> QED
    BY <2>2
<1>3. k \in HeldIn(tables)
  BY HeldFacts
<1> QED
  BY <1>2, <1>3 DEF Overlay

\* A key held has a first table.
LEMMA OverlayFacts ==
    ASSUME NEW tables, DOMAIN tables \subseteq Nat
    PROVE  /\ DOMAIN Overlay(tables) = HeldIn(tables)
           /\ \A k \in HeldIn(tables) : \E i \in DOMAIN tables :
                 /\ k \in DOMAIN tables[i] /\ Min(Holders(tables, k)) = i
                 /\ Overlay(tables)[k] = tables[i][k]
                 /\ \A j \in DOMAIN tables : k \in DOMAIN tables[j] => i <= j
<1>1. DOMAIN Overlay(tables) = HeldIn(tables)
  BY DEF Overlay
<1>2. ASSUME NEW k \in HeldIn(tables)
      PROVE  \E i \in DOMAIN tables :
                 /\ k \in DOMAIN tables[i] /\ Min(Holders(tables, k)) = i
                 /\ Overlay(tables)[k] = tables[i][k]
                 /\ \A j \in DOMAIN tables : k \in DOMAIN tables[j] => i <= j
  <2> DEFINE H == Holders(tables, k)
  <2>1. H \subseteq Nat /\ H # {}
    BY HeldFacts DEF Holders
  <2>2. Min(H) \in H /\ \A j \in H : Min(H) <= j
    <3> HIDE DEF H
    <3> QED
      BY <2>1, LeastOf
  <2>3. Min(H) \in DOMAIN tables /\ k \in DOMAIN tables[Min(H)]
    BY <2>2 DEF Holders
  <2>4. \A j \in DOMAIN tables : k \in DOMAIN tables[j] => Min(H) <= j
    BY <2>2 DEF Holders
  <2>5. Overlay(tables)[k] = tables[Min(H)][k]
    BY DEF Overlay
  <2> QED
    BY <2>3, <2>4, <2>5
<1> QED
  BY <1>1, <1>2

\* A table laid on top of others.
LEMMA LaidOn ==
    ASSUME NEW S, NEW t \in S, NEW rest \in Seq(S)
    PROVE  /\ <<t>> \o rest \in Seq(S)
           /\ HeldIn(<<t>> \o rest) = DOMAIN t \union HeldIn(rest)
           /\ \A k \in DOMAIN t : Overlay(<<t>> \o rest)[k] = t[k]
           /\ \A k \in HeldIn(rest) \ DOMAIN t : Overlay(<<t>> \o rest)[k] = Overlay(rest)[k]
<1> DEFINE new == <<t>> \o rest
<1>1. /\ new \in Seq(S) /\ Len(new) = Len(rest) + 1 /\ Len(rest) \in Nat
      /\ \A i \in 1 .. Len(new) : new[i] = IF i = 1 THEN t ELSE rest[i - 1]
  OBVIOUS
<1>2. DOMAIN new = 1 .. Len(rest) + 1 /\ DOMAIN rest = 1 .. Len(rest)
  BY <1>1, LenProperties
<1> HIDE DEF new
<1>3. 1 \in DOMAIN new /\ new[1] = t /\ DOMAIN new \subseteq Nat /\ DOMAIN rest \subseteq Nat
  BY <1>1, <1>2
<1>4. \A i \in DOMAIN rest : i + 1 \in DOMAIN new /\ new[i + 1] = rest[i]
  BY <1>1, <1>2
<1>5. ASSUME NEW j \in DOMAIN new, j # 1  PROVE j - 1 \in DOMAIN rest /\ new[j] = rest[j - 1]
  BY <1>1, <1>2, <1>5
<1>6. ASSUME NEW k  PROVE k \in HeldIn(new) <=> k \in DOMAIN t \union HeldIn(rest)
  BY <1>3, <1>4, <1>5, HeldFacts
<1>7. ASSUME NEW k \in DOMAIN t  PROVE Overlay(new)[k] = t[k]
  <2>1. \A j \in DOMAIN new : 1 <= j
    BY <1>2
  <2> QED
    BY <1>3, <2>1, FirstHolds
<1>8. ASSUME NEW k \in HeldIn(rest) \ DOMAIN t  PROVE Overlay(new)[k] = Overlay(rest)[k]
  <2>1. PICK i \in DOMAIN rest :
            /\ k \in DOMAIN rest[i] /\ Overlay(rest)[k] = rest[i][k]
            /\ \A j \in DOMAIN rest : k \in DOMAIN rest[j] => i <= j
    BY <1>3, OverlayFacts
  <2>2. i + 1 \in DOMAIN new /\ new[i + 1] = rest[i]
    BY <1>4
  <2>3. ASSUME NEW j \in DOMAIN new, k \in DOMAIN new[j]  PROVE i + 1 <= j
    <3>1. j # 1
      BY <1>3, <1>8, <2>3
    <3>2. j - 1 \in DOMAIN rest /\ i <= j - 1
      BY <1>5, <2>1, <2>3, <3>1
    <3> QED
      BY <1>2, <3>2
  <2> QED
    BY <1>3, <2>1, <2>2, <2>3, FirstHolds
<1>9. HeldIn(new) = DOMAIN t \union HeldIn(rest)
  BY <1>6
<1>10. new \in Seq(S) /\ HeldIn(new) = DOMAIN t \union HeldIn(rest)
       /\ (\A k \in DOMAIN t : Overlay(new)[k] = t[k])
       /\ (\A k \in HeldIn(rest) \ DOMAIN t : Overlay(new)[k] = Overlay(rest)[k])
  BY <1>1, <1>7, <1>8, <1>9
<1> QED
  BY <1>10 DEF new
-----------------------------------------------------------------------------
(* Proof: the slotted pages answer with the last value put *)

Slot == [offset : Nat, length : Nat \ {0}]
SlottedPage == [slots : Seq(Slot), start : Nat, end : Nat, cells : Partly(Nat, Value)]

\* Slots grow from the header, cells from the end; the free bytes are between.
PageSound(page) ==
    /\ page \in SlottedPage
    /\ page.start = HeaderSize + SlotSize * Len(page.slots)
    /\ page.start <= page.end /\ page.end <= PageSize
    /\ \A i \in 1 .. Len(page.slots) :
          /\ page.end <= page.slots[i].offset
          /\ page.slots[i].offset + page.slots[i].length <= PageSize
          /\ page.slots[i].offset \in DOMAIN page.cells
          /\ \A j \in 1 .. i - 1 :
                page.slots[i].offset + page.slots[i].length <= page.slots[j].offset

SPInv ==
    /\ Len(pages) \in 1 .. MaxPages /\ pages \in Seq(SlottedPage)
    /\ \A n \in 1 .. Len(pages) : PageSound(pages[n])
    /\ DOMAIN index \subseteq Key
    /\ \A k \in DOMAIN index :
          /\ index[k] = <<index[k][1], index[k][2]>>
          /\ index[k][1] \in 1 .. Len(pages)
          /\ index[k][2] \in 1 .. Len(pages[index[k][1]].slots)
    /\ kv \in [Key -> Value \union {NoValue}]
    /\ SPAnswers

LEMMA EmptySound == PageSound(EmptyPage)
<1> USE SPSizes
<1> DEFINE none == [o \in {} |-> NoValue]
<1>1. none \in Partly(Nat, Value)
  <2>1. none = [k \in DOMAIN none |-> none[k]] /\ DOMAIN none = {}
    OBVIOUS
  <2> HIDE DEF none
  <2> QED
    BY <2>1, PartlyFacts
<1>2. << >> \in Seq(Slot) /\ Len(<< >>) = 0
  OBVIOUS
<1>3. SlotSize * 0 = 0
  OBVIOUS
<1>4. EmptyPage = [slots |-> << >>, start |-> HeaderSize, end |-> PageSize, cells |-> none]
  BY DEF EmptyPage
<1> HIDE DEF none
<1>5. EmptyPage \in SlottedPage
  BY <1>1, <1>2, <1>4 DEF SlottedPage
<1>6. EmptyPage.slots = << >> /\ EmptyPage.start = HeaderSize /\ EmptyPage.end = PageSize
  BY <1>4
<1> QED
  BY <1>2, <1>3, <1>5, <1>6 DEF PageSound

LEMMA SPInvInit == AMInit /\ SPInit => SPInv
<1> SUFFICES ASSUME AMInit, SPInit  PROVE SPInv
  OBVIOUS
<1> USE SPSizes, RecordSizes
<1>1. PageSound(EmptyPage)
  BY EmptySound
<1>2. Len(pages) = 1 /\ pages[1] = EmptyPage /\ pages \in Seq(SlottedPage)
  BY <1>1 DEF SPInit, PageSound
<1>3. DOMAIN index = {} /\ kv = [k \in Key |-> NoValue]
  BY DEF SPInit, AMInit
<1> QED
  BY <1>1, <1>2, <1>3 DEF SPInv, SPAnswers

\* Adding a cell to a page it fits into.
LEMMA CellAdded ==
    ASSUME NEW page, PageSound(page), NEW v \in Value, Fits(page, v)
    PROVE  LET new == WithCell(page, v)
           IN  /\ PageSound(new)
               /\ Len(new.slots) = Len(page.slots) + 1
               /\ new.cells[new.slots[Len(new.slots)].offset] = v
               /\ \A i \in 1 .. Len(page.slots) :
                     /\ new.slots[i] = page.slots[i]
                     /\ new.cells[new.slots[i].offset] = page.cells[page.slots[i].offset]
<1> USE SPSizes, RecordSizes
<1> DEFINE new    == WithCell(page, v)
           size   == CellSize(v)
           offset == page.end - size
           slots  == page.slots
<1>1. /\ size \in Nat \ {0}
      /\ page.start \in Nat /\ page.end \in Nat /\ slots \in Seq(Slot)
      /\ page.cells \in Partly(Nat, Value)
  <2>1. page \in SlottedPage
    BY DEF PageSound
  <2>2. ValLen[v] \in Nat /\ CellOverhead \in Nat \ {0}
    OBVIOUS
  <2>3. size \in Nat \ {0}
    BY ONLY <2>2 DEF CellSize
  <2>4. /\ page.start \in Nat /\ page.end \in Nat /\ slots \in Seq(Slot)
        /\ page.cells \in Partly(Nat, Value)
    BY ONLY <2>1 DEF SlottedPage
  <2> QED
    BY ONLY <2>3, <2>4
<1>2. offset \in Nat /\ page.start + SlotSize <= offset /\ offset < page.end
  <2>1. page.end - page.start >= SlotSize + size
    BY ONLY Fits(page, v) DEF Fits
  <2>2. SlotSize \in Nat /\ size \in Nat \ {0} /\ page.start \in Nat /\ page.end \in Nat
    BY <1>1
  <2>3. \A s, e, l, n \in Nat : e - s >= l + n /\ n # 0 =>
           e - n \in Nat /\ s + l <= e - n /\ e - n < e
    OBVIOUS
  <2> HIDE DEF size
  <2> QED
    BY ONLY <2>1, <2>2, <2>3
<1>3. new = [slots |-> Append(slots, [offset |-> offset, length |-> size]),
             start |-> page.start + SlotSize, end |-> offset,
             cells |-> With(page.cells, offset, v)]
  BY DEF WithCell
<1> DEFINE more == Append(slots, [offset |-> offset, length |-> size])
           cells == With(page.cells, offset, v)
<1>4. new.slots = more /\ new.start = page.start + SlotSize /\ new.end = offset /\ new.cells = cells
  BY <1>3
<1> HIDE DEF new
<1>5. /\ more \in Seq(Slot) /\ Len(more) = Len(slots) + 1 /\ Len(slots) \in Nat
      /\ more[Len(slots) + 1] = [offset |-> offset, length |-> size]
      /\ \A i \in 1 .. Len(slots) : more[i] = slots[i]
  <2>1. [offset |-> offset, length |-> size] \in Slot
    BY <1>1, <1>2 DEF Slot
  <2> QED
    BY SMTT(40), <1>1, <2>1
<1>6. cells \in Partly(Nat, Value) /\ DOMAIN cells = DOMAIN page.cells \union {offset}
      /\ cells[offset] = v /\ \A o \in DOMAIN page.cells : o # offset => cells[o] = page.cells[o]
  <2> DEFINE held == page.cells
  <2>1. held \in Partly(Nat, Value)
    BY <1>1
  <2> HIDE DEF offset, size, held
  <2>2. With(held, offset, v) \in Partly(Nat, Value)
    BY ONLY <1>2, <2>1, v \in Value, WithPartly
  <2>3. /\ DOMAIN With(held, offset, v) = DOMAIN held \union {offset}
        /\ With(held, offset, v)[offset] = v
        /\ \A o \in DOMAIN held : o # offset => With(held, offset, v)[o] = held[o]
    BY DEF With
  <2> QED
    BY <2>2, <2>3 DEF held
<1> HIDE DEF more, cells
<1>7. new \in SlottedPage
  <2>1. page.start + SlotSize \in Nat
    BY SMTT(40), <1>1
  <2> HIDE DEF offset, size
  <2> QED
    BY <1>2, <1>3, <1>5, <1>6, <2>1 DEF SlottedPage, more, cells
<1>8. ASSUME NEW i \in 1 .. Len(slots)
      PROVE  /\ slots[i] \in Slot /\ more[i] = slots[i]
             /\ page.end <= slots[i].offset /\ slots[i].offset + slots[i].length <= PageSize
             /\ slots[i].offset \in DOMAIN page.cells
             /\ \A j \in 1 .. i - 1 : slots[i].offset + slots[i].length <= slots[j].offset
  <2>1. slots \in Seq(Slot)
    BY <1>1
  <2>2. slots[i] \in Slot
    <3> HIDE DEF slots
    <3> QED
      BY <2>1, ElementOfSeq
  <2>3. more[i] = slots[i]
    BY <1>5
  <2>4. /\ page.end <= slots[i].offset /\ slots[i].offset + slots[i].length <= PageSize
        /\ slots[i].offset \in DOMAIN page.cells
        /\ \A j \in 1 .. i - 1 : slots[i].offset + slots[i].length <= slots[j].offset
    BY DEF PageSound
  <2> QED
    BY <2>2, <2>3, <2>4
<1> DEFINE top == more[Len(slots) + 1]
<1>9. top.offset = offset /\ top.length = size
  BY <1>5
<1>10. new.start = HeaderSize + SlotSize * Len(more)
  <2>1. page.start = HeaderSize + SlotSize * Len(slots)
    BY DEF PageSound
  <2>2. SlotSize * (Len(slots) + 1) = SlotSize * Len(slots) + SlotSize
    BY <1>5
  <2>3. SlotSize * Len(slots) \in Nat
    BY SMTT(40), <1>5
  <2> QED
    BY SMTT(40), <1>4, <1>5, <2>1, <2>2, <2>3
<1>11. new.start <= new.end /\ new.end <= PageSize
  <2>1. page.end <= PageSize /\ PageSize \in Nat
    BY DEF PageSound
  <2> QED
    BY <1>1, <1>2, <1>4, <2>1
<1>12. ASSUME NEW i \in 1 .. Len(more)
       PROVE  /\ offset <= more[i].offset
              /\ more[i].offset + more[i].length <= PageSize
              /\ more[i].offset \in DOMAIN cells
              /\ \A j \in 1 .. i - 1 : more[i].offset + more[i].length <= more[j].offset
  <2>1. CASE i = Len(slots) + 1
    <3>1. page.end <= PageSize /\ PageSize \in Nat
      BY DEF PageSound
    <3>2. offset + size = page.end
      BY <1>1, <1>2
    <3>3. ASSUME NEW j \in 1 .. i - 1  PROVE page.end <= more[j].offset
      <4>1. j \in 1 .. Len(slots)
        BY <1>5, <2>1
      <4> QED
        BY <1>8, <4>1
    <3> HIDE DEF offset, size
    <3>4. more[i].offset = offset /\ more[i].length = size
      BY <1>9, <2>1
    <3> QED
      BY <1>2, <1>6, <3>1, <3>2, <3>3, <3>4
  <2>2. CASE i # Len(slots) + 1
    <3>1. i \in 1 .. Len(slots)
      BY SMTT(40), <1>5, <2>2
    <3>2. \A j \in 1 .. i - 1 : j \in 1 .. Len(slots) /\ more[j] = slots[j]
      BY <1>5, <3>1
    <3>3. slots[i].offset \in Nat
      BY <1>8, <3>1 DEF Slot
    <3>4. offset <= slots[i].offset
      <4>1. page.end <= slots[i].offset
        BY <1>8, <3>1
      <4> HIDE DEF offset, size
      <4> QED
        BY SMTT(40), <1>1, <1>2, <3>3, <4>1
    <3> HIDE DEF offset
    <3> QED
      BY <1>6, <1>8, <3>1, <3>2, <3>4
  <2> QED
    BY <2>1, <2>2
<1>13. PageSound(new)
  <2> HIDE DEF offset, size
  <2> QED
    BY <1>4, <1>7, <1>10, <1>11, <1>12 DEF PageSound
<1>14. ASSUME NEW i \in 1 .. Len(slots)
       PROVE  cells[more[i].offset] = page.cells[slots[i].offset]
  <2> HIDE DEF offset, size
  <2>0. slots[i] \in Slot /\ page.end <= slots[i].offset
    BY <1>8
  <2>1. slots[i].offset \in Nat /\ slots[i].offset # offset
    <3>1. slots[i].offset \in Nat
      BY <2>0 DEF Slot
    <3> QED
      BY SMTT(40), <1>1, <1>2, <2>0, <3>1
  <2> QED
    BY <1>6, <1>8, <2>1
<1>15. cells[more[Len(more)].offset] = v
  <2> HIDE DEF offset, size
  <2> QED
    BY <1>5, <1>6, <1>9
<1>16. /\ PageSound(new) /\ Len(new.slots) = Len(page.slots) + 1
       /\ new.cells[new.slots[Len(new.slots)].offset] = v
       /\ \A i \in 1 .. Len(page.slots) :
             /\ new.slots[i] = page.slots[i]
             /\ new.cells[new.slots[i].offset] = page.cells[page.slots[i].offset]
  <2> HIDE DEF offset, size
  <2> QED
    BY <1>4, <1>5, <1>13, <1>14, <1>15
<1> QED
  BY <1>16 DEF new

LEMMA PutStep == ASSUME SPInv, NEW k \in Key, NEW v \in Value, SPPut(k, v)  PROVE SPInv'
<1> USE SPSizes, RecordSizes
<1> DEFINE last == Len(pages)
           fits == Fits(pages[last], v)
           n    == IF fits THEN last ELSE last + 1
           old  == IF fits THEN pages[last] ELSE EmptyPage
           page == WithCell(old, v)
<1>1. /\ n <= MaxPages
      /\ pages' = SubSeq(pages, 1, n - 1) \o <<page>>
      /\ index' = With(index, k, <<n, Len(page.slots)>>)
      /\ kv' = [kv EXCEPT ![k] = v]
  BY DEF SPPut, AMPut
<1>2. /\ last \in Nat \ {0} /\ pages \in Seq(SlottedPage) /\ MaxPages \in Nat
      /\ \A i \in 1 .. last : PageSound(pages[i])
      /\ kv \in [Key -> Value \union {NoValue}]
  BY DEF SPInv
<1>3. PageSound(old) /\ Fits(old, v)
  <2>1. CASE fits
    BY <1>2, <2>1
  <2>2. CASE ~fits
    <3>1. PageSound(EmptyPage)
      BY EmptySound
    <3>2. Fits(EmptyPage, v)
      BY DEF Fits, EmptyPage, CellSize
    <3> QED
      BY <2>2, <3>1, <3>2
  <2> QED
    BY <2>1, <2>2
<1>4. /\ PageSound(page) /\ Len(page.slots) = Len(old.slots) + 1
      /\ page.cells[page.slots[Len(page.slots)].offset] = v
      /\ \A i \in 1 .. Len(old.slots) :
            /\ page.slots[i] = old.slots[i]
            /\ page.cells[page.slots[i].offset] = old.cells[old.slots[i].offset]
  <2> HIDE DEF old
  <2> QED
    BY <1>3, CellAdded
<1>5. fits => old = pages[last] /\ n = last
  OBVIOUS
<1>6. ~fits => n = last + 1
  OBVIOUS
<1>7. Len(old.slots) \in Nat /\ page \in SlottedPage
  <2> HIDE DEF old, page
  <2>1. old \in SlottedPage /\ page \in SlottedPage
    BY <1>3, <1>4 DEF PageSound
  <2>2. old.slots \in Seq(Slot)
    BY <2>1 DEF SlottedPage
  <2> QED
    BY <2>1, <2>2, LenProperties
<1> HIDE DEF page, old, fits, n
<1>8. n \in Nat \ {0} /\ last <= n /\ n <= last + 1
  BY <1>2, <1>5, <1>6
<1>9. /\ pages' \in Seq(SlottedPage) /\ Len(pages') = n /\ pages'[n] = page
      /\ \A i \in 1 .. n - 1 : pages'[i] = pages[i]
  <2> DEFINE front == SubSeq(pages, 1, n - 1)
  <2>1. /\ front \in Seq(SlottedPage) /\ Len(front) = n - 1
        /\ \A i \in 1 .. n - 1 : front[i] = pages[i]
    BY <1>2, <1>8, SubSeqProperties
  <2> HIDE DEF front
  <2>2. /\ front \o <<page>> \in Seq(SlottedPage) /\ Len(front \o <<page>>) = n
        /\ (front \o <<page>>)[n] = page /\ \A i \in 1 .. n - 1 : (front \o <<page>>)[i] = front[i]
    <3>1. Len(front) \in Nat /\ n = Len(front) + 1 /\ n - 1 = Len(front)
      BY <1>8, <2>1
    <3> DEFINE tail == <<page>>
    <3>2. tail \in Seq(SlottedPage) /\ Len(tail) = 1 /\ tail[1] = page
      BY <1>7
    <3> HIDE DEF tail
    <3>3. /\ front \o tail \in Seq(SlottedPage) /\ Len(front \o tail) = Len(front) + Len(tail)
          /\ \A i \in 1 .. Len(front) + Len(tail) :
                (front \o tail)[i] = IF i <= Len(front) THEN front[i] ELSE tail[i - Len(front)]
      BY <2>1, <3>2, ConcatProperties
    <3>4. /\ ~(n <= Len(front)) /\ n - Len(front) = 1
          /\ n \in 1 .. Len(front) + Len(tail)
      BY <3>1, <3>2
    <3>5. (front \o tail)[n] = page
      BY <3>2, <3>3, <3>4
    <3>6. \A i \in 1 .. n - 1 : (front \o tail)[i] = front[i]
      BY <3>1, <3>2, <3>3
    <3> QED
      BY <3>1, <3>2, <3>3, <3>5, <3>6 DEF tail
  <2>3. pages' = front \o <<page>>
    BY <1>1 DEF front
  <2> QED
    BY <2>1, <2>2, <2>3
<1>10. \A i \in 1 .. n : PageSound(pages'[i])
  <2> TAKE i \in 1 .. n
  <2>1. CASE i = n
    BY <1>4, <1>9, <2>1
  <2>2. CASE i # n
    BY <1>2, <1>8, <1>9, <2>2
  <2> QED
    BY <2>1, <2>2
<1>11. /\ DOMAIN index' = DOMAIN index \union {k}
       /\ index'[k] = <<n, Len(page.slots)>>
       /\ \A j \in DOMAIN index : j # k => index'[j] = index[j]
  <2> DEFINE entry == <<n, Len(page.slots)>>
  <2>1. index' = With(index, k, entry)
    BY <1>1
  <2> HIDE DEF entry
  <2>2. /\ DOMAIN index' = DOMAIN index \union {k} /\ index'[k] = entry
        /\ \A j \in DOMAIN index : j # k => index'[j] = index[j]
    BY <2>1 DEF With
  <2> QED
    BY <2>2 DEF entry
<1>12. kv' \in [Key -> Value \union {NoValue}] /\ kv'[k] = v /\ \A j \in Key : j # k => kv'[j] = kv[j]
  BY <1>1, <1>2
<1> DEFINE Answer(j) == pages'[index'[j][1]].cells[pages'[index'[j][1]].slots[index'[j][2]].offset]
<1>13. /\ index'[k] = <<index'[k][1], index'[k][2]>>
       /\ index'[k][1] \in 1 .. n
       /\ index'[k][2] \in 1 .. Len(pages'[index'[k][1]].slots)
       /\ Answer(k) = v
  <2>1. index'[k][1] = n /\ index'[k][2] = Len(page.slots) /\ pages'[n] = page
    BY <1>9, <1>11
  <2>2. Len(page.slots) \in 1 .. Len(page.slots) /\ n \in 1 .. n
    BY SMTT(40), <1>4, <1>7, <1>8
  <2> QED
    BY <1>4, <1>11, <2>1, <2>2
<1>14. ASSUME NEW j \in DOMAIN index, j # k
       PROVE  /\ index'[j] = <<index'[j][1], index'[j][2]>>
              /\ index'[j][1] \in 1 .. n
              /\ index'[j][2] \in 1 .. Len(pages'[index'[j][1]].slots)
              /\ Answer(j) = kv[j]
  <2> DEFINE at == index[j][1]
             slot == index[j][2]
  <2>1. /\ index[j] = <<at, slot>> /\ at \in 1 .. last /\ slot \in 1 .. Len(pages[at].slots)
        /\ index'[j] = index[j] /\ j \in Key
    BY <1>11, <1>14 DEF SPInv
  <2>2. kv[j] = pages[at].cells[pages[at].slots[slot].offset]
    BY <2>1 DEF SPInv, SPAnswers
  <2> HIDE DEF at, slot
  <2>3. CASE at = n
    <3>1. fits /\ at = last
      BY <1>2, <1>5, <1>6, <1>8, <2>1, <2>3
    <3>2. old = pages[at] /\ pages'[at] = page
      BY <1>5, <1>9, <2>3, <3>1
    <3>3. slot \in 1 .. Len(page.slots)
      BY <1>4, <1>7, <2>1, <3>2
    <3>4. page.cells[page.slots[slot].offset] = pages[at].cells[pages[at].slots[slot].offset]
      BY <1>4, <2>1, <3>2
    <3> QED
      BY <1>8, <2>1, <2>2, <2>3, <3>2, <3>3, <3>4 DEF at, slot
  <2>4. CASE at # n
    <3>1. at \in 1 .. n - 1
      BY <1>2, <1>8, <2>1, <2>4
    <3>2. pages'[at] = pages[at] /\ at \in 1 .. n
      BY SMTT(40), <1>8, <1>9, <3>1
    <3> QED
      BY <2>1, <2>2, <3>2 DEF at, slot
  <2> QED
    BY <2>3, <2>4
<1>15. SPAnswers'
  <2> SUFFICES ASSUME NEW j \in Key
               PROVE  kv'[j] = IF j \in DOMAIN index' THEN Answer(j) ELSE NoValue
    BY SMTT(40) DEF SPAnswers
  <2>1. CASE j = k
    BY <1>11, <1>12, <1>13, <2>1
  <2>2. CASE j # k /\ j \in DOMAIN index
    BY ZenonT(40), <1>11, <1>12, <1>14, <2>2
  <2>3. CASE j # k /\ j \notin DOMAIN index
    <3>1. kv[j] = NoValue
      BY <2>3 DEF SPInv, SPAnswers
    <3> QED
      BY <1>11, <1>12, <2>3, <3>1
  <2> QED
    BY <2>1, <2>2, <2>3
<1>16. DOMAIN index' \subseteq Key
  BY SMTT(40), <1>11 DEF SPInv
<1>17. ASSUME NEW j \in DOMAIN index'
       PROVE  /\ index'[j] = <<index'[j][1], index'[j][2]>>
              /\ index'[j][1] \in 1 .. n
              /\ index'[j][2] \in 1 .. Len(pages'[index'[j][1]].slots)
  BY <1>11, <1>13, <1>14
<1>18. n \in 1 .. MaxPages
  BY <1>1, <1>2, <1>8
<1> QED
  BY <1>9, <1>10, <1>12, <1>15, <1>16, <1>17, <1>18 DEF SPInv

LEMMA SPInvStep == SPInv /\ [SPNext]_spVars => SPInv'
<1> SUFFICES ASSUME SPInv, [SPNext]_spVars  PROVE SPInv'
  BY SMTT(40)
<1>1. CASE UNCHANGED spVars
  BY <1>1 DEF spVars, SPInv, SPAnswers
<1> QED
  BY <1>1, PutStep DEF SPNext

LEMMA SPInvSound == SPInv => SPTypeOK /\ CellsApart /\ SPAnswers
<1> SUFFICES ASSUME SPInv  PROVE SPTypeOK /\ CellsApart
  BY DEF SPInv
<1> USE SPSizes, RecordSizes
<1>1. DOMAIN pages = 1 .. Len(pages)
  BY LenProperties DEF SPInv
<1>2. ASSUME NEW n \in DOMAIN pages
      PROVE  /\ PageSound(pages[n]) /\ DOMAIN pages[n].slots = 1 .. Len(pages[n].slots)
             /\ pages[n].start \in Nat /\ pages[n].end \in Nat
  <2>1. PageSound(pages[n])
    BY <1>1 DEF SPInv
  <2> QED
    BY <2>1, LenProperties DEF PageSound, SlottedPage
<1>3. SPTypeOK
  BY <1>2 DEF SPTypeOK, SPInv
<1>4. CellsApart
  BY <1>2 DEF CellsApart, PageSound
<1> QED
  BY <1>3, <1>4

\* The slots of a page stop before its cells, no two cells share a byte, and the
\* index leads to the last value put, for any sizes of pages and records.
THEOREM SPCorrect == SPSpec => [](SPTypeOK /\ CellsApart /\ SPAnswers)
BY SPInvSound, SPInvInit, SPInvStep, PTL DEF SPSpec
-----------------------------------------------------------------------------
(* Proof: the small LSM engine answers with the last value put *)

Records == Partly(Key, Value \union {Sentinel})

Told(entry) == IF entry = Sentinel THEN NoValue ELSE entry

\* What the memtable and the runs, the newest first, say of a key.
TinyEntry(mem, runs, k) ==
    IF k \in DOMAIN mem THEN mem[k]
    ELSE IF k \in HeldIn(runs) THEN Overlay(runs)[k] ELSE Sentinel

TinyInv ==
    /\ tinyMem \in Records /\ sstables \in Seq(Records)
    /\ Len(sstables) <= MaxTables
    /\ \A i \in 1 .. Len(sstables) : DOMAIN sstables[i] # {}
    /\ kv \in [Key -> Value \union {NoValue}]
    /\ \A k \in Key : Told(TinyEntry(tinyMem, Reverse(sstables), k)) = kv[k]

LEMMA Reversed ==
    ASSUME NEW S, NEW s \in Seq(S)
    PROVE  /\ Reverse(s) \in Seq(S) /\ Len(Reverse(s)) = Len(s)
           /\ \A x \in S : Reverse(Append(s, x)) = <<x>> \o Reverse(s)
<1>1. Reverse(s) \in Seq(S) /\ Len(Reverse(s)) = Len(s)
      /\ \A i \in 1 .. Len(s) : Reverse(s)[i] = s[Len(s) - i + 1]
  BY DEF Reverse
<1>2. ASSUME NEW x \in S  PROVE Reverse(Append(s, x)) = <<x>> \o Reverse(s)
  <2> DEFINE a == Reverse(Append(s, x))
             r == Reverse(s)
             b == <<x>> \o r
  <2>1. Append(s, x) \in Seq(S) /\ Len(Append(s, x)) = Len(s) + 1 /\ Len(s) \in Nat
        /\ Append(s, x)[Len(s) + 1] = x /\ \A i \in 1 .. Len(s) : Append(s, x)[i] = s[i]
    OBVIOUS
  <2>2. a \in Seq(S) /\ Len(a) = Len(s) + 1
        /\ \A i \in 1 .. Len(s) + 1 : a[i] = Append(s, x)[Len(s) + 1 - i + 1]
    BY SMTT(40), <2>1 DEF Reverse
  <2> HIDE DEF a, r
  <2>3. r \in Seq(S) /\ Len(r) = Len(s) /\ \A i \in 1 .. Len(s) : r[i] = s[Len(s) - i + 1]
    BY <1>1 DEF r
  <2>4. b \in Seq(S) /\ Len(b) = Len(s) + 1
        /\ \A i \in 1 .. Len(s) + 1 : b[i] = IF i = 1 THEN x ELSE r[i - 1]
    BY <2>1, <2>3
  <2> HIDE DEF b
  <2>5. ASSUME NEW i \in 1 .. Len(s) + 1  PROVE a[i] = b[i]
    <3>1. CASE i = 1
      BY <2>1, <2>2, <2>4, <3>1
    <3>2. CASE i # 1
      <4> DEFINE p == Len(s) + 1 - i + 1
      <4>1. i - 1 \in 1 .. Len(s) /\ p = Len(s) - (i - 1) + 1 /\ p \in 1 .. Len(s)
        BY <2>1, <3>2
      <4>2. a[i] = Append(s, x)[p]
        BY <2>2
      <4>3. b[i] = r[i - 1]
        BY <2>4, <3>2
      <4> HIDE DEF p
      <4>4. Append(s, x)[p] = s[p]
        BY <2>1, <4>1
      <4>5. r[i - 1] = s[p]
        BY <2>3, <4>1
      <4> QED
        BY <4>2, <4>3, <4>4, <4>5
    <3> QED
      BY <3>1, <3>2
  <2>6. a = b
    BY <2>2, <2>4, <2>5, SeqEqual
  <2> QED
    BY <2>6 DEF a, b, r
<1> QED
  BY <1>1, <1>2

\* What get() of the engine computes.
LEMMA FirstTells ==
    ASSUME NEW mem \in Records, NEW runs \in Seq(Records), NEW k
    PROVE  LET tables  == <<mem>> \o runs
               holders == Holders(tables, k)
               entry   == tables[Min(holders)][k]
           IN  (IF holders = {} \/ entry = Sentinel THEN NoValue ELSE entry)
                 = Told(TinyEntry(mem, runs, k))
<1> DEFINE tables == <<mem>> \o runs
<1>1. /\ HeldIn(tables) = DOMAIN mem \union HeldIn(runs) /\ tables \in Seq(Records)
      /\ k \in DOMAIN mem => Overlay(tables)[k] = mem[k]
      /\ k \in HeldIn(runs) \ DOMAIN mem => Overlay(tables)[k] = Overlay(runs)[k]
  BY LaidOn
<1> HIDE DEF tables
<1>2. DOMAIN tables \subseteq Nat
  BY <1>1, LenProperties
<1>3. k \in HeldIn(tables) => Overlay(tables)[k] = tables[Min(Holders(tables, k))][k]
  BY DEF Overlay
<1>4. Holders(tables, k) = {} <=> k \notin HeldIn(tables)
  BY HeldFacts
<1>5. (IF Holders(tables, k) = {} \/ tables[Min(Holders(tables, k))][k] = Sentinel
       THEN NoValue ELSE tables[Min(Holders(tables, k))][k]) = Told(TinyEntry(mem, runs, k))
  BY <1>1, <1>3, <1>4 DEF Told, TinyEntry
<1> QED
  BY <1>5 DEF tables

LEMMA NoRecordsFacts == NoRecords \in Records /\ DOMAIN NoRecords = {}
BY ZenonT(40), PartlyFacts DEF NoRecords, Records

LEMMA TinyInvInit == AMInit /\ TinyInit => TinyInv
<1> SUFFICES ASSUME AMInit, TinyInit  PROVE TinyInv
  OBVIOUS
<1>1. sstables = << >> /\ sstables \in Seq(Records) /\ Len(sstables) = 0 /\ tinyMem = NoRecords
  BY DEF TinyInit
<1>2. Reverse(sstables) \in Seq(Records) /\ Len(Reverse(sstables)) = 0
  BY <1>1, Reversed
<1>3. HeldIn(Reverse(sstables)) = {}
  <2>1. DOMAIN Reverse(sstables) = {}
    BY <1>2, LenProperties
  <2> QED
    BY <2>1 DEF HeldIn
<1>4. kv = [k \in Key |-> NoValue]
  BY DEF AMInit
<1> QED
  BY <1>1, <1>3, <1>4, NoRecordsFacts, TinySizes DEF TinyInv, TinyEntry, Told

\* put() or del(): the entry of one key is the last one stored.
LEMMA StoreStep ==
    ASSUME TinyInv, NEW k \in Key, NEW e \in Value \union {Sentinel}, Store(k, e),
           kv' = [kv EXCEPT ![k] = Told(e)]
    PROVE  TinyInv'
<1> USE TinySizes
<1> DEFINE m == With(tinyMem, k, e)
           runs == Reverse(sstables)
<1>1. /\ tinyMem \in Records /\ sstables \in Seq(Records) /\ Len(sstables) <= MaxTables
      /\ \A i \in 1 .. Len(sstables) : DOMAIN sstables[i] # {}
      /\ kv \in [Key -> Value \union {NoValue}]
      /\ \A j \in Key : Told(TinyEntry(tinyMem, runs, j)) = kv[j]
  BY DEF TinyInv
<1>2. /\ m \in Records /\ DOMAIN m = DOMAIN tinyMem \union {k} /\ m[k] = e
      /\ \A j \in DOMAIN tinyMem : j # k => m[j] = tinyMem[j]
  <2>1. m \in Records
    BY <1>1, WithPartly DEF Records
  <2> QED
    BY <2>1 DEF With
<1>3. runs \in Seq(Records) /\ Len(runs) = Len(sstables)
  BY <1>1, Reversed
<1>4. \/ /\ Len(sstables) < MaxTables /\ sstables' = Append(sstables, m) /\ tinyMem' = NoRecords
      \/ tinyMem' = m /\ sstables' = sstables
  BY DEF Store
<1> HIDE DEF m
<1>5. kv' \in [Key -> Value \union {NoValue}] /\ kv'[k] = Told(e)
      /\ \A j \in Key : j # k => kv'[j] = kv[j]
  BY <1>1 DEF Told
<1>6. ASSUME NEW j \in Key  PROVE Told(TinyEntry(m, runs, j)) = kv'[j]
  <2>1. CASE j = k
    BY <1>2, <1>5, <2>1 DEF TinyEntry
  <2>2. CASE j # k
    <3>1. TinyEntry(m, runs, j) = TinyEntry(tinyMem, runs, j)
      BY <1>2, <2>2 DEF TinyEntry
    <3> QED
      BY <1>1, <1>5, <2>2, <3>1
  <2> QED
    BY <2>1, <2>2
<1>7. CASE tinyMem' = m /\ sstables' = sstables
  BY <1>1, <1>2, <1>5, <1>6, <1>7 DEF TinyInv
<1>8. CASE Len(sstables) < MaxTables /\ sstables' = Append(sstables, m) /\ tinyMem' = NoRecords
  <2>1. Reverse(sstables') = <<m>> \o runs
    BY <1>1, <1>2, <1>8, Reversed
  <2>2. /\ HeldIn(<<m>> \o runs) = DOMAIN m \union HeldIn(runs)
        /\ \A j \in DOMAIN m : Overlay(<<m>> \o runs)[j] = m[j]
        /\ \A j \in HeldIn(runs) \ DOMAIN m : Overlay(<<m>> \o runs)[j] = Overlay(runs)[j]
    <3> HIDE DEF runs
    <3> QED
      BY <1>2, <1>3, LaidOn
  <2>3. ASSUME NEW j \in Key  PROVE TinyEntry(NoRecords, <<m>> \o runs, j) = TinyEntry(m, runs, j)
    <3> HIDE DEF runs
    <3> QED
      BY <2>2, NoRecordsFacts DEF TinyEntry
  <2>4. \A j \in Key : Told(TinyEntry(tinyMem', Reverse(sstables'), j)) = kv'[j]
    BY <1>6, <1>8, <2>1, <2>3
  <2>5. /\ sstables' \in Seq(Records) /\ Len(sstables') = Len(sstables) + 1
        /\ sstables'[Len(sstables) + 1] = m
        /\ \A i \in 1 .. Len(sstables) : sstables'[i] = sstables[i]
    BY <1>1, <1>2, <1>8
  <2>6. Len(sstables) \in Nat
    BY <1>1
  <2>7. \A i \in 1 .. Len(sstables') : DOMAIN sstables'[i] # {}
    <3> TAKE i \in 1 .. Len(sstables')
    <3>1. i = Len(sstables) + 1 \/ i \in 1 .. Len(sstables)
      BY <2>5, <2>6
    <3> QED
      BY <1>1, <1>2, <2>5, <3>1
  <2>8. Len(sstables') <= MaxTables
    BY <1>8, <2>5, <2>6
  <2> QED
    BY <1>5, <1>8, <2>4, <2>5, <2>7, <2>8, NoRecordsFacts DEF TinyInv
<1> QED
  BY <1>4, <1>7, <1>8

\* compact(): what the runs say is kept, but for deletions.
LEMMA TinyCompactStep == ASSUME TinyInv, TinyCompact  PROVE TinyInv'
<1> USE TinySizes
<1> DEFINE runs   == Reverse(sstables)
           merged == Overlay(runs)
           kept   == Restrict(merged, {k \in DOMAIN merged : merged[k] # Sentinel})
<1>1. /\ tinyMem \in Records /\ sstables \in Seq(Records) /\ Len(sstables) <= MaxTables
      /\ kv \in [Key -> Value \union {NoValue}]
      /\ \A j \in Key : Told(TinyEntry(tinyMem, runs, j)) = kv[j]
  BY DEF TinyInv
<1>2. /\ sstables' = IF DOMAIN kept = {} THEN << >> ELSE <<kept>>
      /\ tinyMem' = tinyMem /\ kv' = kv /\ Len(sstables) > 1
  BY DEF TinyCompact
<1>3. runs \in Seq(Records) /\ DOMAIN runs \subseteq Nat
  <2>1. runs \in Seq(Records)
    BY <1>1, Reversed
  <2> HIDE DEF runs
  <2> QED
    BY <2>1, LenProperties
<1> HIDE DEF runs
<1>4. DOMAIN merged = HeldIn(runs)
  BY <1>3, OverlayFacts
<1>5. ASSUME NEW k \in HeldIn(runs)  PROVE k \in Key /\ merged[k] \in Value \union {Sentinel}
  <2>1. PICK i \in DOMAIN runs : k \in DOMAIN runs[i] /\ merged[k] = runs[i][k]
    BY <1>3, OverlayFacts
  <2>2. runs[i] \in Records
    BY <1>3, <2>1, ElementOfSeq, LenProperties
  <2> QED
    BY <2>1, <2>2, PartlyFacts DEF Records
<1> HIDE DEF merged
<1>6. /\ DOMAIN kept = {k \in HeldIn(runs) : merged[k] # Sentinel}
      /\ kept = [k \in DOMAIN kept |-> kept[k]] /\ \A k \in DOMAIN kept : kept[k] = merged[k]
  BY <1>4 DEF Restrict
<1> HIDE DEF kept
<1>7. kept \in Records
  BY <1>5, <1>6, PartlyFacts DEF Records
<1>8. sstables' \in Seq(Records) /\ Len(sstables') <= 1
      /\ \A i \in 1 .. Len(sstables') : sstables'[i] = kept /\ DOMAIN kept # {}
  BY <1>2, <1>7
<1>9. ASSUME NEW j \in Key
      PROVE  Told(TinyEntry(tinyMem, Reverse(sstables'), j)) = Told(TinyEntry(tinyMem, runs, j))
  <2>1. /\ Reverse(sstables') \in Seq(Records) /\ Len(Reverse(sstables')) = Len(sstables')
    BY <1>8, Reversed
  <2>2. CASE DOMAIN kept = {}
    <3>1. Len(sstables') = 0
      BY <1>2, <2>2
    <3>2. DOMAIN Reverse(sstables') = {}
      BY <2>1, <3>1, LenProperties
    <3>3. HeldIn(Reverse(sstables')) = {}
      BY <3>2 DEF HeldIn
    <3>4. j \in HeldIn(runs) => merged[j] = Sentinel
      BY <1>6, <2>2
    <3> QED
      BY <3>3, <3>4 DEF TinyEntry, Told, merged
  <2>3. CASE DOMAIN kept # {}
    <3>1. sstables' = <<kept>> /\ Len(sstables') = 1
      BY <1>2, <2>3
    <3>2. Reverse(sstables') = <<kept>>
      BY <3>1 DEF Reverse
    <3>3. DOMAIN <<kept>> = {1} /\ <<kept>>[1] = kept /\ DOMAIN <<kept>> \subseteq Nat
      OBVIOUS
    <3>4. j \in HeldIn(<<kept>>) <=> j \in DOMAIN kept
      BY <3>3, HeldFacts
    <3>5. j \in DOMAIN kept => Overlay(<<kept>>)[j] = kept[j]
      BY <3>3, FirstHolds
    <3>6. j \in DOMAIN kept <=> j \in HeldIn(runs) /\ merged[j] # Sentinel
      BY <1>6
    <3>7. j \in DOMAIN kept => kept[j] = merged[j]
      BY <1>6
    <3> QED
      BY <3>2, <3>4, <3>5, <3>6, <3>7 DEF TinyEntry, Told, merged
  <2> QED
    BY <2>2, <2>3
<1>10. Len(sstables') <= MaxTables
  BY <1>1, <1>2, <1>8
<1>11. \A j \in Key : Told(TinyEntry(tinyMem', Reverse(sstables'), j)) = kv'[j]
  BY <1>1, <1>2, <1>9
<1> QED
  BY <1>1, <1>2, <1>8, <1>10, <1>11 DEF TinyInv

LEMMA TinyInvStep == TinyInv /\ [TinyNext]_tinyVars => TinyInv'
<1> SUFFICES ASSUME TinyInv, [TinyNext]_tinyVars  PROVE TinyInv'
  OBVIOUS
<1>1. ASSUME NEW k \in Key, NEW v \in Value, TinyPut(k, v)  PROVE TinyInv'
  <2>1. Told(v) = v
    BY TinySizes DEF Told
  <2> QED
    BY <1>1, <2>1, StoreStep DEF TinyPut, AMPut
<1>2. ASSUME NEW k \in Key, TinyDel(k)  PROVE TinyInv'
  <2>1. Told(Sentinel) = NoValue
    BY DEF Told
  <2> QED
    BY <1>2, <2>1, StoreStep DEF TinyDel, AMRemove
<1>3. CASE UNCHANGED tinyVars
  BY <1>3 DEF tinyVars, TinyInv
<1> QED
  BY <1>1, <1>2, <1>3, TinyCompactStep DEF TinyNext

LEMMA TinyInvSound == TinyInv => TinyTypeOK /\ TinyAnswers
<1> SUFFICES ASSUME TinyInv  PROVE TinyTypeOK /\ TinyAnswers
  OBVIOUS
<1>1. tinyMem \in Records /\ sstables \in Seq(Records) /\ Reverse(sstables) \in Seq(Records)
  BY Reversed DEF TinyInv
<1>2. TinyAnswers
  <2> SUFFICES ASSUME NEW k \in Key  PROVE TinyGet(k) = kv[k]
    BY DEF TinyAnswers
  <2>1. TinyGet(k) = Told(TinyEntry(tinyMem, Reverse(sstables), k))
    BY <1>1, FirstTells DEF TinyGet
  <2> QED
    BY <2>1 DEF TinyInv
<1>3. \A i \in DOMAIN sstables : DOMAIN sstables[i] # {} /\ DOMAIN sstables[i] \subseteq Key
  <2> TAKE i \in DOMAIN sstables
  <2>1. i \in 1 .. Len(sstables) /\ sstables[i] \in Records
    BY <1>1, LenProperties, ElementOfSeq
  <2> QED
    BY <2>1, PartlyFacts DEF TinyInv, Records
<1>4. TinyTypeOK
  BY <1>1, <1>3, PartlyFacts DEF TinyTypeOK, TinyInv, Records, Range
<1> QED
  BY <1>2, <1>4

\* get() of the small engine finds the last value put, before and after a
\* compaction and whatever is deleted; no run is empty.
THEOREM TinyCorrect == TinySpec => [](TinyTypeOK /\ TinyAnswers)
BY TinyInvSound, TinyInvInit, TinyInvStep, PTL DEF TinySpec
-----------------------------------------------------------------------------
(* Proof: Bitcask answers with the last value put *)

Cell == ({"header", "key"} \union Value) \X Nat
RecordPointer == [offset : Nat, size : Nat, tombstone : BOOLEAN]

\* The record of a key and a value starts where the pointer says.
Stored(disk, ptr, k, v) ==
    /\ v \in Value /\ ptr.size = ValLen[v]
    /\ ptr.offset + 1 + KeyLen[k] + ValLen[v] <= Len(disk)
    /\ disk[ptr.offset + 1] = <<"header", KeyLen[k]>>
    /\ \A i \in 1 .. ValLen[v] : disk[ptr.offset + 1 + KeyLen[k] + i] = <<v, i>>

BCInv ==
    /\ diskLog \in Seq(Cell) /\ keydir \in Partly(Key, RecordPointer)
    /\ IsFiniteSet(DOMAIN keydir)
    /\ kv \in [Key -> Value \union {NoValue}]
    /\ \A k \in Key : IF Live(k) THEN Stored(diskLog, keydir[k], k, kv[k]) ELSE kv[k] = NoValue

\* The cells that the records of some keys need, and that no more than those are there.
RecordLen(vals, k) == 1 + KeyLen[k] + ValLen[vals[k]]
Spans(vals, ks) == {x \in ks \X Nat : x[2] \in 1 .. RecordLen(vals, x[1])}
Kept(vals) == {k \in Key : vals[k] # NoValue}

\* The log is never shorter than the records that are live, so that merging
\* cannot lengthen it; the directory points into it.
BCRoom ==
    /\ IsFiniteSet(Spans(kv, Kept(kv))) /\ Cardinality(Spans(kv, Kept(kv))) <= Len(diskLog)
    /\ Len(diskLog) <= MaxLog
    /\ \A k \in DOMAIN keydir : keydir[k].offset <= Len(diskLog)

LEMMA NoPointersFacts == NoPointers \in Partly(Key, RecordPointer) /\ DOMAIN NoPointers = {}
<1>1. NoPointers = [k \in DOMAIN NoPointers |-> NoPointers[k]] /\ DOMAIN NoPointers = {}
  BY DEF NoPointers
<1> QED
  BY <1>1, PartlyFacts

LEMMA BCInvInit == AMInit /\ BCInit => BCInv
<1> SUFFICES ASSUME AMInit, BCInit  PROVE BCInv
  OBVIOUS
<1>1. keydir = NoPointers /\ diskLog = << >> /\ kv = [k \in Key |-> NoValue]
  BY DEF AMInit, BCInit
<1> QED
  BY <1>1, NoPointersFacts, FS_EmptySet DEF BCInv, Live

LEMMA CellsFacts ==
    ASSUME NEW k \in Key, NEW v \in Value
    PROVE  /\ KeyLen[k] \in Nat /\ KeyLen[k] % LengthModulus = KeyLen[k] /\ ValLen[v] \in Nat
           /\ KeyCells(k) \in Seq(Cell) /\ Len(KeyCells(k)) = KeyLen[k]
           /\ ValueCells(v) \in Seq(Cell) /\ Len(ValueCells(v)) = ValLen[v]
           /\ \A i \in 1 .. ValLen[v] : ValueCells(v)[i] = <<v, i>>
<1>1. KeyLen[k] \in Nat /\ ValLen[v] \in Nat /\ KeyLen[k] < LengthModulus /\ LengthModulus \in Nat
  BY BCSizes, RecordSizes
<1>2. KeyLen[k] % LengthModulus = KeyLen[k]
  BY <1>1
<1>3. \A i \in 1 .. KeyLen[k] : <<"key", i>> \in Cell
  BY <1>1 DEF Cell
<1>4. \A i \in 1 .. ValLen[v] : <<v, i>> \in Cell
  BY <1>1 DEF Cell
<1>5. KeyCells(k) \in Seq(Cell) /\ Len(KeyCells(k)) = KeyLen[k]
  BY <1>1, <1>3 DEF KeyCells
<1>6. ValueCells(v) \in Seq(Cell) /\ Len(ValueCells(v)) = ValLen[v]
  BY <1>1, <1>4 DEF ValueCells
<1>7. \A i \in 1 .. ValLen[v] : ValueCells(v)[i] = <<v, i>>
  BY DEF ValueCells
<1> QED
  BY <1>1, <1>2, <1>5, <1>6, <1>7

\* The cells of a record.
LEMMA RecordFacts ==
    ASSUME NEW k \in Key, NEW cells \in Seq(Cell)
    PROVE  /\ Record(k, cells) \in Seq(Cell)
           /\ Len(Record(k, cells)) = 1 + KeyLen[k] + Len(cells) /\ KeyLen[k] \in Nat
           /\ Record(k, cells)[1] = <<"header", KeyLen[k]>>
           /\ \A i \in 1 .. Len(cells) : Record(k, cells)[1 + KeyLen[k] + i] = cells[i]
<1> DEFINE header == <<"header", KeyLen[k]>>
           keys   == KeyCells(k)
           front  == <<header>> \o keys
           rec    == front \o cells
<1>1. KeyLen[k] \in Nat /\ KeyLen[k] < LengthModulus /\ LengthModulus \in Nat
  BY BCSizes
<1>2. KeyLen[k] % LengthModulus = KeyLen[k]
  BY <1>1
<1>3. header \in Cell
  BY <1>1 DEF Cell
<1>4. keys \in Seq(Cell) /\ Len(keys) = KeyLen[k]
  <2>1. \A i \in 1 .. KeyLen[k] : <<"key", i>> \in Cell
    BY <1>1 DEF Cell
  <2> QED
    BY <1>1, <2>1 DEF KeyCells
<1>5. rec = Record(k, cells)
  BY <1>2 DEF Record
<1> HIDE DEF keys, header
<1>6. /\ front \in Seq(Cell) /\ Len(front) = 1 + KeyLen[k] /\ front[1] = header
  BY <1>1, <1>3, <1>4
<1> HIDE DEF front
<1>7. /\ rec \in Seq(Cell) /\ Len(rec) = 1 + KeyLen[k] + Len(cells) /\ rec[1] = header
      /\ \A i \in 1 .. Len(cells) : rec[1 + KeyLen[k] + i] = cells[i]
  <2>1. Len(cells) \in Nat
    OBVIOUS
  <2>2. /\ rec \in Seq(Cell) /\ Len(rec) = Len(front) + Len(cells)
        /\ \A i \in 1 .. Len(rec) : rec[i] = IF i <= Len(front) THEN front[i] ELSE cells[i - Len(front)]
    BY <1>6
  <2> HIDE DEF rec
  <2>3. rec[1] = header
    <3>1. 1 \in 1 .. Len(rec) /\ 1 <= Len(front)
      BY SMTT(40), <1>1, <1>6, <2>1, <2>2
    <3> QED
      BY <1>6, <2>2, <3>1
  <2>4. ASSUME NEW i \in 1 .. Len(cells)  PROVE rec[1 + KeyLen[k] + i] = cells[i]
    <3> DEFINE x == 1 + KeyLen[k] + i
    <3>1. x \in 1 .. Len(rec) /\ ~(x <= Len(front)) /\ x - Len(front) = i
      <4>1. \A a, c \in Nat : \A j \in 1 .. c :
               /\ 1 + a + j \in 1 .. 1 + a + c /\ ~(1 + a + j <= 1 + a)
               /\ 1 + a + j - (1 + a) = j
        OBVIOUS
      <4>2. KeyLen[k] \in Nat /\ Len(rec) = 1 + KeyLen[k] + Len(cells)
        BY <1>1, <1>6, <2>2
      <4> QED
        BY SMTT(40), <1>6, <2>1, <4>1, <4>2
    <3> HIDE DEF x
    <3>2. rec[x] = cells[i]
      BY <2>2, <3>1
    <3> QED
      BY <3>2 DEF x
  <2> QED
    BY <1>6, <2>2, <2>3, <2>4
<1> QED
  BY <1>1, <1>5, <1>7 DEF header

\* What get() copies from where a record is stored.
LEMMA StoredReads ==
    ASSUME NEW disk \in Seq(Cell), NEW ptr \in RecordPointer, NEW k \in Key, NEW v,
           Stored(disk, ptr, k, v)
    PROVE  ReadAt(disk, ptr) = ValueCells(v) /\ ReadAt(disk, ptr) \in Seq(Cell)
           /\ Len(ReadAt(disk, ptr)) = ValLen[v] /\ v \in Value
<1> DEFINE start == ptr.offset + 1 + disk[ptr.offset + 1][2]
<1>1. v \in Value /\ ptr.size = ValLen[v] /\ disk[ptr.offset + 1] = <<"header", KeyLen[k]>>
  BY DEF Stored
<1>2. KeyLen[k] \in Nat /\ ValLen[v] \in Nat /\ ptr.offset \in Nat /\ Len(disk) \in Nat
  BY <1>1, CellsFacts DEF RecordPointer
<1>3. start = ptr.offset + 1 + KeyLen[k]
  BY <1>1
<1>4. start \in Nat /\ start + ValLen[v] <= Len(disk)
      /\ \A i \in 1 .. ValLen[v] : disk[start + i] = <<v, i>>
  <2>1. /\ ptr.offset + 1 + KeyLen[k] + ValLen[v] <= Len(disk)
        /\ \A i \in 1 .. ValLen[v] : disk[ptr.offset + 1 + KeyLen[k] + i] = <<v, i>>
    BY DEF Stored
  <2> HIDE DEF start
  <2>2. start \in Nat
    BY <1>2, <1>3
  <2> QED
    BY <1>3, <2>1, <2>2
<1> HIDE DEF start
<1> DEFINE read == SubSeq(disk, start + 1, start + ValLen[v])
<1>5. /\ read \in Seq(Cell) /\ Len(read) = ValLen[v]
      /\ \A i \in 1 .. ValLen[v] : read[i] = disk[start + i]
  <2>1. /\ start + 1 \in 1 .. Len(disk) + 1 /\ start + ValLen[v] \in start + 1 - 1 .. Len(disk)
    BY <1>2, <1>4
  <2>2. \A i \in 1 .. ValLen[v] : start + i \in 1 .. Len(disk) /\ start + 1 + i - 1 = start + i
    BY <1>2, <1>4
  <2>3. read = [i \in 1 .. ValLen[v] |-> disk[start + i]]
    <3>1. start + ValLen[v] - (start + 1) + 1 = ValLen[v]
      <4>1. \A a, b \in Nat : a + b - (a + 1) + 1 = b
        OBVIOUS
      <4> QED
        BY <1>2, <1>4, <4>1
    <3>2. read = [i \in 1 .. start + ValLen[v] - (start + 1) + 1 |-> disk[i + (start + 1) - 1]]
      BY SMTT(40), <1>2, <1>4
    <3>3. \A i \in 1 .. ValLen[v] : i + (start + 1) - 1 = start + i
      BY <1>2, <1>4
    <3> QED
      BY <3>1, <3>2, <3>3
  <2>4. \A i \in 1 .. ValLen[v] : disk[start + i] \in Cell
    BY <2>2
  <2> HIDE DEF read
  <2> QED
    BY <1>2, <2>3, <2>4
<1>6. read = ValueCells(v)
  <2>1. ValueCells(v) \in Seq(Cell) /\ Len(ValueCells(v)) = ValLen[v]
        /\ \A i \in 1 .. ValLen[v] : ValueCells(v)[i] = <<v, i>>
    BY <1>1, CellsFacts
  <2> HIDE DEF read
  <2> QED
    BY ZenonT(40), <1>4, <1>5, <2>1, SeqEqual
<1>7. ReadAt(disk, ptr) = read
  BY <1>1 DEF ReadAt, start
<1> QED
  BY <1>1, <1>5, <1>6, <1>7

\* Records stay where they are when the log grows, and the new one is at its end.
LEMMA Logged ==
    ASSUME NEW disk \in Seq(Cell), NEW more \in Seq(Cell)
    PROVE  /\ disk \o more \in Seq(Cell) /\ Len(disk \o more) = Len(disk) + Len(more)
           /\ \A ptr \in RecordPointer, k \in Key : \A v :
                 Stored(disk, ptr, k, v) => Stored(disk \o more, ptr, k, v)
<1> DEFINE new == disk \o more
<1>1. /\ new \in Seq(Cell) /\ Len(new) = Len(disk) + Len(more)
      /\ Len(disk) \in Nat /\ Len(more) \in Nat
      /\ \A i \in 1 .. Len(disk) : new[i] = disk[i]
  OBVIOUS
<1> HIDE DEF new
<1>2. ASSUME NEW ptr \in RecordPointer, NEW k \in Key, NEW v, Stored(disk, ptr, k, v)
      PROVE  Stored(new, ptr, k, v)
  <2>1. v \in Value /\ ptr.size = ValLen[v] /\ ptr.offset + 1 + KeyLen[k] + ValLen[v] <= Len(disk)
    BY <1>2 DEF Stored
  <2>2. ptr.offset \in Nat /\ KeyLen[k] \in Nat /\ ValLen[v] \in Nat
    BY <2>1, CellsFacts DEF RecordPointer
  <2>3. /\ ptr.offset + 1 \in 1 .. Len(disk)
        /\ \A i \in 1 .. ValLen[v] : ptr.offset + 1 + KeyLen[k] + i \in 1 .. Len(disk)
        /\ ptr.offset + 1 + KeyLen[k] + ValLen[v] <= Len(new)
    <3>1. ptr.offset + 1 \in 1 .. Len(disk)
      BY <1>1, <2>1, <2>2
    <3>2. \A i \in 1 .. ValLen[v] : ptr.offset + 1 + KeyLen[k] + i \in 1 .. Len(disk)
      <4>1. \A o, a, w, l \in Nat :
               o + 1 + a + w <= l => \A i \in 1 .. w : o + 1 + a + i \in 1 .. l
        OBVIOUS
      <4> QED
        BY <1>1, <2>1, <2>2, <4>1
    <3> DEFINE x == ptr.offset + 1 + KeyLen[k] + ValLen[v]
    <3>3. x \in Nat /\ x <= Len(disk)
      BY SMTT(40), <2>1, <2>2
    <3> HIDE DEF x
    <3>4. x <= Len(new)
      BY <1>1, <3>3
    <3> QED
      BY <3>1, <3>2, <3>4 DEF x
  <2> QED
    BY <1>1, <1>2, <2>1, <2>3 DEF Stored
<1> QED
  BY <1>1, <1>2 DEF new

LEMMA NewRecord ==
    ASSUME NEW disk \in Seq(Cell), NEW k \in Key, NEW v \in Value, NEW ptr \in RecordPointer,
           ptr.offset = Len(disk), ptr.size = ValLen[v]
    PROVE  Stored(disk \o Record(k, ValueCells(v)), ptr, k, v)
<1> DEFINE rec == Record(k, ValueCells(v))
           new == disk \o rec
<1>1. /\ rec \in Seq(Cell) /\ Len(rec) = 1 + KeyLen[k] + ValLen[v]
      /\ KeyLen[k] \in Nat /\ ValLen[v] \in Nat
      /\ rec[1] = <<"header", KeyLen[k]>>
      /\ \A i \in 1 .. ValLen[v] : rec[1 + KeyLen[k] + i] = <<v, i>>
  <2>1. ValueCells(v) \in Seq(Cell) /\ Len(ValueCells(v)) = ValLen[v] /\ ValLen[v] \in Nat
        /\ \A i \in 1 .. ValLen[v] : ValueCells(v)[i] = <<v, i>>
    BY CellsFacts
  <2> QED
    BY ZenonT(40), <2>1, RecordFacts
<1> HIDE DEF rec
<1>2. /\ Len(new) = Len(disk) + Len(rec) /\ Len(disk) \in Nat
      /\ \A i \in 1 .. Len(rec) : new[Len(disk) + i] = rec[i]
  <2>1. Len(disk) \in Nat /\ Len(rec) \in Nat
    BY <1>1
  <2>2. /\ Len(new) = Len(disk) + Len(rec)
        /\ \A i \in 1 .. Len(disk) + Len(rec) :
              new[i] = IF i <= Len(disk) THEN disk[i] ELSE rec[i - Len(disk)]
    <3>1. rec \in Seq(Cell)
      BY <1>1
    <3> QED
      BY ONLY <3>1, disk \in Seq(Cell), ConcatProperties
  <2> HIDE DEF new
  <2>3. ASSUME NEW i \in 1 .. Len(rec)  PROVE new[Len(disk) + i] = rec[i]
    <3> DEFINE x == Len(disk) + i
    <3>1. x \in 1 .. Len(disk) + Len(rec) /\ ~(x <= Len(disk)) /\ x - Len(disk) = i
      BY <2>1
    <3> HIDE DEF x
    <3>2. new[x] = rec[i]
      BY <2>2, <3>1
    <3> QED
      BY <3>2 DEF x
  <2> QED
    BY <2>1, <2>2, <2>3
<1> HIDE DEF new
<1>3. Len(disk) + 1 + KeyLen[k] + ValLen[v] <= Len(new)
  BY SMTT(40), <1>1, <1>2
<1>4. new[Len(disk) + 1] = <<"header", KeyLen[k]>>
  <2>1. 1 \in 1 .. Len(rec)
    BY <1>1
  <2> QED
    BY <1>1, <1>2, <2>1
<1>5. ASSUME NEW i \in 1 .. ValLen[v]  PROVE new[Len(disk) + 1 + KeyLen[k] + i] = <<v, i>>
  <2>1. 1 + KeyLen[k] + i \in 1 .. Len(rec)
    <3>1. \A a, b \in Nat : \A c \in 1 .. b : 1 + a + c \in 1 .. 1 + a + b
      OBVIOUS
    <3>2. KeyLen[k] \in Nat /\ ValLen[v] \in Nat /\ Len(rec) = 1 + KeyLen[k] + ValLen[v]
      BY <1>1
    <3> QED
      BY ONLY <3>1, <3>2, i \in 1 .. ValLen[v]
  <2>2. Len(disk) + (1 + KeyLen[k] + i) = Len(disk) + 1 + KeyLen[k] + i
    <3>1. \A a, b, c \in Nat : a + (1 + b + c) = a + 1 + b + c
      OBVIOUS
    <3>2. i \in Nat /\ KeyLen[k] \in Nat /\ Len(disk) \in Nat
      BY <1>1, <1>2
    <3> QED
      BY ONLY SMTT(40), <3>1, <3>2
  <2> QED
    BY <1>1, <1>2, <2>1, <2>2
<1>6. Stored(new, ptr, k, v)
  BY <1>3, <1>4, <1>5 DEF Stored
<1> QED
  BY <1>6 DEF new, rec

\* One record more: its cells are added to those of the others.
LEMMA SpansMore ==
    ASSUME NEW vals, NEW ks \in SUBSET Key, IsFiniteSet(Spans(vals, ks)),
           NEW k \in Key, k \notin ks, vals[k] \in Value
    PROVE  /\ IsFiniteSet(Spans(vals, ks \union {k})) /\ RecordLen(vals, k) \in Nat
           /\ Cardinality(Spans(vals, ks)) \in Nat
           /\ Cardinality(Spans(vals, ks \union {k})) = Cardinality(Spans(vals, ks)) + RecordLen(vals, k)
<1> DEFINE n == RecordLen(vals, k)
           old == Spans(vals, ks)
           own == {k} \X (1 .. n)
<1>1. n \in Nat
  <2>1. KeyLen[k] \in Nat /\ ValLen[vals[k]] \in Nat
    BY CellsFacts
  <2> QED
    BY <2>1 DEF RecordLen
<1>2. Spans(vals, ks \union {k}) = old \union own
  <2>1. \A i \in 1 .. n : i \in Nat
    BY <1>1
  <2> QED
    BY <2>1 DEF Spans
<1>3. old \cap own = {}
  BY DEF Spans
<1> HIDE DEF n, old
<1>4. IsFiniteSet(1 .. n) /\ Cardinality(1 .. n) = n
  BY <1>1, FS_Interval
<1>5. IsFiniteSet({k}) /\ Cardinality({k}) = 1
  BY FS_Singleton
<1>6. IsFiniteSet(own) /\ Cardinality(own) = n
  <2>1. IsFiniteSet(own) /\ Cardinality(own) = 1 * n
    BY ZenonT(40), <1>4, <1>5, FS_Product
  <2> QED
    BY <1>1, <2>1
<1> HIDE DEF own
<1>7. IsFiniteSet(old)
  BY DEF old
<1>8. /\ IsFiniteSet(old \union own)
      /\ Cardinality(old \union own) = Cardinality(old) + Cardinality(own) - Cardinality({})
  BY <1>3, <1>6, <1>7, FS_Union
<1>9. Cardinality(old) \in Nat /\ Cardinality({}) = 0
  BY <1>7, FS_CardinalityType, FS_EmptySet
<1>10. Cardinality(old \union own) = Cardinality(old) + n
  BY <1>1, <1>6, <1>8, <1>9
<1> QED
  BY <1>1, <1>2, <1>8, <1>9, <1>10 DEF n, old

\* Fewer records: what the others need is a part.
LEMMA SpansFewer ==
    ASSUME NEW vals, NEW new, NEW ks \in SUBSET Key, NEW some \in SUBSET ks,
           \A k \in some : new[k] = vals[k], IsFiniteSet(Spans(vals, ks))
    PROVE  /\ IsFiniteSet(Spans(new, some))
           /\ Cardinality(Spans(new, some)) <= Cardinality(Spans(vals, ks))
<1>1. Spans(new, some) \subseteq Spans(vals, ks)
  BY DEF Spans, RecordLen
<1> QED
  BY <1>1, FS_Subset

LEMMA BCPutStep == ASSUME BCInv, NEW k \in Key, NEW v \in Value, BCPut(k, v)  PROVE BCInv'
<1> DEFINE ptr == [offset |-> Len(diskLog), size |-> ValLen[v], tombstone |-> FALSE]
           rec == Record(k, ValueCells(v))
<1>1. /\ diskLog' = diskLog \o rec /\ keydir' = With(keydir, k, ptr)
      /\ kv' = [kv EXCEPT ![k] = v]
  BY DEF BCPut, AMPut
<1>2. /\ diskLog \in Seq(Cell) /\ keydir \in Partly(Key, RecordPointer)
      /\ IsFiniteSet(DOMAIN keydir) /\ kv \in [Key -> Value \union {NoValue}]
      /\ \A j \in Key : IF Live(j) THEN Stored(diskLog, keydir[j], j, kv[j]) ELSE kv[j] = NoValue
  BY DEF BCInv
<1>3. ptr \in RecordPointer /\ ptr.offset = Len(diskLog) /\ ptr.size = ValLen[v] /\ ~ptr.tombstone
  <2>1. Len(diskLog) \in Nat /\ ValLen[v] \in Nat
    BY <1>2, CellsFacts
  <2> QED
    BY <2>1 DEF RecordPointer
<1> HIDE DEF ptr
<1>4. /\ keydir' \in Partly(Key, RecordPointer)
      /\ DOMAIN keydir' = DOMAIN keydir \union {k} /\ keydir'[k] = ptr
      /\ \A j \in DOMAIN keydir : j # k => keydir'[j] = keydir[j]
  <2>1. keydir' \in Partly(Key, RecordPointer)
    BY <1>1, <1>2, <1>3, WithPartly
  <2> QED
    BY <1>1, <2>1 DEF With
<1>5. rec \in Seq(Cell)
  BY CellsFacts, RecordFacts
<1>6. Stored(diskLog', keydir'[k], k, v)
  BY <1>1, <1>2, <1>3, <1>4, NewRecord
<1> HIDE DEF rec
<1>7. diskLog' \in Seq(Cell)
      /\ \A p \in RecordPointer, j \in Key : \A w : Stored(diskLog, p, j, w) => Stored(diskLog', p, j, w)
  BY <1>1, <1>2, <1>5, Logged
<1>8. kv' \in [Key -> Value \union {NoValue}] /\ kv'[k] = v /\ \A j \in Key : j # k => kv'[j] = kv[j]
  BY <1>1, <1>2
<1>9. ASSUME NEW j \in Key
      PROVE  IF Live(j)' THEN Stored(diskLog', keydir'[j], j, kv'[j]) ELSE kv'[j] = NoValue
  <2>1. CASE j = k
    <3>1. Live(j)'
      BY <1>3, <1>4, <2>1 DEF Live
    <3> QED
      BY <1>6, <1>8, <2>1, <3>1
  <2>2. CASE j # k
    <3>1. Live(j)' <=> Live(j)
      BY <1>4, <2>2 DEF Live
    <3>2. Live(j) => keydir'[j] = keydir[j] /\ keydir[j] \in RecordPointer
      BY <1>2, <1>4, <2>2, PartlyFacts DEF Live
    <3> QED
      BY <1>2, <1>7, <1>8, <2>2, <3>1, <3>2
  <2> QED
    BY <2>1, <2>2
<1>10. IsFiniteSet(DOMAIN keydir')
  BY <1>2, <1>4, FS_AddElement
<1> QED
  BY <1>4, <1>7, <1>8, <1>9, <1>10 DEF BCInv

LEMMA BCDelStep == ASSUME BCInv, NEW k \in Key, BCDel(k)  PROVE BCInv'
<1> DEFINE ptr == [offset |-> Len(diskLog), size |-> 0, tombstone |-> TRUE]
           rec == Record(k, << >>)
<1>1. /\ diskLog' = diskLog \o rec /\ keydir' = With(keydir, k, ptr)
      /\ kv' = [kv EXCEPT ![k] = NoValue]
  BY DEF BCDel, AMRemove
<1>2. /\ diskLog \in Seq(Cell) /\ keydir \in Partly(Key, RecordPointer)
      /\ IsFiniteSet(DOMAIN keydir) /\ kv \in [Key -> Value \union {NoValue}]
      /\ \A j \in Key : IF Live(j) THEN Stored(diskLog, keydir[j], j, kv[j]) ELSE kv[j] = NoValue
  BY DEF BCInv
<1>3. ptr \in RecordPointer /\ ptr.tombstone
  <2>1. Len(diskLog) \in Nat
    BY <1>2
  <2> QED
    BY <2>1 DEF RecordPointer
<1> HIDE DEF ptr
<1>4. /\ keydir' \in Partly(Key, RecordPointer)
      /\ DOMAIN keydir' = DOMAIN keydir \union {k} /\ keydir'[k] = ptr
      /\ \A j \in DOMAIN keydir : j # k => keydir'[j] = keydir[j]
  <2>1. keydir' \in Partly(Key, RecordPointer)
    BY <1>1, <1>2, <1>3, WithPartly
  <2> QED
    BY <1>1, <2>1 DEF With
<1>5. rec \in Seq(Cell)
  <2>1. << >> \in Seq(Cell)
    OBVIOUS
  <2> QED
    BY <2>1, RecordFacts
<1> HIDE DEF rec
<1>7. diskLog' \in Seq(Cell)
      /\ \A p \in RecordPointer, j \in Key : \A w : Stored(diskLog, p, j, w) => Stored(diskLog', p, j, w)
  BY <1>1, <1>2, <1>5, Logged
<1>8. kv' \in [Key -> Value \union {NoValue}] /\ kv'[k] = NoValue
      /\ \A j \in Key : j # k => kv'[j] = kv[j]
  BY <1>1, <1>2
<1>9. ASSUME NEW j \in Key
      PROVE  IF Live(j)' THEN Stored(diskLog', keydir'[j], j, kv'[j]) ELSE kv'[j] = NoValue
  <2>1. CASE j = k
    <3>1. ~Live(j)'
      BY <1>3, <1>4, <2>1 DEF Live
    <3> QED
      BY <1>8, <2>1, <3>1
  <2>2. CASE j # k
    <3>1. Live(j)' <=> Live(j)
      BY <1>4, <2>2 DEF Live
    <3>2. Live(j) => keydir'[j] = keydir[j] /\ keydir[j] \in RecordPointer
      BY <1>2, <1>4, <2>2, PartlyFacts DEF Live
    <3> QED
      BY <1>2, <1>7, <1>8, <2>2, <3>1, <3>2
  <2> QED
    BY <2>1, <2>2
<1>10. IsFiniteSet(DOMAIN keydir')
  BY <1>2, <1>4, FS_AddElement
<1> QED
  BY <1>4, <1>7, <1>8, <1>9, <1>10 DEF BCInv

\* A put adds its record and makes the one before it, if any, superfluous.
LEMMA BCPutRoom ==
    ASSUME BCInv, BCRoom, NEW k \in Key, NEW v \in Value, BCPut(k, v)
    PROVE  BCRoom'
<1> DEFINE others == Kept(kv) \ {k}
           n == 1 + KeyLen[k] + ValLen[v]
<1>1. /\ Len(diskLog) + 1 + KeyLen[k] + ValLen[v] <= MaxLog
      /\ diskLog' = diskLog \o Record(k, ValueCells(v))
      /\ keydir' = With(keydir, k, [offset |-> Len(diskLog), size |-> ValLen[v], tombstone |-> FALSE])
      /\ kv' = [kv EXCEPT ![k] = v]
  BY DEF BCPut, AMPut
<1>2. /\ diskLog \in Seq(Cell) /\ kv \in [Key -> Value \union {NoValue}]
      /\ keydir \in Partly(Key, RecordPointer)
  BY DEF BCInv
<1>3. /\ IsFiniteSet(Spans(kv, Kept(kv))) /\ Cardinality(Spans(kv, Kept(kv))) <= Len(diskLog)
      /\ \A j \in DOMAIN keydir : keydir[j].offset <= Len(diskLog)
  BY DEF BCRoom
<1>4. KeyLen[k] \in Nat /\ ValLen[v] \in Nat /\ Len(diskLog) \in Nat /\ MaxLog \in Nat
  BY <1>2, CellsFacts, BCSizes
<1>5. /\ Record(k, ValueCells(v)) \in Seq(Cell) /\ Len(Record(k, ValueCells(v))) = n
  <2>1. ValueCells(v) \in Seq(Cell) /\ Len(ValueCells(v)) = ValLen[v]
    BY CellsFacts
  <2> QED
    BY <2>1, RecordFacts
<1>6. Len(diskLog') = Len(diskLog) + n
  BY <1>1, <1>2, <1>5, Logged
<1>7. n \in Nat /\ Len(diskLog) <= Len(diskLog') /\ Len(diskLog') <= MaxLog /\ Len(diskLog') \in Nat
  <2>1. \A old, new, max, kl, vl \in Nat :
            old + 1 + kl + vl <= max /\ new = old + (1 + kl + vl)
                => 1 + kl + vl \in Nat /\ old <= new /\ new <= max
    OBVIOUS
  <2>2. n \in Nat /\ Len(diskLog') \in Nat
    BY ONLY <1>4, <1>6
  <2> QED
    BY ONLY <1>1, <1>4, <1>6, <2>1, <2>2
<1>8. /\ kv'[k] = v /\ \A j \in Key : j # k => kv'[j] = kv[j]
      /\ Kept(kv') = others \union {k}
  <2>1. kv'[k] = v /\ \A j \in Key : j # k => kv'[j] = kv[j]
    BY <1>1, <1>2
  <2> QED
    BY <2>1, NoValueApart DEF Kept
<1>9. others \in SUBSET Kept(kv) /\ Kept(kv) \in SUBSET Key /\ k \notin others
      /\ \A j \in others : kv'[j] = kv[j]
  BY <1>8 DEF Kept
<1> HIDE DEF others
<1>10. /\ IsFiniteSet(Spans(kv', others))
       /\ Cardinality(Spans(kv', others)) <= Cardinality(Spans(kv, Kept(kv)))
  BY <1>3, <1>9, SpansFewer
<1>11. /\ IsFiniteSet(Spans(kv', Kept(kv')))
       /\ Cardinality(Spans(kv', others)) \in Nat
       /\ Cardinality(Spans(kv', Kept(kv'))) = Cardinality(Spans(kv', others)) + n
  <2>1. others \in SUBSET Key /\ kv'[k] \in Value
    BY <1>8, <1>9
  <2>2. RecordLen(kv', k) = n
    BY <1>8 DEF RecordLen
  <2> HIDE DEF n
  <2> QED
    BY <1>8, <1>9, <1>10, <2>1, <2>2, SpansMore
<1>12. Cardinality(Spans(kv, Kept(kv))) \in Nat
  BY <1>3, FS_CardinalityType
<1> HIDE DEF n
<1>13. Cardinality(Spans(kv', Kept(kv'))) <= Len(diskLog')
  <2>1. \A a, b, l, m \in Nat : a <= b /\ b <= l => a + m <= l + m
    OBVIOUS
  <2> QED
    BY <1>3, <1>4, <1>6, <1>7, <1>10, <1>11, <1>12, <2>1
<1>14. ASSUME NEW j \in DOMAIN keydir'  PROVE keydir'[j].offset <= Len(diskLog')
  <2>1. CASE j = k
    <3>1. keydir'[j].offset = Len(diskLog)
      BY <1>1, <2>1 DEF With
    <3> QED
      BY <1>7, <3>1
  <2>2. CASE j # k
    <3>1. j \in DOMAIN keydir /\ keydir'[j] = keydir[j]
      BY <1>1, <2>2 DEF With
    <3>2. keydir[j].offset \in Nat
      <4>1. keydir[j] \in RecordPointer
        BY ONLY <1>2, <3>1, PartlyFacts
      <4> QED
        BY <4>1 DEF RecordPointer
    <3> QED
      BY <1>3, <1>4, <1>7, <3>1, <3>2
  <2> QED
    BY <2>1, <2>2
<1> QED
  BY <1>7, <1>11, <1>13, <1>14 DEF BCRoom

LEMMA BCDelRoom ==
    ASSUME BCInv, BCRoom, NEW k \in Key, BCDel(k)
    PROVE  BCRoom'
<1> DEFINE others == Kept(kv) \ {k}
           rec == Record(k, << >>)
<1>1. /\ Len(diskLog) + 1 + KeyLen[k] <= MaxLog
      /\ diskLog' = diskLog \o rec
      /\ keydir' = With(keydir, k, [offset |-> Len(diskLog), size |-> 0, tombstone |-> TRUE])
      /\ kv' = [kv EXCEPT ![k] = NoValue]
  BY DEF BCDel, AMRemove
<1>2. /\ diskLog \in Seq(Cell) /\ kv \in [Key -> Value \union {NoValue}]
      /\ keydir \in Partly(Key, RecordPointer)
  BY DEF BCInv
<1>3. /\ IsFiniteSet(Spans(kv, Kept(kv))) /\ Cardinality(Spans(kv, Kept(kv))) <= Len(diskLog)
      /\ \A j \in DOMAIN keydir : keydir[j].offset <= Len(diskLog)
  BY DEF BCRoom
<1>4. Len(diskLog) \in Nat /\ MaxLog \in Nat /\ KeyLen[k] \in Nat
  BY <1>2, BCSizes
<1>5. rec \in Seq(Cell) /\ Len(rec) = 1 + KeyLen[k]
  <2>1. << >> \in Seq(Cell) /\ Len(<< >>) = 0
    OBVIOUS
  <2>2. rec \in Seq(Cell) /\ Len(rec) = 1 + KeyLen[k] + 0
    BY <2>1, RecordFacts
  <2> QED
    BY <1>4, <2>2
<1> HIDE DEF rec
<1>6. Len(diskLog') = Len(diskLog) + Len(rec)
  BY <1>1, <1>2, <1>5, Logged
<1>7. Len(diskLog) <= Len(diskLog') /\ Len(diskLog') <= MaxLog /\ Len(diskLog') \in Nat
  BY SMTT(40), <1>1, <1>4, <1>5, <1>6
<1>8. /\ Kept(kv') = others /\ \A j \in others : kv'[j] = kv[j]
      /\ others \in SUBSET Kept(kv) /\ Kept(kv) \in SUBSET Key
  BY <1>1, <1>2 DEF Kept
<1> HIDE DEF others
<1>9. /\ IsFiniteSet(Spans(kv', Kept(kv')))
      /\ Cardinality(Spans(kv', Kept(kv'))) <= Cardinality(Spans(kv, Kept(kv)))
  BY <1>3, <1>8, SpansFewer
<1>10. Cardinality(Spans(kv, Kept(kv))) \in Nat /\ Cardinality(Spans(kv', Kept(kv'))) \in Nat
  BY <1>3, <1>9, FS_CardinalityType
<1>11. Cardinality(Spans(kv', Kept(kv'))) <= Len(diskLog')
  <2>1. \A a, b, l, m \in Nat : a <= b /\ b <= l /\ l <= m => a <= m
    OBVIOUS
  <2> QED
    BY <1>3, <1>4, <1>7, <1>9, <1>10, <2>1
<1>12. ASSUME NEW j \in DOMAIN keydir'  PROVE keydir'[j].offset <= Len(diskLog')
  <2>1. CASE j = k
    <3>1. keydir'[j].offset = Len(diskLog)
      BY <1>1, <2>1 DEF With
    <3> QED
      BY <1>7, <3>1
  <2>2. CASE j # k
    <3>1. j \in DOMAIN keydir /\ keydir'[j] = keydir[j]
      BY <1>1, <2>2 DEF With
    <3>2. keydir[j].offset \in Nat
      <4>1. keydir[j] \in RecordPointer
        BY ONLY <1>2, <3>1, PartlyFacts
      <4> QED
        BY <4>1 DEF RecordPointer
    <3> QED
      BY <1>3, <1>4, <1>7, <3>1, <3>2
  <2> QED
    BY <2>1, <2>2
<1> QED
  BY <1>7, <1>9, <1>11, <1>12 DEF BCRoom

\* An order of a finite set meets every member.
LEMMA OrdersMeetAll ==
    ASSUME NEW S, IsFiniteSet(S), NEW order \in SetToSeqs(S)
    PROVE  /\ order \in [1 .. Cardinality(S) -> S] /\ Cardinality(S) \in Nat
           /\ \A x \in S : \E i \in 1 .. Cardinality(S) : order[i] = x
           /\ Len(order) = Cardinality(S)
           /\ \A i, j \in 1 .. Cardinality(S) : i # j => order[i] # order[j]
<1> DEFINE n == Cardinality(S)
<1>1. n \in Nat
  BY FS_CardinalityType
<1>2. order \in [1 .. n -> S] /\ \A i, j \in 1 .. n : i # j => order[i] # order[j]
  BY DEF SetToSeqs
<1>3. order \in Injection(1 .. n, S)
  <2>1. \A i, j \in 1 .. n : order[i] = order[j] => i = j
    BY <1>2
  <2> QED
    BY <1>2, <2>1 DEF Injection, IsInjective
<1>4. Cardinality(1 .. n) = n
  BY <1>1, FS_Interval
<1>5. order \in Surjection(1 .. n, S)
  BY <1>3, <1>4, FS_Injection
<1>6. \A x \in S : \E i \in 1 .. n : order[i] = x
  BY <1>5 DEF Surjection
<1>7. Len(order) = n
  BY <1>1, <1>2
<1> QED
  BY <1>1, <1>2, <1>6, <1>7

\* merge_and_compact() in any order of the keys that are there: each is stored in
\* the new log as it was in the old one, and no other is in the directory.
LEMMA MergeStep ==
    ASSUME BCInv, NEW order \in SetToSeqs({k \in Key : Live(k)}), MergeAndCompact(order)
    PROVE  /\ BCInv' /\ Len(diskLog') = Cardinality(Spans(kv, Kept(kv)))
           /\ \A k \in DOMAIN keydir' : k \in Key /\ Live(k)'
<1> DEFINE live == {k \in Key : Live(k)}
           N == Cardinality(live)
<1>1. /\ diskLog \in Seq(Cell) /\ keydir \in Partly(Key, RecordPointer)
      /\ IsFiniteSet(DOMAIN keydir) /\ kv \in [Key -> Value \union {NoValue}]
      /\ \A j \in Key : IF Live(j) THEN Stored(diskLog, keydir[j], j, kv[j]) ELSE kv[j] = NoValue
  BY DEF BCInv
<1>2. IsFiniteSet(live)
  <2>1. live \subseteq DOMAIN keydir
    BY DEF Live
  <2> QED
    BY <1>1, <2>1, FS_Subset
<1>3. /\ order \in [1 .. N -> live] /\ N \in Nat /\ Len(order) = N
      /\ \A x \in live : \E i \in 1 .. N : order[i] = x
      /\ \A i, j \in 1 .. N : i # j => order[i] # order[j]
  <2>1. order \in SetToSeqs(live)
    OBVIOUS
  <2> HIDE DEF live
  <2> QED
    BY <1>2, <2>1, OrdersMeetAll
<1>4. ASSUME NEW k \in live
      PROVE  /\ k \in Key /\ keydir[k] \in RecordPointer /\ ~keydir[k].tombstone
             /\ Stored(diskLog, keydir[k], k, kv[k])
             /\ ReadAt(diskLog, keydir[k]) = ValueCells(kv[k])
             /\ kv[k] \in Value /\ keydir[k].size = ValLen[kv[k]]
             /\ ValueCells(kv[k]) \in Seq(Cell)
             /\ Record(k, ValueCells(kv[k])) \in Seq(Cell)
  <2>1. k \in Key /\ k \in DOMAIN keydir /\ ~keydir[k].tombstone /\ Live(k)
    BY DEF Live
  <2>2. keydir[k] \in RecordPointer
    BY <1>1, <2>1, PartlyFacts
  <2>3. Stored(diskLog, keydir[k], k, kv[k])
    BY <1>1, <2>1
  <2>4. ReadAt(diskLog, keydir[k]) = ValueCells(kv[k]) /\ kv[k] \in Value
    BY <1>1, <2>1, <2>2, <2>3, StoredReads
  <2>5. ValueCells(kv[k]) \in Seq(Cell)
    BY <2>1, <2>4, CellsFacts
  <2>6. Record(k, ValueCells(kv[k])) \in Seq(Cell)
    BY <2>1, <2>5, RecordFacts
  <2>7. keydir[k].size = ValLen[kv[k]]
    BY <2>3 DEF Stored
  <2> QED
    BY <2>1, <2>2, <2>3, <2>4, <2>5, <2>6, <2>7
<1> HIDE DEF live, N
<1> DEFINE S == [log : Seq(Cell), dir : Partly(Key, RecordPointer)]
           start == [log |-> << >>, dir |-> NoPointers]
           Moved(k, new) == [keydir[k] EXCEPT !.offset = Len(new.log)]
           Round(k, new) ==
               [log |-> new.log \o Record(k, ReadAt(diskLog, keydir[k])),
                dir |-> With(new.dir, k, Moved(k, new))]
<1>5. ASSUME NEW k \in live, NEW new \in S
      PROVE  /\ Moved(k, new) \in RecordPointer /\ Moved(k, new).offset = Len(new.log)
             /\ Moved(k, new).size = ValLen[kv[k]] /\ ~Moved(k, new).tombstone
             /\ Round(k, new).log = new.log \o Record(k, ValueCells(kv[k]))
             /\ Round(k, new).dir = With(new.dir, k, Moved(k, new))
             /\ Round(k, new) \in S
  <2>1. new.log \in Seq(Cell) /\ new.dir \in Partly(Key, RecordPointer) /\ Len(new.log) \in Nat
    OBVIOUS
  <2>2. /\ Moved(k, new) \in RecordPointer /\ Moved(k, new).offset = Len(new.log)
        /\ Moved(k, new).size = keydir[k].size /\ Moved(k, new).tombstone = keydir[k].tombstone
    BY <1>4, <2>1 DEF RecordPointer
  <2>3. Round(k, new).log = new.log \o Record(k, ValueCells(kv[k]))
        /\ Round(k, new).dir = With(new.dir, k, Moved(k, new))
    BY <1>4
  <2>4. new.log \o Record(k, ValueCells(kv[k])) \in Seq(Cell)
    BY <1>4, <2>1
  <2> HIDE DEF Moved
  <2>5. With(new.dir, k, Moved(k, new)) \in Partly(Key, RecordPointer)
    BY <1>4, <2>1, <2>2, WithPartly
  <2>6. Round(k, new) \in S
    BY <1>4, <2>4, <2>5
  <2> QED
    BY <1>4, <2>2, <2>3, <2>6
<1> DEFINE step == [x \in (1 .. N) \X S |-> Round(order[x[1]], x[2])]
<1>6. start \in S
  <2>1. << >> \in Seq(Cell)
    OBVIOUS
  <2> QED
    BY <2>1, NoPointersFacts
<1> HIDE DEF Round
<1>7. step \in [(1 .. N) \X S -> S]
  <2>1. \A x \in (1 .. N) \X S : order[x[1]] \in live /\ x[2] \in S
    BY <1>3
  <2> HIDE DEF S
  <2> QED
    BY <1>5, <2>1
<1> DEFINE Copies(f) == f = [n \in 0 .. N |-> IF n = 0 THEN start ELSE Round(order[n], f[n - 1])]
           after == CHOOSE f : Copies(f)
<1>8. \E f \in [0 .. N -> S] : Copies(f)
  <2> HIDE DEF S, start
  <2>1. PICK f \in [0 .. N -> S] : Repeats(f, start, N, step)
    <3> HIDE DEF step
    <3>1. N \in Nat
      BY <1>3
    <3> QED
      BY ONLY <3>1, <1>6, <1>7, Rounds
  <2>2. ASSUME NEW n \in 1 .. N  PROVE f[n] = Round(order[n], f[n - 1])
    <3>1. n - 1 \in 0 .. N
      BY <1>3
    <3>2. <<n, f[n - 1]>> \in (1 .. N) \X S
      BY <3>1
    <3> QED
      BY <2>1, <3>2 DEF Repeats
  <2>3. \A n \in 0 .. N : f[n] = IF n = 0 THEN start ELSE Round(order[n], f[n - 1])
    <3>1. \A n \in 0 .. N : n = 0 \/ n \in 1 .. N
      BY <1>3
    <3> QED
      BY <2>1, <2>2, <3>1 DEF Repeats
  <2>4. Copies(f)
    BY <2>3
  <2> QED
    BY <2>4
<1>9. Copies(after)
  BY <1>8
<1>10. after[0] = start /\ \A n \in 1 .. N : after[n] = Round(order[n], after[n - 1])
  <2>1. \A n \in 1 .. N : n \in 0 .. N /\ n # 0
    OBVIOUS
  <2>2. 0 \in 0 .. N
    BY <1>3
  <2> HIDE DEF start, after
  <2>3. \A n \in 0 .. N : after[n] = IF n = 0 THEN start ELSE Round(order[n], after[n - 1])
    BY <1>9
  <2> QED
    BY <2>1, <2>2, <2>3
<1>11. Compacted(order) = after[N]
  BY <1>3 DEF Compacted, Round
<1> HIDE DEF after
\* What the first n rounds have copied.
<1> DEFINE Copied(n) == {order[i] : i \in 1 .. n}
           Fills(n) ==
               /\ IsFiniteSet(Spans(kv, Copied(n)))
               /\ Len(after[n].log) = Cardinality(Spans(kv, Copied(n)))
<1> DEFINE Good(n) ==
               /\ after[n] \in S
               /\ DOMAIN after[n].dir = {order[i] : i \in 1 .. n}
               /\ \A i \in 1 .. n :
                     /\ Stored(after[n].log, after[n].dir[order[i]], order[i], kv[order[i]])
                     /\ ~after[n].dir[order[i]].tombstone
               /\ Fills(n)
           good == {n \in 0 .. N : Good(n)}
<1>12. 0 \in good
  <2>1. after[0].dir = NoPointers /\ DOMAIN NoPointers = {}
    BY <1>10 DEF NoPointers
  <2>2. {order[i] : i \in 1 .. 0} = {}
    OBVIOUS
  <2>3. Fills(0)
    <3>1. Spans(kv, Copied(0)) = {}
      BY <2>2 DEF Spans
    <3>2. Len(after[0].log) = 0
      BY <1>10
    <3> HIDE DEF Copied
    <3> QED
      BY <3>1, <3>2, FS_EmptySet
  <2>4. Good(0)
    <3> HIDE DEF Fills
    <3> QED
      BY <1>6, <1>10, <2>1, <2>2, <2>3
  <2>5. 0 \in 0 .. N
    BY <1>3
  <2> HIDE DEF Good
  <2> QED
    BY <2>4, <2>5
<1> HIDE DEF Fills
<1>13. ASSUME NEW n \in 1 .. N, n - 1 \in good  PROVE n \in good
  <2> DEFINE new == after[n - 1]
             k == order[n]
             ptr == Moved(k, new)
  <2>1. Good(n - 1) /\ n \in 0 .. N /\ n \in Nat
    BY <1>13
  <2>2. k \in live /\ k \in Key /\ new \in S
    BY <1>3, <1>4, <2>1
  <2>3. new.log \in Seq(Cell) /\ new.dir \in Partly(Key, RecordPointer)
    BY <2>2
  <2>4. /\ ptr \in RecordPointer /\ ptr.offset = Len(new.log)
        /\ ptr.size = ValLen[kv[k]] /\ ~ptr.tombstone
        /\ Round(k, new).log = new.log \o Record(k, ValueCells(kv[k]))
        /\ Round(k, new).dir = With(new.dir, k, ptr)
        /\ Round(k, new) \in S
    BY <1>5, <2>2
  <2>5. after[n] = Round(k, new)
    BY <1>10
  <2>6. DOMAIN new.dir = {order[i] : i \in 1 .. n - 1}
        /\ \A i \in 1 .. n - 1 : /\ Stored(new.log, new.dir[order[i]], order[i], kv[order[i]])
                                 /\ ~new.dir[order[i]].tombstone
    BY <2>1
  <2> DEFINE log == after[n].log
             dir == after[n].dir
  <2>7. log = new.log \o Record(k, ValueCells(kv[k])) /\ dir = With(new.dir, k, ptr)
    BY <2>4, <2>5
  <2> HIDE DEF new, k, ptr, log, dir
  <2>8. DOMAIN dir = DOMAIN new.dir \union {k} /\ dir[k] = ptr
        /\ \A j \in DOMAIN new.dir : j # k => dir[j] = new.dir[j]
    BY <2>7 DEF With
  <2>9. Stored(log, ptr, k, kv[k])
    BY <1>4, <2>2, <2>3, <2>4, <2>7, NewRecord
  <2>10. ASSUME NEW i \in 1 .. n
         PROVE  Stored(log, dir[order[i]], order[i], kv[order[i]]) /\ ~dir[order[i]].tombstone
    <3>1. CASE order[i] = k
      BY <2>4, <2>8, <2>9, <3>1
    <3>2. CASE order[i] # k
      <4>1. i \in 1 .. n - 1
        BY <2>1, <3>2 DEF k
      <4>2. i \in 1 .. N /\ order[i] \in live /\ order[i] \in Key /\ order[i] \in DOMAIN new.dir
        <5>1. i \in 1 .. N
          BY <1>3
        <5>2. order[i] \in live
          BY <1>3, <5>1
        <5> QED
          BY <1>4, <2>6, <4>1, <5>1, <5>2
      <4>3. new.dir[order[i]] \in RecordPointer
        BY <2>3, <4>2, PartlyFacts
      <4>4. Record(k, ValueCells(kv[k])) \in Seq(Cell)
        BY <1>4, <2>2
      <4>5. Stored(log, new.dir[order[i]], order[i], kv[order[i]])
        BY <2>3, <2>6, <2>7, <4>1, <4>2, <4>3, <4>4, Logged
      <4> QED
        BY <2>6, <2>8, <3>2, <4>1, <4>2, <4>5
    <3> QED
      BY <3>1, <3>2
  <2>11. DOMAIN dir = {order[i] : i \in 1 .. n}
    <3>1. \A i \in 1 .. n : i = n \/ i \in 1 .. n - 1
      BY <2>1
    <3>2. \A i \in 1 .. n - 1 : i \in 1 .. n
      BY <2>1
    <3>3. n \in 1 .. n
      BY <2>1
    <3>4. {order[i] : i \in 1 .. n} = {order[i] : i \in 1 .. n - 1} \union {order[n]}
      BY <3>1, <3>2, <3>3
    <3> QED
      BY <2>6, <2>8, <3>4 DEF k
  <2>12. Fills(n)
    <3>1. /\ IsFiniteSet(Spans(kv, Copied(n - 1)))
          /\ Len(new.log) = Cardinality(Spans(kv, Copied(n - 1)))
      BY <2>1 DEF Fills, new
    <3>2. Copied(n) = Copied(n - 1) \union {k}
      <4>1. \A i \in 1 .. n : i = n \/ i \in 1 .. n - 1
        BY <2>1
      <4>2. n \in 1 .. n /\ \A i \in 1 .. n - 1 : i \in 1 .. n
        BY <2>1
      <4> QED
        BY <4>1, <4>2 DEF k
    <3>3. Copied(n - 1) \in SUBSET Key
      <4>1. \A i \in 1 .. n - 1 : i \in 1 .. N
        BY <1>3, <2>1
      <4> QED
        BY <1>3, <1>4, <4>1
    <3>4. k \notin Copied(n - 1)
      <4>1. \A i \in 1 .. n - 1 : i \in 1 .. N /\ i # n
        BY <1>3, <2>1
      <4> QED
        BY <1>3, <4>1 DEF k
    <3> HIDE DEF Copied
    <3>5. kv[k] \in Value
      BY <1>4, <2>2
    <3>6. /\ IsFiniteSet(Spans(kv, Copied(n - 1) \union {k}))
          /\ Cardinality(Spans(kv, Copied(n - 1) \union {k})) =
                Cardinality(Spans(kv, Copied(n - 1))) + RecordLen(kv, k)
      BY <2>2, <3>1, <3>3, <3>4, <3>5, SpansMore
    <3>7. Len(log) = Len(new.log) + RecordLen(kv, k)
      <4>1. Record(k, ValueCells(kv[k])) \in Seq(Cell)
            /\ Len(Record(k, ValueCells(kv[k]))) = RecordLen(kv, k)
        <5>1. ValueCells(kv[k]) \in Seq(Cell) /\ Len(ValueCells(kv[k])) = ValLen[kv[k]]
          BY <2>2, <3>5, CellsFacts
        <5>2. /\ Record(k, ValueCells(kv[k])) \in Seq(Cell)
              /\ Len(Record(k, ValueCells(kv[k]))) = 1 + KeyLen[k] + Len(ValueCells(kv[k]))
          BY ONLY <2>2, <5>1, RecordFacts
        <5> QED
          BY ONLY <5>1, <5>2 DEF RecordLen
      <4> QED
        BY <2>3, <2>7, <4>1, Logged
    <3> QED
      BY <3>1, <3>2, <3>6, <3>7 DEF Fills, log
  <2>13. Good(n)
    <3> HIDE DEF S
    <3> QED
      BY <2>4, <2>5, <2>10, <2>11, <2>12 DEF log, dir
  <2> QED
    BY <2>1, <2>13
<1>14. Good(N)
  <2> HIDE DEF Good
  <2>1. good \subseteq 0 .. N
    OBVIOUS
  <2>2. 0 .. N \subseteq good
    <3> HIDE DEF good
    <3> QED
      BY <1>3, <1>12, <1>13, UpTo
  <2> QED
    BY <1>3, <2>2
<1>15. diskLog' = after[N].log /\ keydir' = after[N].dir /\ kv' = kv
  BY <1>11 DEF MergeAndCompact
<1>16. diskLog' \in Seq(Cell) /\ keydir' \in Partly(Key, RecordPointer)
  BY <1>14, <1>15
<1>17. {order[i] : i \in 1 .. N} = live
  BY <1>3
<1>18. DOMAIN keydir' = live /\ \A k \in live : /\ Stored(diskLog', keydir'[k], k, kv[k])
                                                /\ ~keydir'[k].tombstone
  <2>1. DOMAIN keydir' = live
    BY <1>14, <1>15, <1>17
  <2>2. ASSUME NEW k \in live
        PROVE  Stored(diskLog', keydir'[k], k, kv[k]) /\ ~keydir'[k].tombstone
    <3>1. PICK i \in 1 .. N : order[i] = k
      BY <1>3
    <3> QED
      BY <1>14, <1>15, <3>1
  <2> QED
    BY <2>1, <2>2
<1>19. ASSUME NEW j \in Key
       PROVE  IF Live(j)' THEN Stored(diskLog', keydir'[j], j, kv'[j]) ELSE kv'[j] = NoValue
  <2>1. Live(j)' <=> j \in live
    BY <1>18 DEF Live
  <2>2. j \notin live => kv[j] = NoValue
    BY <1>1 DEF live
  <2> QED
    BY <1>15, <1>18, <2>1, <2>2
<1>20. Len(diskLog') = Cardinality(Spans(kv, Kept(kv)))
  <2>1. Kept(kv) = live
    <3>1. \A k \in live : k \in Key /\ kv[k] # NoValue
      BY <1>4, NoValueApart
    <3>2. \A k \in Key : k \notin live => kv[k] = NoValue
      BY <1>1 DEF live
    <3> QED
      BY <3>1, <3>2 DEF Kept
  <2> QED
    BY <1>14, <1>15, <1>17, <2>1 DEF Fills
<1>21. \A k \in DOMAIN keydir' : k \in Key /\ Live(k)'
  BY <1>4, <1>18 DEF Live
<1> QED
  BY <1>1, <1>2, <1>15, <1>16, <1>18, <1>19, <1>20, <1>21 DEF BCInv

\* A merge leaves the cells of the live records, which are not more than before.
LEMMA MergeRoom ==
    ASSUME BCInv, BCRoom, NEW order \in SetToSeqs({k \in Key : Live(k)}), MergeAndCompact(order)
    PROVE  BCRoom'
<1>1. /\ BCInv' /\ Len(diskLog') = Cardinality(Spans(kv, Kept(kv))) /\ kv' = kv
      /\ \A k \in DOMAIN keydir' : k \in Key /\ Live(k)'
  BY MergeStep DEF MergeAndCompact
<1>2. diskLog \in Seq(Cell) /\ diskLog' \in Seq(Cell)
  BY <1>1 DEF BCInv
<1>3. /\ IsFiniteSet(Spans(kv, Kept(kv))) /\ Cardinality(Spans(kv, Kept(kv))) <= Len(diskLog)
      /\ Len(diskLog) <= MaxLog
  BY DEF BCRoom
<1>4. Len(diskLog') <= MaxLog
  BY <1>1, <1>2, <1>3, BCSizes
<1>5. ASSUME NEW k \in DOMAIN keydir'  PROVE keydir'[k].offset <= Len(diskLog')
  <2>1. k \in Key /\ Stored(diskLog', keydir'[k], k, kv'[k])
    BY <1>1, <1>5 DEF BCInv
  <2>2. kv'[k] \in Value /\ keydir'[k].offset + 1 + KeyLen[k] + ValLen[kv'[k]] <= Len(diskLog')
    BY <2>1 DEF Stored
  <2>3. keydir'[k].offset \in Nat
    <3>1. keydir' \in Partly(Key, RecordPointer)
      BY <1>1 DEF BCInv
    <3>2. keydir'[k] \in RecordPointer
      BY ONLY <3>1, k \in DOMAIN keydir', PartlyFacts
    <3> QED
      BY <3>2 DEF RecordPointer
  <2>4. KeyLen[k] \in Nat /\ ValLen[kv'[k]] \in Nat /\ Len(diskLog') \in Nat
    BY <1>2, <2>1, <2>2, CellsFacts
  <2> QED
    BY <2>2, <2>3, <2>4
<1> QED
  BY <1>1, <1>2, <1>3, <1>4, <1>5 DEF BCRoom

LEMMA BCInvStep == BCInv /\ [BCNext]_bcVars => BCInv'
<1> SUFFICES ASSUME BCInv, [BCNext]_bcVars  PROVE BCInv'
  OBVIOUS
<1>1. CASE UNCHANGED bcVars
  BY <1>1 DEF bcVars, BCInv, Live
<1> QED
  BY <1>1, BCPutStep, BCDelStep, MergeStep DEF BCNext

LEMMA BCRoomStep == BCInv /\ BCRoom /\ [BCNext]_bcVars => BCRoom'
<1> SUFFICES ASSUME BCInv, BCRoom, [BCNext]_bcVars  PROVE BCRoom'
  OBVIOUS
<1>1. CASE UNCHANGED bcVars
  BY <1>1 DEF bcVars, BCRoom
<1> QED
  BY <1>1, BCPutRoom, BCDelRoom, MergeRoom DEF BCNext

LEMMA BCRoomInit == AMInit /\ BCInit => BCRoom
<1> SUFFICES ASSUME AMInit, BCInit  PROVE BCRoom
  OBVIOUS
<1>1. keydir = NoPointers /\ diskLog = << >> /\ kv = [k \in Key |-> NoValue]
  BY DEF AMInit, BCInit
<1>2. Kept(kv) = {} /\ Spans(kv, Kept(kv)) = {}
  BY <1>1 DEF Kept, Spans
<1>3. Len(diskLog) = 0 /\ MaxLog \in Nat
  BY <1>1, BCSizes
<1> QED
  BY <1>1, <1>2, <1>3, NoPointersFacts, FS_EmptySet DEF BCRoom

LEMMA BCTyped == BCInv /\ BCRoom => BCTypeOK
<1> SUFFICES ASSUME BCInv, BCRoom  PROVE BCTypeOK
  OBVIOUS
<1>1. diskLog \in Seq(Cell) /\ keydir \in Partly(Key, RecordPointer) /\ Len(diskLog) <= MaxLog
  BY DEF BCInv, BCRoom
<1>2. DOMAIN keydir \subseteq Key
  BY <1>1, PartlyFacts
<1>3. ASSUME NEW k \in DOMAIN keydir  PROVE keydir[k] \in Pointer
  <2>1. keydir[k] \in RecordPointer /\ keydir[k].offset <= Len(diskLog)
    BY <1>1, PartlyFacts DEF BCRoom
  <2>2. keydir[k].offset \in 0 .. MaxLog
    BY <1>1, <2>1, BCSizes DEF RecordPointer
  <2> QED
    BY <2>1, <2>2 DEF RecordPointer, Pointer
<1> QED
  BY <1>1, <1>2, <1>3 DEF BCTypeOK

LEMMA BCInvSound == BCInv => BCAnswers
<1> SUFFICES ASSUME BCInv, NEW k \in Key
             PROVE  IF Live(k) THEN /\ kv[k] # NoValue
                                    /\ ReadAt(diskLog, keydir[k]) = ValueCells(kv[k])
                    ELSE kv[k] = NoValue
  BY DEF BCAnswers
<1>1. CASE Live(k)
  <2>1. Stored(diskLog, keydir[k], k, kv[k]) /\ diskLog \in Seq(Cell)
    BY <1>1 DEF BCInv
  <2>2. keydir[k] \in RecordPointer
    BY <1>1, PartlyFacts DEF BCInv, Live
  <2>3. ReadAt(diskLog, keydir[k]) = ValueCells(kv[k]) /\ kv[k] \in Value
    BY <2>1, <2>2, StoredReads
  <2> QED
    BY <1>1, <2>3, NoValueApart
<1>2. CASE ~Live(k)
  BY <1>2 DEF BCInv
<1> QED
  BY <1>1, <1>2

\* What get() reads at the place the directory gives is the last value put, for
\* any lengths of keys and values, deletions and orders of compaction, and every
\* pointer stays within the log, which no merge makes longer.
THEOREM BCCorrect == BCSpec => [](BCTypeOK /\ BCAnswers)
<1>1. AMInit /\ BCInit => BCInv /\ BCRoom
  BY BCInvInit, BCRoomInit
<1>2. BCInv /\ BCRoom /\ [BCNext]_bcVars => (BCInv /\ BCRoom)'
  BY BCInvStep, BCRoomStep
<1>3. BCInv /\ BCRoom => BCTypeOK /\ BCAnswers
  BY BCInvSound, BCTyped
<1> QED
  BY <1>1, <1>2, <1>3, PTL DEF BCSpec
-----------------------------------------------------------------------------
(* Ranks, divisions and finite sets *)

\* The quotient of a division, as the multiples of the divisor bound it.
LEMMA Quotient ==
    ASSUME NEW a \in Nat, NEW b \in Nat \ {0}
    PROVE  /\ a \div b \in Nat /\ (a \div b) * b \in Nat
           /\ (a \div b) * b <= a /\ a < (a \div b) * b + b
OBVIOUS

LEMMA Multiples ==
    ASSUME NEW b \in Nat \ {0}, NEW p \in Nat, NEW q \in Nat, p <= q
    PROVE  p * b \in Nat /\ q * b \in Nat /\ p * b <= q * b
OBVIOUS

\* A quotient is at least what times the divisor is not too much.
LEMMA QuotientAtLeast ==
    ASSUME NEW a \in Nat, NEW b \in Nat \ {0}, NEW q \in Nat, q * b <= a
    PROVE  q <= a \div b
<1> DEFINE p == a \div b
<1>1. p \in Nat /\ p * b \in Nat /\ a < p * b + b
  BY Quotient
<1> HIDE DEF p
<1>2. SUFFICES ASSUME p + 1 <= q  PROVE FALSE
  BY <1>1 DEF p
<1>3. (p + 1) * b <= q * b
  BY <1>1, <1>2, Multiples
<1>4. (p + 1) * b = p * b + b
  BY <1>1
<1>5. q * b \in Nat
  BY Multiples
<1> QED
  BY <1>1, <1>3, <1>4, <1>5

LEMMA QuotientIs ==
    ASSUME NEW a \in Nat, NEW b \in Nat \ {0}, NEW q \in Nat, q * b <= a, a < q * b + b
    PROVE  a \div b = q
<1> DEFINE p == a \div b
<1>1. p \in Nat /\ p * b \in Nat /\ p * b <= a /\ q <= p
  BY Quotient, QuotientAtLeast
<1> HIDE DEF p
<1>2. SUFFICES ASSUME q + 1 <= p  PROVE FALSE
  BY <1>1 DEF p
<1>3. (q + 1) * b <= p * b
  BY <1>1, <1>2, Multiples
<1>4. (q + 1) * b = q * b + b
  OBVIOUS
<1>5. q * b \in Nat
  BY Multiples
<1> QED
  BY <1>1, <1>3, <1>4, <1>5

LEMMA RangeFinite ==
    ASSUME NEW f, IsFiniteSet(DOMAIN f)
    PROVE  IsFiniteSet(Range(f))
<1> DEFINE g == [x \in DOMAIN f |-> f[x]]
<1>1. g \in [DOMAIN f -> Range(f)] /\ \A y \in Range(f) : \E x \in DOMAIN f : g[x] = y
  BY DEF Range
<1> HIDE DEF g
<1>2. g \in Surjection(DOMAIN f, Range(f))
  BY <1>1 DEF Surjection
<1> QED
  BY <1>2, FS_Surjection

LEMMA HeldFinite ==
    ASSUME NEW tables, IsFiniteSet(DOMAIN tables),
           \A i \in DOMAIN tables : IsFiniteSet(DOMAIN tables[i])
    PROVE  IsFiniteSet(HeldIn(tables))
<1> DEFINE D == {DOMAIN tables[i] : i \in DOMAIN tables}
           g == [i \in DOMAIN tables |-> DOMAIN tables[i]]
<1>1. g \in [DOMAIN tables -> D] /\ \A y \in D : \E i \in DOMAIN tables : g[i] = y
  OBVIOUS
<1>2. \A d \in D : IsFiniteSet(d)
  OBVIOUS
<1>3. HeldIn(tables) = UNION D
  BY DEF HeldIn
<1> HIDE DEF g, D
<1>4. g \in Surjection(DOMAIN tables, D)
  BY <1>1 DEF Surjection
<1>5. IsFiniteSet(D)
  BY <1>4, FS_Surjection
<1> QED
  BY <1>2, <1>3, <1>5, FS_UNION

\* The rank of a member counts the smaller ones.
LEMMA Ranks ==
    ASSUME NEW S, S \subseteq Nat, IsFiniteSet(S)
    PROVE  /\ Cardinality(S) \in Nat
           /\ \A k \in S : RankIn(S, k) \in 0 .. Cardinality(S) - 1
           /\ \A j, k \in S : j < k <=> RankIn(S, j) < RankIn(S, k)
           /\ \A j, k \in S : RankIn(S, j) = RankIn(S, k) => j = k
           /\ \A r \in 0 .. Cardinality(S) - 1 : \E k \in S : RankIn(S, k) = r
<1> DEFINE n == Cardinality(S)
           Below(k) == {j \in S : j < k}
<1>1. n \in Nat
  BY FS_CardinalityType
<1>2. ASSUME NEW k \in S  PROVE RankIn(S, k) \in 0 .. n - 1 /\ IsFiniteSet(Below(k))
                                /\ RankIn(S, k) = Cardinality(Below(k))
  <2>1. IsFiniteSet(S \ {k}) /\ Cardinality(S \ {k}) = n - 1
    BY FS_RemoveElement
  <2>2. Below(k) \in SUBSET (S \ {k})
    OBVIOUS
  <2> HIDE DEF Below
  <2>3. IsFiniteSet(Below(k)) /\ Cardinality(Below(k)) <= n - 1
    BY <2>1, <2>2, FS_Subset
  <2>4. Cardinality(Below(k)) \in Nat
    BY <2>3, FS_CardinalityType
  <2> QED
    BY <1>1, <2>3, <2>4 DEF RankIn, Below
<1>3. ASSUME NEW j \in S, NEW k \in S, j < k  PROVE RankIn(S, j) < RankIn(S, k)
  <2>1. Below(j) \union {j} \in SUBSET Below(k) /\ j \notin Below(j)
    <3>1. j \in Nat /\ k \in Nat
      OBVIOUS
    <3>2. \A x \in S : x \in Nat /\ (x < j => x < k)
      BY <1>3, <3>1
    <3>3. ~(j < j)
      BY <3>1
    <3> QED
      BY <1>3, <3>2, <3>3
  <2>2. IsFiniteSet(Below(j)) /\ IsFiniteSet(Below(k))
        /\ RankIn(S, j) = Cardinality(Below(j)) /\ RankIn(S, k) = Cardinality(Below(k))
        /\ RankIn(S, j) \in Nat /\ RankIn(S, k) \in Nat
    BY <1>1, <1>2
  <2> HIDE DEF Below
  <2>3. Cardinality(Below(j) \union {j}) = Cardinality(Below(j)) + 1
    BY <2>1, <2>2, FS_AddElement
  <2>4. Cardinality(Below(j) \union {j}) <= Cardinality(Below(k))
    BY <2>1, <2>2, FS_Subset
  <2> QED
    BY <2>2, <2>3, <2>4
<1> HIDE DEF Below
<1>4. ASSUME NEW j \in S, NEW k \in S
      PROVE  /\ j < k <=> RankIn(S, j) < RankIn(S, k)
             /\ RankIn(S, j) = RankIn(S, k) => j = k
  <2>1. j \in Nat /\ k \in Nat /\ RankIn(S, j) \in Nat /\ RankIn(S, k) \in Nat
    BY <1>1, <1>2
  <2>2. j < k => RankIn(S, j) < RankIn(S, k)
    BY <1>3
  <2>3. k < j => RankIn(S, k) < RankIn(S, j)
    BY <1>3
  <2>4. j = k => RankIn(S, j) = RankIn(S, k)
    OBVIOUS
  <2>5. j < k \/ k < j \/ j = k
    BY <2>1
  <2> QED
    BY <2>1, <2>2, <2>3, <2>4, <2>5
<1> DEFINE rank == [k \in S |-> RankIn(S, k)]
           R == 0 .. n - 1
<1>5. rank \in [S -> R] /\ \A j, k \in S : rank[j] = rank[k] => j = k
  BY <1>2, <1>4
<1>6. \A k \in S : rank[k] = RankIn(S, k)
  OBVIOUS
<1>7. IsFiniteSet(R) /\ Cardinality(R) = n
  <2>1. n - 1 \in Int /\ 0 \in Int
    BY <1>1
  <2>2. IsFiniteSet(R) /\ Cardinality(R) = IF 0 > n - 1 THEN 0 ELSE n - 1 - 0 + 1
    BY <2>1, FS_Interval
  <2>3. (IF 0 > n - 1 THEN 0 ELSE n - 1 - 0 + 1) = n
    BY <1>1
  <2> QED
    BY <2>2, <2>3
<1> HIDE DEF rank, R
<1>8. rank \in Injection(S, R)
  BY <1>5 DEF Injection, IsInjective
<1>9. rank \in Surjection(S, R)
  BY <1>7, <1>8, FS_Injection
<1>10. \A r \in R : \E k \in S : rank[k] = r
  BY <1>9 DEF Surjection
<1>11. \A r \in 0 .. n - 1 : \E k \in S : RankIn(S, k) = r
  BY <1>6, <1>10 DEF R
<1> QED
  BY <1>1, <1>2, <1>4, <1>11

\* A finite set of naturals as an increasing sequence.
LEMMA InOrderFacts ==
    ASSUME NEW S, S \subseteq Nat, IsFiniteSet(S)
    PROVE  /\ Cardinality(S) \in Nat
           /\ InOrder(S) \in [1 .. Cardinality(S) -> S]
           /\ InOrder(S) \in Seq(S) /\ Len(InOrder(S)) = Cardinality(S)
           /\ \A k \in S : \E i \in 1 .. Cardinality(S) : InOrder(S)[i] = k
           /\ \A i, j \in 1 .. Cardinality(S) : i < j <=> InOrder(S)[i] < InOrder(S)[j]
<1> DEFINE n == Cardinality(S)
           s == InOrder(S)
<1>1. n \in Nat
  BY Ranks
<1>2. ASSUME NEW i \in 1 .. n  PROVE s[i] \in S /\ RankIn(S, s[i]) = i - 1
  <2>1. i - 1 \in 0 .. n - 1
    BY <1>1
  <2>2. \E k \in S : RankIn(S, k) = i - 1
    BY <2>1, Ranks
  <2> QED
    BY <2>2 DEF InOrder
<1>3. s = [i \in 1 .. n |-> s[i]]
  BY DEF InOrder
<1> HIDE DEF s
<1>4. s \in [1 .. n -> S]
  BY <1>2, <1>3
<1>5. s \in Seq(S) /\ Len(s) = n
  BY <1>1, <1>4
<1>6. ASSUME NEW k \in S  PROVE \E i \in 1 .. n : s[i] = k
  <2>1. RankIn(S, k) \in 0 .. n - 1
    BY Ranks
  <2> DEFINE i == RankIn(S, k) + 1
  <2>2. i \in 1 .. n /\ i - 1 = RankIn(S, k)
    BY <1>1, <2>1
  <2> HIDE DEF i
  <2>3. s[i] \in S /\ RankIn(S, s[i]) = RankIn(S, k)
    BY <1>2, <2>2
  <2>4. s[i] = k
    BY <2>3, Ranks
  <2> QED
    BY <2>2, <2>4
<1>7. ASSUME NEW i \in 1 .. n, NEW j \in 1 .. n  PROVE i < j <=> s[i] < s[j]
  <2>1. /\ s[i] \in S /\ s[j] \in S /\ RankIn(S, s[i]) = i - 1 /\ RankIn(S, s[j]) = j - 1
    BY <1>2
  <2> DEFINE x == s[i]
             y == s[j]
  <2> HIDE DEF x, y
  <2>2. x < y <=> RankIn(S, x) < RankIn(S, y)
    BY <2>1, Ranks DEF x, y
  <2>3. i - 1 < j - 1 <=> i < j
    BY <1>1
  <2> QED
    BY <2>1, <2>2, <2>3 DEF x, y
<1> QED
  BY <1>1, <1>4, <1>5, <1>6, <1>7 DEF s
-----------------------------------------------------------------------------
(* Proof: what a search of the LSM tree finds *)

Run == {t \in Partly(Key, Entry) : DOMAIN t # {} /\ IsFiniteSet(DOMAIN t)}

LEMMA RunFacts ==
    ASSUME NEW t \in Run
    PROVE  /\ DOMAIN t \subseteq Key /\ DOMAIN t \subseteq Nat /\ DOMAIN t # {}
           /\ IsFiniteSet(DOMAIN t)
           /\ \A k \in DOMAIN t : t[k] \in Entry /\ t[k] # Absent
           /\ MinKey(t) \in DOMAIN t /\ MaxKey(t) \in DOMAIN t
           /\ \A k \in DOMAIN t : MinKey(t) <= k /\ k <= MaxKey(t)
<1>1. t \in Partly(Key, Entry) /\ DOMAIN t # {} /\ IsFiniteSet(DOMAIN t)
  BY DEF Run
<1>2. DOMAIN t \subseteq Key /\ \A k \in DOMAIN t : t[k] \in Entry
  BY <1>1, PartlyFacts
<1>3. DOMAIN t \subseteq Nat
  BY <1>2, LSMSizes
<1>4. Absent \notin Entry
  BY LSMSizes DEF Entry
<1>5. MinKey(t) \in DOMAIN t /\ \A k \in DOMAIN t : MinKey(t) <= k
  BY <1>1, <1>3, LeastOf DEF MinKey
<1>6. MaxKey(t) \in DOMAIN t /\ \A k \in DOMAIN t : k <= MaxKey(t)
  BY <1>1, <1>3, GreatestOf DEF MaxKey
<1> QED
  BY <1>1, <1>2, <1>3, <1>4, <1>5, <1>6

\* The rounds of the search for a block, of a run of B + 1 blocks.
IsBlockSearch(f, B, sparse, key) ==
    f = [n \in 0 .. B + 1 |-> IF n = 0 THEN [low |-> 0, high |-> B, block |-> 0]
                             ELSE BlockRound(sparse, key, f[n - 1])]

\* The binary search of a sparse index ends at the last block that may hold the
\* key.  "at" is where a block starts.
LEMMA BlockSearch ==
    ASSUME NEW B \in Nat, NEW sparse \in [0 .. B -> Nat], NEW key \in Nat,
           \A b \in 0 .. B : \A c \in 0 .. B : b < c => sparse[b] < sparse[c],
           sparse[0] <= key
    PROVE  /\ \E f : IsBlockSearch(f, B, sparse, key)
           /\ \A f : IsBlockSearch(f, B, sparse, key) =>
                 LET block == f[B + 1].block
                 IN  /\ block \in 0 .. B /\ sparse[block] <= key
                     /\ block < B => key < sparse[block + 1]
<1> DEFINE St == [low : Int, high : Int, block : Int]
           start == [low |-> 0, high |-> B, block |-> 0]
           Search(f) == f = [n \in 0 .. B + 1 |->
                               IF n = 0 THEN start ELSE BlockRound(sparse, key, f[n - 1])]
<1>1. start \in St /\ start.low = 0 /\ start.high = B /\ start.block = 0
  OBVIOUS
<1>2. ASSUME NEW s \in St  PROVE BlockRound(sparse, key, s) \in St
  <2> DEFINE half == (s.high - s.low) \div 2
  <2>1. s.low \in Int /\ s.high \in Int /\ s.block \in Int /\ half \in Int
    OBVIOUS
  <2> DEFINE mid == s.low + half
  <2>2. mid \in Int /\ mid + 1 \in Int /\ mid - 1 \in Int
    BY SMTT(40), <2>1
  <2>3. BlockRound(sparse, key, s) =
          IF s.low > s.high THEN s
          ELSE IF sparse[mid] <= key THEN [low |-> mid + 1, high |-> s.high, block |-> mid]
          ELSE [low |-> s.low, high |-> mid - 1, block |-> s.block]
    BY DEF BlockRound
  <2> HIDE DEF mid
  <2> QED
    BY <2>1, <2>2, <2>3
<1>3. \E f : Search(f)
  <2> DEFINE step == [x \in (1 .. B + 1) \X St |-> BlockRound(sparse, key, x[2])]
  <2>1. step \in [(1 .. B + 1) \X St -> St]
    <3>1. \A x \in (1 .. B + 1) \X St : x[2] \in St
      OBVIOUS
    <3> HIDE DEF St
    <3> QED
      BY <1>2, <3>1
  <2>2. ASSUME NEW n \in 1 .. B + 1, NEW s \in St  PROVE step[<<n, s>>] = BlockRound(sparse, key, s)
    <3> HIDE DEF St
    <3> QED
      OBVIOUS
  <2> HIDE DEF step, start, St
  <2>3. B + 1 \in Nat
    OBVIOUS
  <2>4. PICK f \in [0 .. B + 1 -> St] :
            f[0] = start /\ \A n \in 1 .. B + 1 : f[n] = step[<<n, f[n - 1]>>]
    <3> DEFINE M == B + 1
    <3>1. M \in Nat
      BY <2>3
    <3>2. step \in [(1 .. M) \X St -> St]
      BY <2>1
    <3>3. start \in St
      BY <1>1
    <3> HIDE DEF M
    <3>4. \E f \in [0 .. M -> St] : Repeats(f, start, M, step)
      BY ONLY <3>1, <3>2, <3>3, Rounds
    <3> QED
      BY <3>4 DEF M, Repeats
  <2>5. \A n \in 1 .. B + 1 : n - 1 \in 0 .. B + 1
    OBVIOUS
  <2>6. \A n \in 1 .. B + 1 : f[n] = BlockRound(sparse, key, f[n - 1])
    BY <2>2, <2>4, <2>5
  <2>7. \A n \in 0 .. B + 1 : n = 0 \/ n \in 1 .. B + 1
    OBVIOUS
  <2>8. \A n \in 0 .. B + 1 : f[n] = IF n = 0 THEN start ELSE BlockRound(sparse, key, f[n - 1])
    BY <2>4, <2>6, <2>7
  <2>9. Search(f)
    BY <2>4, <2>8
  <2> QED
    BY <2>9
<1>4. ASSUME NEW f, Search(f)
      PROVE  /\ f[B + 1].block \in 0 .. B /\ sparse[f[B + 1].block] <= key
             /\ f[B + 1].block < B => key < sparse[f[B + 1].block + 1]
  <2>1. f[0] = start /\ \A n \in 1 .. B + 1 : f[n] = BlockRound(sparse, key, f[n - 1])
    <3>1. \A n \in 1 .. B + 1 : n \in 0 .. B + 1 /\ n # 0
      OBVIOUS
    <3>2. 0 \in 0 .. B + 1
      OBVIOUS
    <3> HIDE DEF start
    <3>3. \A n \in 0 .. B + 1 : f[n] = IF n = 0 THEN start ELSE BlockRound(sparse, key, f[n - 1])
      BY <1>4
    <3> QED
      BY <3>1, <3>2, <3>3
  \* What n rounds leave: the entries outside low .. high are compared.
  <2> DEFINE J(s, n) ==
        /\ s \in St /\ s.low \in 0 .. B + 1 /\ s.high \in -1 .. B /\ s.low <= s.high + 1
        /\ s.block \in 0 .. B /\ s.block = (IF s.low = 0 THEN 0 ELSE s.low - 1)
        /\ s.low # 0 => sparse[s.low - 1] <= key
        /\ s.high # B => key < sparse[s.high + 1]
        /\ s.low > s.high \/ s.high - s.low <= B - n
  <2>2. J(f[0], 0)
    BY <1>1, <2>1
  <2>3. ASSUME NEW n \in 1 .. B + 1, J(f[n - 1], n - 1)  PROVE J(f[n], n)
    <3> DEFINE s == f[n - 1]
    <3>1. /\ s \in St /\ s.low \in 0 .. B + 1 /\ s.high \in -1 .. B /\ s.low <= s.high + 1
          /\ s.block \in 0 .. B /\ s.block = (IF s.low = 0 THEN 0 ELSE s.low - 1)
          /\ s.low # 0 => sparse[s.low - 1] <= key
          /\ s.high # B => key < sparse[s.high + 1]
          /\ s.low > s.high \/ s.high - s.low <= B - (n - 1)
      BY <2>3
    <3>2. f[n] = BlockRound(sparse, key, s)
      BY <2>1
    <3> HIDE DEF s
    <3> DEFINE half == (s.high - s.low) \div 2
               mid == s.low + half
    <3>3. CASE s.low > s.high
      <4>1. f[n] = s
        BY <3>2, <3>3 DEF BlockRound
      <4> QED
        BY <3>1, <3>3, <4>1
    <3>4. CASE ~(s.low > s.high)
      <4>1. s.low <= s.high /\ s.high \in 0 .. B /\ s.low \in 0 .. B
        <5>1. \A a \in 0 .. B + 1 : \A b \in -1 .. B :
                 ~(a > b) => a <= b /\ b \in 0 .. B /\ a \in 0 .. B
          OBVIOUS
        <5> QED
          BY ONLY <3>1, <3>4, <5>1
      <4>2. half \in Nat /\ half <= s.high - s.low
        <5>1. \A d \in Nat : d \div 2 \in Nat /\ d \div 2 <= d
          OBVIOUS
        <5>2. s.high - s.low \in Nat
          BY <4>1
        <5> QED
          BY <5>1, <5>2
      <4>3. mid \in 0 .. B /\ s.low <= mid /\ mid <= s.high
        <5> HIDE DEF half
        <5> QED
          BY SMTT(40), <4>1, <4>2
      <4>4. sparse[mid] \in Nat
        BY <4>3
      <4>5. f[n] = IF sparse[mid] <= key THEN [low |-> mid + 1, high |-> s.high, block |-> mid]
                   ELSE [low |-> s.low, high |-> mid - 1, block |-> s.block]
        BY <3>2, <3>4 DEF BlockRound
      <4> HIDE DEF mid
      <4>6. CASE sparse[mid] <= key
        <5> DEFINE r == f[n]
        <5>1. r = [low |-> mid + 1, high |-> s.high, block |-> mid]
          BY <4>5, <4>6
        <5>2. r \in St /\ r.low = mid + 1 /\ r.high = s.high /\ r.block = mid
          BY <3>1, <4>3, <5>1
        <5> HIDE DEF r
        <5>3. r.low - 1 = mid /\ r.low # 0 /\ r.low \in 0 .. B + 1
          BY <4>3, <5>2
        <5>4. r.low > r.high \/ r.high - r.low <= B - n
          <6>1. s.high - s.low <= B - (n - 1)
            BY <3>1, <3>4
          <6>2. s.high - (mid + 1) <= B - n
            BY SMTT(40), <4>1, <4>3, <6>1
          <6> QED
            BY <5>2, <6>2
        <5>5. r.low <= r.high + 1
          BY <4>1, <4>3, <5>2
        <5>6. J(r, n)
          BY <3>1, <4>3, <4>6, <5>2, <5>3, <5>4, <5>5
        <5> QED
          BY <5>6 DEF r
      <4>7. CASE ~(sparse[mid] <= key)
        <5> DEFINE r == f[n]
        <5>1. r = [low |-> s.low, high |-> mid - 1, block |-> s.block]
          BY <4>5, <4>7
        <5>2. r \in St /\ r.low = s.low /\ r.high = mid - 1 /\ r.block = s.block
          BY <3>1, <4>3, <5>1
        <5> HIDE DEF r
        <5>3. r.high + 1 = mid /\ r.high \in -1 .. B
          BY <4>3, <5>2
        <5>4. key < sparse[mid]
          BY <4>4, <4>7
        <5>5. r.low > r.high \/ r.high - r.low <= B - n
          <6>1. s.high - s.low <= B - (n - 1)
            BY <3>1, <3>4
          <6>2. r.high - r.low = mid - 1 - s.low
            BY <5>2
          <6> HIDE DEF half
          <6>3. \A h, l, m \in 0 .. B : m <= h /\ h - l <= B - (n - 1) => m - 1 - l <= B - n
            OBVIOUS
          <6> QED
            BY <4>1, <4>3, <6>1, <6>2, <6>3
        <5>6. r.low <= r.high + 1
          BY <4>1, <4>3, <5>2
        <5>7. J(r, n)
          BY <3>1, <4>3, <5>2, <5>3, <5>4, <5>5, <5>6
        <5> QED
          BY <5>7 DEF r
      <4> QED
        BY <4>6, <4>7
    <3> QED
      BY <3>3, <3>4
  <2>4. J(f[B + 1], B + 1)
    <3> DEFINE good == {n \in 0 .. B + 1 : J(f[n], n)}
    <3>1. 0 \in good
      BY <2>2
    <3>2. ASSUME NEW n \in 1 .. B + 1, n - 1 \in good  PROVE n \in good
      <4>1. J(f[n - 1], n - 1)
        BY <3>2
      <4>2. n \in 0 .. B + 1
        OBVIOUS
      <4> HIDE DEF J
      <4> QED
        BY <2>3, <4>1, <4>2
    <3>3. B + 1 \in Nat /\ B + 1 \in 0 .. B + 1
      OBVIOUS
    <3>4. 0 .. B + 1 \subseteq good
      <4> HIDE DEF good
      <4> QED
        BY ONLY <3>1, <3>2, <3>3, UpTo
    <3> HIDE DEF J
    <3> QED
      BY <3>3, <3>4
  <2> DEFINE s == f[B + 1]
  <2>5. /\ s \in St /\ s.low \in 0 .. B + 1 /\ s.high \in -1 .. B /\ s.low <= s.high + 1
        /\ s.block \in 0 .. B /\ s.block = (IF s.low = 0 THEN 0 ELSE s.low - 1)
        /\ s.low # 0 => sparse[s.low - 1] <= key
        /\ s.high # B => key < sparse[s.high + 1]
        /\ s.low > s.high \/ s.high - s.low <= B - (B + 1)
    BY <2>4
  <2> HIDE DEF s
  <2>6. s.low = s.high + 1
    BY SMTT(40), <2>5
  <2>7. s.low # 0
    <3> SUFFICES ASSUME s.low = 0  PROVE FALSE
      OBVIOUS
    <3>1. s.high = -1 /\ s.high # B /\ s.high + 1 = 0
      BY <2>5, <2>6
    <3>2. key < sparse[0]
      BY <2>5, <3>1
    <3>3. sparse[0] \in Nat
      OBVIOUS
    <3> QED
      BY <3>2, <3>3
  <2>8. s.block = s.low - 1 /\ s.block = s.high /\ sparse[s.block] <= key
    BY <2>5, <2>6, <2>7
  <2>9. s.block < B => key < sparse[s.block + 1]
    BY SMTT(40), <2>5, <2>8
  <2> QED
    BY <2>5, <2>8, <2>9 DEF s
<1> QED
  BY <1>3, <1>4 DEF IsBlockSearch

\* SSTable::get finds what the run holds: the block the search ends at is the only
\* one the key can be in.
LEMMA TableGetIs ==
    ASSUME NEW t \in Run, NEW key \in Nat
    PROVE  TableGet(t, key) = IF key \in DOMAIN t THEN t[key] ELSE Absent
<1> DEFINE keys   == InOrder(DOMAIN t)
           blocks == (Len(keys) - 1) \div IndexInterval
           sparse == [b \in 0 .. blocks |-> keys[b * IndexInterval + 1]]
           Search(f) == IsBlockSearch(f, blocks, sparse, key)
           search == CHOOSE f : Search(f)
           block  == search[blocks + 1].block
           last   == IF block < blocks THEN (block + 1) * IndexInterval ELSE Len(keys)
           n      == Len(keys)
<1>1. TableGet(t, key) =
        IF /\ MinKey(t) <= key /\ key <= MaxKey(t)
           /\ \E i \in block * IndexInterval + 1 .. last : keys[i] = key
        THEN t[key] ELSE Absent
  BY DEF TableGet, IsBlockSearch
<1>2. /\ DOMAIN t \subseteq Nat /\ DOMAIN t # {} /\ IsFiniteSet(DOMAIN t)
      /\ MinKey(t) \in DOMAIN t /\ MaxKey(t) \in DOMAIN t
      /\ \A k \in DOMAIN t : MinKey(t) <= k /\ k <= MaxKey(t)
  BY RunFacts
<1>3. /\ n \in Nat /\ keys \in [1 .. n -> DOMAIN t]
      /\ \A k \in DOMAIN t : \E i \in 1 .. n : keys[i] = k
      /\ \A i, j \in 1 .. n : i < j <=> keys[i] < keys[j]
  BY <1>2, InOrderFacts
<1> HIDE DEF keys
<1>4. n # 0
  BY <1>2, <1>3
<1> HIDE DEF n
<1>5. n - 1 \in Nat /\ IndexInterval \in Nat \ {0}
  BY <1>3, <1>4, LSMSizes
<1>6. blocks \in Nat /\ blocks * IndexInterval \in Nat /\ blocks * IndexInterval <= n - 1
  BY <1>5, Quotient DEF n
<1> HIDE DEF blocks
\* Where a block starts.
<1>7. ASSUME NEW b \in 0 .. blocks
      PROVE  /\ b * IndexInterval \in Nat /\ b * IndexInterval + 1 \in 1 .. n
             /\ (b + 1) * IndexInterval = b * IndexInterval + IndexInterval
             /\ b < blocks => (b + 1) * IndexInterval + 1 \in 1 .. n
             /\ sparse[b] = keys[b * IndexInterval + 1]
             /\ sparse[b] \in DOMAIN t
  <2>1. b \in Nat /\ b <= blocks
    BY <1>6
  <2>2. b * IndexInterval \in Nat /\ b * IndexInterval <= blocks * IndexInterval
    BY <1>5, <1>6, <2>1, Multiples
  <2>3. (b + 1) * IndexInterval = b * IndexInterval + IndexInterval
    BY <1>5, <2>1
  <2>4. b < blocks => /\ (b + 1) * IndexInterval \in Nat
                      /\ (b + 1) * IndexInterval <= blocks * IndexInterval
    <3>1. b < blocks => b + 1 \in Nat /\ b + 1 <= blocks
      BY <1>6, <2>1
    <3> QED
      BY <1>5, <1>6, <3>1, Multiples
  <2>5. b * IndexInterval + 1 \in 1 .. n
    BY <1>3, <1>5, <1>6, <2>2
  <2>6. b < blocks => (b + 1) * IndexInterval + 1 \in 1 .. n
    BY <1>3, <1>5, <1>6, <2>4
  <2>7. sparse[b] = keys[b * IndexInterval + 1]
    OBVIOUS
  <2> QED
    BY <1>3, <2>2, <2>3, <2>5, <2>6, <2>7
<1>8. sparse \in [0 .. blocks -> Nat]
  BY <1>2, <1>7
<1>9. \A b \in 0 .. blocks : \A c \in 0 .. blocks : b < c => sparse[b] < sparse[c]
  <2> SUFFICES ASSUME NEW b \in 0 .. blocks, NEW c \in 0 .. blocks, b < c
               PROVE  sparse[b] < sparse[c]
    OBVIOUS
  <2> DEFINE x == b * IndexInterval + 1
             y == c * IndexInterval + 1
  <2>1. b + 1 \in Nat /\ c \in Nat /\ b + 1 <= c
    BY <1>6
  <2>2. (b + 1) * IndexInterval <= c * IndexInterval
    BY <1>5, <2>1, Multiples
  <2>3. /\ b * IndexInterval \in Nat /\ (b + 1) * IndexInterval = b * IndexInterval + IndexInterval
        /\ c * IndexInterval \in Nat /\ x \in 1 .. n /\ y \in 1 .. n
        /\ sparse[b] = keys[x] /\ sparse[c] = keys[y]
    BY <1>7
  <2>4. x < y
    BY <1>5, <2>2, <2>3
  <2> HIDE DEF x, y, sparse
  <2> QED
    BY <1>3, <2>3, <2>4
<1>10. CASE ~(MinKey(t) <= key /\ key <= MaxKey(t))
  BY <1>1, <1>2, <1>10
<1>11. CASE MinKey(t) <= key /\ key <= MaxKey(t)
  <2>1. sparse[0] <= key
    <3>1. 0 \in 0 .. blocks /\ 0 * IndexInterval + 1 = 1
      BY <1>5, <1>6
    <3>2. sparse[0] = keys[1] /\ 1 \in 1 .. n
      BY <1>7, <3>1
    <3>3. PICK i \in 1 .. n : keys[i] = MinKey(t)
      BY <1>2, <1>3
    <3>4. ~(keys[i] < keys[1]) => keys[1] = keys[i] \/ keys[1] < keys[i]
      BY <1>2, <1>3, <3>2
    <3>5. ~(i < 1)
      OBVIOUS
    <3>6. ~(keys[i] < keys[1])
      BY <1>3, <3>2, <3>5
    <3>7. keys[1] \in DOMAIN t /\ MinKey(t) <= keys[1]
      BY <1>2, <1>3, <3>2
    <3>8. keys[1] = MinKey(t)
      BY <1>2, <3>3, <3>6, <3>7
    <3> QED
      BY <1>11, <3>2, <3>8
  <2> HIDE DEF sparse
  <2>2. /\ \E f : Search(f)
        /\ \A f : Search(f) => /\ f[blocks + 1].block \in 0 .. blocks
                               /\ sparse[f[blocks + 1].block] <= key
                               /\ f[blocks + 1].block < blocks => key < sparse[f[blocks + 1].block + 1]
    BY <1>6, <1>8, <1>9, <2>1, BlockSearch
  <2>3. Search(search)
    BY <2>2
  <2>4. /\ block \in 0 .. blocks /\ sparse[block] <= key
        /\ block < blocks => key < sparse[block + 1]
    <3> HIDE DEF search, Search
    <3> QED
      BY <2>2, <2>3
  <2> HIDE DEF block
  <2> DEFINE from == block * IndexInterval + 1
  <2>5. from \in 1 .. n /\ sparse[block] = keys[from]
    BY <1>7, <2>4
  <2>6. last \in 1 .. n /\ (block < blocks => last + 1 \in 1 .. n /\ sparse[block + 1] = keys[last + 1])
    <3>1. CASE block < blocks
      <4>1. block + 1 \in 0 .. blocks
        BY <1>6, <2>4, <3>1
      <4>2. last = (block + 1) * IndexInterval /\ last = block * IndexInterval + IndexInterval
        BY <1>7, <2>4, <3>1
      <4>3. last + 1 \in 1 .. n /\ sparse[block + 1] = keys[last + 1]
        BY <1>7, <2>4, <3>1, <4>1, <4>2
      <4>4. block * IndexInterval \in Nat
        BY <1>7, <2>4
      <4>5. last \in 1 .. n
        BY <1>3, <1>5, <4>2, <4>3, <4>4
      <4> QED
        BY <4>3, <4>5
    <3>2. CASE ~(block < blocks)
      BY <1>3, <1>5, <3>2 DEF n
    <3> QED
      BY <3>1, <3>2
  <2> HIDE DEF from
  <2>7. TableGet(t, key) = IF \E i \in from .. last : keys[i] = key THEN t[key] ELSE Absent
    BY <1>1, <1>11 DEF from
  <2>8. ASSUME NEW i \in from .. last, keys[i] = key  PROVE key \in DOMAIN t
    <3>1. i \in 1 .. n
      BY <1>3, <2>5, <2>6
    <3> QED
      BY <1>3, <2>8, <3>1
  <2>9. ASSUME key \in DOMAIN t  PROVE \E i \in from .. last : keys[i] = key
    <3>1. PICK i \in 1 .. n : keys[i] = key
      BY <1>3, <2>9
    <3>2. from <= i
      <4>1. ~(keys[i] < keys[from])
        BY SMTT(40), <1>2, <1>3, <2>4, <2>5, <3>1
      <4>2. ~(i < from)
        BY <1>3, <2>5, <4>1
      <4> QED
        BY <2>5, <4>2
    <3>3. i <= last
      <4>1. CASE block < blocks
        <5>1. keys[i] < keys[last + 1]
          BY <2>4, <2>6, <3>1, <4>1
        <5>2. i < last + 1
          BY <1>3, <2>6, <4>1, <5>1
        <5> QED
          BY <2>6, <5>2
      <4>2. CASE ~(block < blocks)
        BY <4>2 DEF n
      <4> QED
        BY <4>1, <4>2
    <3>4. i \in from .. last
      BY <2>5, <2>6, <3>2, <3>3
    <3> QED
      BY <3>1, <3>4
  <2> QED
    BY <2>7, <2>8, <2>9
<1> QED
  BY <1>10, <1>11

Before(t, u) == \A a \in DOMAIN t, b \in DOMAIN u : a < b

\* The runs of a level below 0.
InSequence(tables) == \A i, j \in DOMAIN tables : i < j => Before(tables[i], tables[j])

\* What a level says of a key.
Says(tables, k) == IF k \in HeldIn(tables) THEN Overlay(tables)[k] ELSE Absent

LEMMA BeforeEnds ==
    ASSUME NEW t \in Run, NEW u \in Run
    PROVE  Before(t, u) <=> MaxKey(t) < MinKey(u)
<1>1. /\ DOMAIN t \subseteq Nat /\ MaxKey(t) \in DOMAIN t /\ \A k \in DOMAIN t : k <= MaxKey(t)
  BY RunFacts
<1>2. /\ DOMAIN u \subseteq Nat /\ MinKey(u) \in DOMAIN u /\ \A k \in DOMAIN u : MinKey(u) <= k
  BY RunFacts
<1>3. ASSUME Before(t, u)  PROVE MaxKey(t) < MinKey(u)
  BY <1>1, <1>2, <1>3 DEF Before
<1>4. ASSUME MaxKey(t) < MinKey(u)  PROVE Before(t, u)
  <2> SUFFICES ASSUME NEW a \in DOMAIN t, NEW b \in DOMAIN u  PROVE a < b
    BY DEF Before
  <2>1. a \in Nat /\ b \in Nat /\ MaxKey(t) \in Nat /\ MinKey(u) \in Nat
    BY <1>1, <1>2
  <2>2. a <= MaxKey(t) /\ MinKey(u) <= b
    BY <1>1, <1>2
  <2> QED
    BY <1>4, <2>1, <2>2
<1> QED
  BY <1>3, <1>4

LEMMA SaysFacts ==
    ASSUME NEW tables \in Seq(Run), NEW k
    PROVE  /\ (\A i \in DOMAIN tables : k \notin DOMAIN tables[i]) => Says(tables, k) = Absent
           /\ k \in HeldIn(tables) => Says(tables, k) \in Entry /\ k \in Key
           /\ Says(tables, k) # Absent <=> k \in HeldIn(tables)
           /\ InSequence(tables) =>
                 \A i \in DOMAIN tables :
                    k \in DOMAIN tables[i] =>
                       /\ Says(tables, k) = tables[i][k]
                       /\ \A j \in DOMAIN tables : k \in DOMAIN tables[j] => j = i
<1>1. DOMAIN tables \subseteq Nat /\ \A i \in DOMAIN tables : tables[i] \in Run
  BY LenProperties, ElementOfSeq
<1>2. k \in HeldIn(tables) <=> \E i \in DOMAIN tables : k \in DOMAIN tables[i]
  BY HeldFacts
<1>3. ASSUME k \in HeldIn(tables)
      PROVE  Says(tables, k) \in Entry /\ k \in Key /\ Says(tables, k) # Absent
  <2>1. PICK i \in DOMAIN tables : k \in DOMAIN tables[i] /\ Overlay(tables)[k] = tables[i][k]
    BY <1>1, <1>3, OverlayFacts
  <2>2. tables[i] \in Run
    BY <1>1
  <2>3. tables[i][k] \in Entry /\ tables[i][k] # Absent /\ k \in Key
    BY <2>1, <2>2, RunFacts
  <2> QED
    BY <1>3, <2>1, <2>3 DEF Says
<1>4. ASSUME InSequence(tables), NEW i \in DOMAIN tables, k \in DOMAIN tables[i]
      PROVE  /\ Says(tables, k) = tables[i][k]
             /\ \A j \in DOMAIN tables : k \in DOMAIN tables[j] => j = i
  <2>1. ASSUME NEW j \in DOMAIN tables, k \in DOMAIN tables[j]  PROVE j = i
    <3>1. k \in Nat
      BY <1>1, <1>4, RunFacts
    <3>2. ~(k < k)
      BY <3>1
    <3>3. ~(i < j) /\ ~(j < i)
      BY <1>4, <2>1, <3>2 DEF InSequence, Before
    <3>4. i \in Nat /\ j \in Nat
      BY <1>1
    <3> QED
      BY <3>3, <3>4
  <2>2. k \in HeldIn(tables)
    BY <1>2, <1>4
  <2>3. PICK j \in DOMAIN tables : k \in DOMAIN tables[j] /\ Overlay(tables)[k] = tables[j][k]
    BY <1>1, <2>2, OverlayFacts
  <2>4. j = i
    BY <2>1, <2>3
  <2> QED
    BY <2>1, <2>2, <2>3, <2>4 DEF Says
<1>5. k \notin HeldIn(tables) => Says(tables, k) = Absent
  BY DEF Says
<1>6. (\A i \in DOMAIN tables : k \notin DOMAIN tables[i]) => Says(tables, k) = Absent
  BY <1>2, <1>5
<1>7. Says(tables, k) # Absent <=> k \in HeldIn(tables)
  BY <1>3, <1>5
<1> QED
  BY <1>3, <1>4, <1>6, <1>7

\* The middle of an interval that is not empty.
LEMMA Middle ==
    ASSUME NEW low \in Int, NEW high \in Int, low <= high
    PROVE  LET mid == low + (high - low) \div 2
           IN  mid \in Int /\ low <= mid /\ mid <= high
<1> DEFINE half == (high - low) \div 2
<1>1. high - low \in Nat
  OBVIOUS
<1>2. \A d \in Nat : d \div 2 \in Nat /\ d \div 2 <= d
  OBVIOUS
<1>3. half \in Nat /\ half <= high - low
  BY <1>1, <1>2
<1> HIDE DEF half
<1>4. low + half \in Int /\ low <= low + half /\ low + half <= high
  BY <1>3
<1> QED
  BY <1>4 DEF half

IsRunSearch(f, tables, key) ==
    f = [n \in 0 .. Len(tables) |->
            IF n = 0 THEN [low |-> 0, high |-> Len(tables) - 1, answer |-> Absent]
            ELSE RunRound(tables, key, f[n - 1])]

\* get() on a level below 0 finds what the level says: the only run whose range
\* holds the key, if there is one, is not lost.
LEMMA LevelGetIs ==
    ASSUME NEW tables \in Seq(Run), InSequence(tables), NEW key \in Nat
    PROVE  LevelGet(tables, key) = Says(tables, key)
<1> DEFINE L == Len(tables)
           search == CHOOSE f : IsRunSearch(f, tables, key)
           start == [low |-> 0, high |-> L - 1, answer |-> Absent]
           A == {TableGet(tables[i], key) : i \in Int} \union {Absent}
           St == [low : Int, high : Int, answer : A]
           Near(i) == MinKey(tables[i]) <= key /\ key <= MaxKey(tables[i])
           answer == Says(tables, key)
<1>1. LevelGet(tables, key) = search[L].answer
  BY DEF LevelGet, IsRunSearch
<1>2. L \in Nat /\ DOMAIN tables = 1 .. L
  BY LenProperties
<1>3. ASSUME NEW i \in 1 .. L
      PROVE  /\ tables[i] \in Run /\ DOMAIN tables[i] \subseteq Nat
             /\ MinKey(tables[i]) \in DOMAIN tables[i] /\ MaxKey(tables[i]) \in DOMAIN tables[i]
             /\ key \in DOMAIN tables[i] => Near(i)
             /\ TableGet(tables[i], key) = IF key \in DOMAIN tables[i] THEN tables[i][key] ELSE Absent
  <2>1. tables[i] \in Run
    BY ElementOfSeq
  <2> DEFINE t == tables[i]
  <2> HIDE DEF t
  <2>2. t \in Run
    BY <2>1 DEF t
  <2>3. /\ DOMAIN t \subseteq Nat /\ MinKey(t) \in DOMAIN t /\ MaxKey(t) \in DOMAIN t
        /\ \A k \in DOMAIN t : MinKey(t) <= k /\ k <= MaxKey(t)
    BY <2>2, RunFacts
  <2>4. TableGet(t, key) = IF key \in DOMAIN t THEN t[key] ELSE Absent
    BY <2>2, TableGetIs
  <2> QED
    BY <2>1, <2>3, <2>4 DEF t
\* Runs apart: at most one range holds the key.
<1>4. ASSUME NEW i \in 1 .. L, NEW j \in 1 .. L, i < j
      PROVE  MaxKey(tables[i]) < MinKey(tables[j])
  BY <1>2, <1>3, <1>4, BeforeEnds DEF InSequence
<1>5. (\A i \in 1 .. L : ~Near(i)) => answer = Absent
  BY <1>2, <1>3, SaysFacts
<1>6. ASSUME NEW i \in 1 .. L, Near(i)  PROVE answer = TableGet(tables[i], key)
  <2>1. CASE key \in DOMAIN tables[i]
    BY <1>2, <1>3, <2>1, SaysFacts
  <2>2. CASE key \notin DOMAIN tables[i]
    <3>1. ASSUME NEW j \in 1 .. L, key \in DOMAIN tables[j]  PROVE FALSE
      <4>1. Near(j) /\ j # i
        BY <1>3, <2>2, <3>1
      <4>2. i < j \/ j < i
        BY <1>2, <4>1
      <4>3. MaxKey(tables[i]) < MinKey(tables[j]) \/ MaxKey(tables[j]) < MinKey(tables[i])
        BY <1>4, <4>2
      <4>4. /\ MaxKey(tables[i]) \in Nat /\ MinKey(tables[j]) \in Nat
            /\ MaxKey(tables[j]) \in Nat /\ MinKey(tables[i]) \in Nat
        BY <1>3
      <4> QED
        BY <1>6, <4>1, <4>3, <4>4
    <3>2. answer = Absent
      BY <1>2, <3>1, SaysFacts
    <3> QED
      BY <1>3, <2>2, <3>2
  <2> QED
    BY <2>1, <2>2
<1> HIDE DEF answer, Near
<1>7. start \in St /\ start.low = 0 /\ start.high = L - 1 /\ start.answer = Absent
  BY <1>2
\* One round.
<1>8. ASSUME NEW s \in St
      PROVE  LET mid == s.low + (s.high - s.low) \div 2
                 r   == RunRound(tables, key, s)
             IN  /\ r \in St
                 /\ s.low > s.high => r = s
                 /\ s.low <= s.high =>
                       /\ mid \in Int /\ s.low <= mid /\ mid <= s.high
                       /\ Near(mid + 1) => /\ r.low = s.low /\ r.high = s.low - 1
                                           /\ r.answer = TableGet(tables[mid + 1], key)
                       /\ ~Near(mid + 1) /\ key < MinKey(tables[mid + 1]) =>
                              r.low = s.low /\ r.high = mid - 1 /\ r.answer = Absent
                       /\ ~Near(mid + 1) /\ ~(key < MinKey(tables[mid + 1])) =>
                              r.low = mid + 1 /\ r.high = s.high /\ r.answer = Absent
  <2> DEFINE half == (s.high - s.low) \div 2
             mid == s.low + half
             r == RunRound(tables, key, s)
  <2>1. s.low \in Int /\ s.high \in Int /\ half \in Int
    OBVIOUS
  <2>2. mid \in Int /\ mid + 1 \in Int /\ mid - 1 \in Int /\ s.low - 1 \in Int
    BY <2>1
  <2>3. s.low <= s.high => s.low <= mid /\ mid <= s.high
    BY <2>1, Middle
  <2>4. r = IF s.low > s.high THEN s
            ELSE IF Near(mid + 1)
                 THEN [low |-> s.low, high |-> s.low - 1, answer |-> TableGet(tables[mid + 1], key)]
            ELSE IF key < MinKey(tables[mid + 1])
                 THEN [low |-> s.low, high |-> mid - 1, answer |-> Absent]
            ELSE [low |-> mid + 1, high |-> s.high, answer |-> Absent]
    BY DEF RunRound, Near
  <2>5. TableGet(tables[mid + 1], key) \in A /\ Absent \in A
    BY <2>2
  <2> HIDE DEF mid, r, A
  <2>6. s.low <= s.high => ~(s.low > s.high)
    BY <2>1
  <2>7. r \in St
    BY <2>1, <2>2, <2>4, <2>5
  <2>8. /\ r \in St
        /\ s.low > s.high => r = s
        /\ s.low <= s.high =>
              /\ mid \in Int /\ s.low <= mid /\ mid <= s.high
              /\ Near(mid + 1) => /\ r.low = s.low /\ r.high = s.low - 1
                                  /\ r.answer = TableGet(tables[mid + 1], key)
              /\ ~Near(mid + 1) /\ key < MinKey(tables[mid + 1]) =>
                     r.low = s.low /\ r.high = mid - 1 /\ r.answer = Absent
              /\ ~Near(mid + 1) /\ ~(key < MinKey(tables[mid + 1])) =>
                     r.low = mid + 1 /\ r.high = s.high /\ r.answer = Absent
    <3>1. s.low > s.high => r = s
      BY <2>4
    <3>2. ASSUME s.low <= s.high, Near(mid + 1)
          PROVE  /\ r.low = s.low /\ r.high = s.low - 1
                 /\ r.answer = TableGet(tables[mid + 1], key)
      BY <2>4, <2>6, <3>2
    <3>3. ASSUME s.low <= s.high, ~Near(mid + 1), key < MinKey(tables[mid + 1])
          PROVE  r.low = s.low /\ r.high = mid - 1 /\ r.answer = Absent
      BY <2>4, <2>6, <3>3
    <3>4. ASSUME s.low <= s.high, ~Near(mid + 1), ~(key < MinKey(tables[mid + 1]))
          PROVE  r.low = mid + 1 /\ r.high = s.high /\ r.answer = Absent
      BY <2>4, <2>6, <3>4
    <3> QED
      BY <2>2, <2>3, <2>7, <3>1, <3>2, <3>3, <3>4
  <2> QED
    BY <2>8 DEF mid, r
<1> HIDE DEF A, L, start
<1>9. \E f : IsRunSearch(f, tables, key)
  <2> DEFINE step == [x \in (1 .. L) \X St |-> RunRound(tables, key, x[2])]
  <2>1. \A s \in St : RunRound(tables, key, s) \in St
    BY <1>8
  <2> HIDE DEF St
  <2>2. step \in [(1 .. L) \X St -> St]
    <3>1. \A x \in (1 .. L) \X St : x[2] \in St
      OBVIOUS
    <3> QED
      BY <2>1, <3>1
  <2>3. ASSUME NEW n \in 1 .. L, NEW s \in St  PROVE step[<<n, s>>] = RunRound(tables, key, s)
    OBVIOUS
  <2> HIDE DEF step
  <2>4. start \in St
    BY <1>7
  <2>5. PICK f \in [0 .. L -> St] : Repeats(f, start, L, step)
    BY ONLY <1>2, <2>2, <2>4, Rounds
  <2>6. \A n \in 1 .. L : n - 1 \in 0 .. L
    BY <1>2
  <2>7. \A n \in 1 .. L : f[n] = RunRound(tables, key, f[n - 1])
    BY <2>3, <2>5, <2>6 DEF Repeats
  <2>8. \A n \in 0 .. L : n = 0 \/ n \in 1 .. L
    BY <1>2
  <2>9. \A n \in 0 .. L : f[n] = IF n = 0 THEN start ELSE RunRound(tables, key, f[n - 1])
    BY <2>5, <2>7, <2>8 DEF Repeats
  <2>10. IsRunSearch(f, tables, key)
    BY <2>5, <2>9 DEF IsRunSearch, start, L
  <2> QED
    BY <2>10
<1>10. IsRunSearch(search, tables, key)
  BY <1>9
<1> HIDE DEF search
<1>11. search[0] = start /\ \A n \in 1 .. L : search[n] = RunRound(tables, key, search[n - 1])
  <2>1. \A n \in 1 .. L : n \in 0 .. L /\ n # 0
    BY <1>2
  <2>2. 0 \in 0 .. L
    BY <1>2
  <2>3. \A n \in 0 .. L : search[n] = IF n = 0 THEN start ELSE RunRound(tables, key, search[n - 1])
    BY <1>10 DEF IsRunSearch, start, L
  <2> QED
    BY <2>1, <2>2, <2>3
<1> DEFINE Good(s, n) ==
        /\ s \in St /\ s.low \in 0 .. L /\ s.high \in -1 .. L - 1
        /\ s.low > s.high => s.answer = answer
        /\ s.low <= s.high => /\ s.answer = Absent /\ s.high - s.low < L - n
                              /\ \A i \in 1 .. L : Near(i) => s.low + 1 <= i /\ i <= s.high + 1
<1>12. Good(search[0], 0)
  <2>1. start \in St /\ start.low \in 0 .. L /\ start.high \in -1 .. L - 1
    BY <1>2, <1>7
  <2>2. ASSUME start.low > start.high  PROVE start.answer = answer
    <3>1. 1 .. L = {}
      BY <1>2, <1>7, <2>2
    <3> QED
      BY <1>5, <1>7, <3>1
  <2>3. start.high - start.low < L - 0
    BY <1>2, <1>7
  <2>4. \A i \in 1 .. L : start.low + 1 <= i /\ i <= start.high + 1
    BY <1>2, <1>7
  <2> QED
    BY <1>7, <1>11, <2>1, <2>2, <2>3, <2>4
<1>13. ASSUME NEW n \in 1 .. L, Good(search[n - 1], n - 1)  PROVE Good(search[n], n)
  <2> DEFINE s == search[n - 1]
             r == search[n]
             mid == s.low + (s.high - s.low) \div 2
  <2>1. /\ s \in St /\ s.low \in 0 .. L /\ s.high \in -1 .. L - 1
        /\ s.low > s.high => s.answer = answer
        /\ s.low <= s.high => /\ s.answer = Absent /\ s.high - s.low < L - (n - 1)
                              /\ \A i \in 1 .. L : Near(i) => s.low + 1 <= i /\ i <= s.high + 1
    BY <1>13
  <2>2. r = RunRound(tables, key, s)
    BY <1>11
  <2>3. /\ r \in St
        /\ s.low > s.high => r = s
        /\ s.low <= s.high =>
              /\ mid \in Int /\ s.low <= mid /\ mid <= s.high
              /\ Near(mid + 1) => /\ r.low = s.low /\ r.high = s.low - 1
                                  /\ r.answer = TableGet(tables[mid + 1], key)
              /\ ~Near(mid + 1) /\ key < MinKey(tables[mid + 1]) =>
                     r.low = s.low /\ r.high = mid - 1 /\ r.answer = Absent
              /\ ~Near(mid + 1) /\ ~(key < MinKey(tables[mid + 1])) =>
                     r.low = mid + 1 /\ r.high = s.high /\ r.answer = Absent
    <3> HIDE DEF St, s
    <3> QED
      BY <1>8, <2>1, <2>2
  <2> HIDE DEF s, r, mid, St
  <2>4. CASE s.low > s.high
    <3>1. r = s /\ ~(s.low <= s.high)
      BY <2>1, <2>3, <2>4
    <3>2. Good(r, n)
      BY <2>1, <2>4, <3>1
    <3> QED
      BY <3>2 DEF r
  <2>5. CASE s.low <= s.high
    <3>1. /\ s.low \in 0 .. L - 1 /\ s.high \in 0 .. L - 1 /\ mid \in 0 .. L - 1 /\ mid + 1 \in 1 .. L
          /\ s.low <= mid /\ mid <= s.high /\ s.high - s.low < L - (n - 1)
      BY SMTT(40), <1>2, <2>1, <2>3, <2>5
    <3>2. \A i \in 1 .. L : Near(i) => s.low + 1 <= i /\ i <= s.high + 1
      BY <2>1, <2>5
    <3> DEFINE t == tables[mid + 1]
    <3>3. CASE Near(mid + 1)
      <4>1. r.low = s.low /\ r.high = s.low - 1 /\ r.answer = answer
        BY <1>6, <2>3, <2>5, <3>1, <3>3
      <4>2. r.low > r.high /\ ~(r.low <= r.high) /\ r.low \in 0 .. L /\ r.high \in -1 .. L - 1
        BY <1>2, <3>1, <4>1
      <4>3. Good(r, n)
        BY <2>3, <4>1, <4>2
      <4> QED
        BY <4>3 DEF r
    <3>4. CASE ~Near(mid + 1)
      \* Both ways: the runs left are the only ones that can be near.
      <4>1. ASSUME r.answer = Absent, r.low \in 0 .. L, r.high \in -1 .. L - 1,
                   r.high - r.low < s.high - s.low,
                   \A i \in 1 .. L : Near(i) => r.low + 1 <= i /\ i <= r.high + 1
            PROVE  Good(r, n)
        <5>1. ASSUME r.low > r.high  PROVE r.answer = answer
          <6>1. \A i \in 1 .. L : ~(r.low + 1 <= i /\ i <= r.high + 1)
            BY <1>2, <4>1, <5>1
          <6> QED
            BY <1>5, <4>1, <6>1
        <5>2. r.high - r.low < L - n
          <6>1. \A a, b \in Int : a < b /\ b < L - (n - 1) => a < L - n
            BY <1>2
          <6>2. r.high - r.low \in Int /\ s.high - s.low \in Int
            BY SMTT(40), <3>1, <4>1
          <6> QED
            BY <3>1, <4>1, <6>1, <6>2
        <5> QED
          BY <2>3, <4>1, <5>1, <5>2
      <4>2. MinKey(t) \in Nat /\ MaxKey(t) \in Nat
        BY <1>3, <3>1
      <4>3. CASE key < MinKey(t)
        <5>1. r.low = s.low /\ r.high = mid - 1 /\ r.answer = Absent
          BY <2>3, <2>5, <3>4, <4>3
        <5>2. ASSUME NEW i \in 1 .. L, Near(i)  PROVE i <= mid
          <6>1. i # mid + 1
            BY <3>4, <5>2
          <6>2. ~(mid + 1 < i)
            <7> SUFFICES ASSUME mid + 1 < i  PROVE FALSE
              OBVIOUS
            <7>1. MaxKey(t) < MinKey(tables[i])
              BY <1>4, <3>1
            <7>2. MinKey(t) <= MaxKey(t)
              BY <1>3, <3>1, RunFacts
            <7>3. MinKey(tables[i]) \in Nat /\ MinKey(tables[i]) <= key
              BY <1>3, <5>2 DEF Near
            <7> HIDE DEF t
            <7> QED
              BY <4>2, <4>3, <7>1, <7>2, <7>3
          <6> QED
            BY <3>1, <6>1, <6>2
        <5>3. \A i \in 1 .. L : Near(i) => r.low + 1 <= i /\ i <= r.high + 1
          BY <3>1, <3>2, <5>1, <5>2
        <5>4. r.low \in 0 .. L /\ r.high \in -1 .. L - 1 /\ r.high - r.low < s.high - s.low
          BY <1>2, <3>1, <5>1
        <5>5. Good(r, n)
          BY <4>1, <5>1, <5>3, <5>4
        <5> QED
          BY <5>5 DEF r
      <4>4. CASE ~(key < MinKey(t))
        <5>1. r.low = mid + 1 /\ r.high = s.high /\ r.answer = Absent
          BY <2>3, <2>5, <3>4, <4>4
        <5>2. MaxKey(t) < key
          BY <3>4, <4>2, <4>4 DEF Near
        <5>3. ASSUME NEW i \in 1 .. L, Near(i)  PROVE mid + 2 <= i
          <6>1. i # mid + 1
            BY <3>4, <5>3
          <6>2. ~(i < mid + 1)
            <7> SUFFICES ASSUME i < mid + 1  PROVE FALSE
              OBVIOUS
            <7>1. MaxKey(tables[i]) < MinKey(t)
              BY <1>4, <3>1
            <7>2. MinKey(t) <= MaxKey(t)
              BY <1>3, <3>1, RunFacts
            <7>3. MaxKey(tables[i]) \in Nat /\ key <= MaxKey(tables[i])
              BY <1>3, <5>3 DEF Near
            <7> HIDE DEF t
            <7> QED
              BY <4>2, <5>2, <7>1, <7>2, <7>3
          <6> QED
            BY <3>1, <6>1, <6>2
        <5>4. \A i \in 1 .. L : Near(i) => r.low + 1 <= i /\ i <= r.high + 1
          BY <3>1, <3>2, <5>1, <5>3
        <5>5. r.low \in 0 .. L /\ r.high \in -1 .. L - 1 /\ r.high - r.low < s.high - s.low
          BY <1>2, <3>1, <5>1
        <5>6. Good(r, n)
          BY <4>1, <5>1, <5>4, <5>5
        <5> QED
          BY <5>6 DEF r
      <4> QED
        BY <4>3, <4>4
    <3> QED
      BY <3>3, <3>4
  <2>6. s.low > s.high \/ s.low <= s.high
    BY <2>1
  <2> QED
    BY <2>4, <2>5, <2>6
<1>14. Good(search[L], L)
  <2> DEFINE good == {n \in 0 .. L : Good(search[n], n)}
  <2> HIDE DEF Good
  <2>1. 0 \in good
    BY <1>2, <1>12
  <2>2. ASSUME NEW n \in 1 .. L, n - 1 \in good  PROVE n \in good
    BY <1>13, <2>2
  <2>3. 0 .. L \subseteq good
    <3> HIDE DEF good
    <3> QED
      BY ONLY <1>2, <2>1, <2>2, UpTo
  <2>4. L \in 0 .. L
    BY <1>2
  <2> QED
    BY <2>3, <2>4
<1>15. search[L].answer = answer
  <2> DEFINE s == search[L]
  <2>1. s.low \in 0 .. L /\ s.high \in -1 .. L - 1
        /\ (s.low > s.high => s.answer = answer) /\ (s.low <= s.high => s.high - s.low < L - L)
    BY <1>14
  <2> HIDE DEF s
  <2>2. s.low > s.high
    BY <1>2, <2>1
  <2>3. s.answer = answer
    BY <2>1, <2>2
  <2> QED
    BY <2>3 DEF s
<1> QED
  BY <1>1, <1>15 DEF answer

LEMMA FirstAnswerIs ==
    ASSUME NEW f, DOMAIN f \subseteq Nat
    PROVE  /\ (\A i \in DOMAIN f : f[i] = Absent) => FirstAnswer(f) = Absent
           /\ \A i \in DOMAIN f :
                 f[i] # Absent /\ (\A j \in DOMAIN f : j < i => f[j] = Absent)
                    => FirstAnswer(f) = f[i]
           /\ (\E i \in DOMAIN f : f[i] # Absent) =>
                 \E i \in DOMAIN f : f[i] # Absent /\ \A j \in DOMAIN f : j < i => f[j] = Absent
<1> DEFINE given == {i \in DOMAIN f : f[i] # Absent}
<1>1. FirstAnswer(f) = IF given = {} THEN Absent ELSE f[Min(given)]
  BY DEF FirstAnswer
<1>2. given # {} => Min(given) \in given /\ \A i \in given : Min(given) <= i
  <2>1. given \subseteq Nat
    OBVIOUS
  <2> HIDE DEF given
  <2> QED
    BY <2>1, LeastOf
<1>3. given # {} => /\ Min(given) \in DOMAIN f /\ f[Min(given)] # Absent
                    /\ \A j \in DOMAIN f : j < Min(given) => f[j] = Absent
  <2> SUFFICES ASSUME given # {}
               PROVE  /\ Min(given) \in DOMAIN f /\ f[Min(given)] # Absent
                      /\ \A j \in DOMAIN f : j < Min(given) => f[j] = Absent
    OBVIOUS
  <2>1. Min(given) \in DOMAIN f /\ f[Min(given)] # Absent /\ Min(given) \in Nat
    BY <1>2
  <2>2. \A j \in DOMAIN f : j < Min(given) => f[j] = Absent
    <3> SUFFICES ASSUME NEW j \in DOMAIN f, j < Min(given), f[j] # Absent  PROVE FALSE
      OBVIOUS
    <3>1. Min(given) <= j /\ j \in Nat
      BY <1>2
    <3> QED
      BY <2>1, <3>1
  <2> QED
    BY <2>1, <2>2
<1>4. ASSUME NEW i \in DOMAIN f, f[i] # Absent, \A j \in DOMAIN f : j < i => f[j] = Absent
      PROVE  FirstAnswer(f) = f[i]
  <2>1. given # {} /\ i \in given /\ i \in Nat
    BY <1>4
  <2>2. Min(given) <= i /\ Min(given) \in Nat /\ Min(given) \in DOMAIN f /\ f[Min(given)] # Absent
    BY <1>2, <2>1
  <2>3. ~(Min(given) < i)
    BY <1>4, <2>2
  <2>4. Min(given) = i
    BY <2>1, <2>2, <2>3
  <2> QED
    BY <1>1, <2>1, <2>4
<1>5. (\E i \in DOMAIN f : f[i] # Absent) => given # {}
  OBVIOUS
<1>6. (\A i \in DOMAIN f : f[i] = Absent) => given = {}
  OBVIOUS
<1> HIDE DEF given
<1> QED
  BY <1>1, <1>3, <1>4, <1>5, <1>6

\* The newest run of level 0 that holds the key answers for the level.
LEMMA Level0Says ==
    ASSUME NEW tables \in Seq(Run), NEW key \in Nat
    PROVE  FirstAnswer([i \in DOMAIN tables |-> TableGet(tables[i], key)]) = Says(tables, key)
<1> DEFINE f == [i \in DOMAIN tables |-> TableGet(tables[i], key)]
<1>1. DOMAIN tables \subseteq Nat /\ \A i \in DOMAIN tables : tables[i] \in Run
  BY LenProperties, ElementOfSeq
<1>2. ASSUME NEW i \in DOMAIN tables
      PROVE  /\ f[i] = IF key \in DOMAIN tables[i] THEN tables[i][key] ELSE Absent
             /\ f[i] # Absent <=> key \in DOMAIN tables[i]
  <2> DEFINE t == tables[i]
  <2>1. t \in Run
    BY <1>1
  <2>2. f[i] = TableGet(t, key)
    OBVIOUS
  <2> HIDE DEF t, f
  <2>3. f[i] = IF key \in DOMAIN t THEN t[key] ELSE Absent
    BY <2>1, <2>2, TableGetIs
  <2>4. key \in DOMAIN t => t[key] # Absent
    BY <2>1, RunFacts
  <2>5. f[i] # Absent <=> key \in DOMAIN t
    BY <2>3, <2>4
  <2> QED
    BY <2>3, <2>5 DEF t
<1>3. DOMAIN f = DOMAIN tables /\ DOMAIN f \subseteq Nat
  BY <1>1
<1> HIDE DEF f
<1>4. CASE key \in HeldIn(tables)
  <2>1. PICK i \in DOMAIN tables :
            /\ key \in DOMAIN tables[i] /\ Overlay(tables)[key] = tables[i][key]
            /\ \A j \in DOMAIN tables : key \in DOMAIN tables[j] => i <= j
    BY <1>1, <1>4, OverlayFacts
  <2>2. \A j \in DOMAIN tables : j < i => f[j] = Absent
    <3> SUFFICES ASSUME NEW j \in DOMAIN tables, j < i, f[j] # Absent  PROVE FALSE
      OBVIOUS
    <3>1. i <= j /\ i \in Nat /\ j \in Nat
      BY <1>1, <1>2, <2>1
    <3> QED
      BY <3>1
  <2>3. f[i] = tables[i][key] /\ f[i] # Absent
    BY <1>2, <2>1
  <2>4. FirstAnswer(f) = f[i]
    BY <1>3, <2>2, <2>3, FirstAnswerIs
  <2> QED
    BY <1>4, <2>1, <2>3, <2>4 DEF Says, f
<1>5. CASE key \notin HeldIn(tables)
  <2>1. \A i \in DOMAIN f : f[i] = Absent
    BY <1>2, <1>3, <1>5, HeldFacts
  <2>2. FirstAnswer(f) = Absent
    BY <1>3, <2>1, FirstAnswerIs
  <2> QED
    BY <1>5, <2>2 DEF Says, f
<1> QED
  BY <1>4, <1>5

\* What all the levels say, and what get() makes of it.
LevelsSay(ls, k) == FirstAnswer([l \in Level |-> Says(ls[l], k)])
Shown(entry) == IF entry \in {Absent, Tombstone} THEN NoValue ELSE entry

LevelsInSequence(ls) ==
    /\ ls \in [Level -> Seq(Run)]
    /\ \A l \in Level \ {0} : InSequence(ls[l])

LEMMA LevelFacts == Level \subseteq Nat /\ 0 \in Level /\ MaxLevels \in Nat /\ MaxLevels > 1
BY LSMSizes DEF Level

LEMMA GetIs ==
    ASSUME LevelsInSequence(levels), NEW key \in Nat
    PROVE  Get(key) = Shown(IF key \in DOMAIN memtable THEN memtable[key] ELSE LevelsSay(levels, key))
<1> DEFINE answers == [l \in Level |->
                          IF l = 0
                          THEN FirstAnswer([i \in DOMAIN levels[0] |-> TableGet(levels[0][i], key)])
                          ELSE LevelGet(levels[l], key)]
<1>1. ASSUME NEW l \in Level  PROVE answers[l] = Says(levels[l], key)
  <2> DEFINE tables == levels[l]
  <2>1. tables \in Seq(Run) /\ (l # 0 => InSequence(tables))
    BY DEF LevelsInSequence
  <2>2. CASE l = 0
    <3>1. answers[l] = FirstAnswer([i \in DOMAIN tables |-> TableGet(tables[i], key)])
      BY <2>2
    <3> HIDE DEF tables, answers
    <3>2. FirstAnswer([i \in DOMAIN tables |-> TableGet(tables[i], key)]) = Says(tables, key)
      BY <2>1, Level0Says
    <3> QED
      BY <3>1, <3>2 DEF tables
  <2>3. CASE l # 0
    <3>1. answers[l] = LevelGet(tables, key)
      BY <2>3
    <3> HIDE DEF tables, answers
    <3> QED
      BY <2>1, <2>3, <3>1, LevelGetIs DEF tables
  <2> QED
    BY <2>2, <2>3
<1>2. answers = [l \in Level |-> Says(levels[l], key)]
  <2>1. answers = [l \in Level |-> answers[l]]
    OBVIOUS
  <2> HIDE DEF answers
  <2> QED
    BY <1>1, <2>1
<1>3. Get(key) = Shown(IF key \in DOMAIN memtable THEN memtable[key] ELSE FirstAnswer(answers))
  BY DEF Get, Shown
<1> HIDE DEF answers
<1> QED
  BY <1>2, <1>3 DEF LevelsSay

\* Two neighbouring levels that say the same together leave every answer alone; a
\* deletion the last level forgets was nothing there.
LEMMA NeighboursAnswer ==
    ASSUME NEW f, NEW g, f = [i \in Level |-> f[i]], g = [i \in Level |-> g[i]],
           NEW l \in Level, l + 1 \in Level,
           \A i \in Level : i # l /\ i # l + 1 => f[i] = g[i],
           LET old == IF f[l] # Absent THEN f[l] ELSE f[l + 1]
               new == IF g[l] # Absent THEN g[l] ELSE g[l + 1]
           IN  \/ old = new
               \/ l + 1 = MaxLevels - 1 /\ old = Tombstone /\ new = Absent
    PROVE  Shown(FirstAnswer(f)) = Shown(FirstAnswer(g))
<1> DEFINE old == IF f[l] # Absent THEN f[l] ELSE f[l + 1]
           new == IF g[l] # Absent THEN g[l] ELSE g[l + 1]
<1>1. DOMAIN f = Level /\ DOMAIN g = Level /\ Level \subseteq Nat /\ l \in Nat
  BY LevelFacts
<1>2. \A i \in Level : i < l + 1 => i < l \/ i = l
  BY <1>1
<1>3. \A i \in Level : i < l => i # l /\ i # l + 1
  BY <1>1
<1>4. CASE \E i \in Level : i < l /\ f[i] # Absent
  <2>1. PICK i \in Level : i < l /\ f[i] # Absent
    BY <1>4
  <2>2. PICK m \in Level : f[m] # Absent /\ \A j \in Level : j < m => f[j] = Absent
    BY <1>1, <2>1, FirstAnswerIs
  <2>3. m < l
    <3>1. ~(i < m)
      BY <2>1, <2>2
    <3> QED
      BY <1>1, <2>1, <3>1
  <2>4. \A j \in Level : j < m => j < l
    BY <1>1, <2>3
  <2>5. g[m] = f[m] /\ \A j \in Level : j < m => g[j] = Absent
    BY <1>3, <2>2, <2>3, <2>4
  <2>6. FirstAnswer(f) = f[m] /\ FirstAnswer(g) = g[m]
    BY <1>1, <2>2, <2>5, FirstAnswerIs
  <2> QED
    BY <2>5, <2>6
<1>5. CASE ~\E i \in Level : i < l /\ f[i] # Absent
  <2>1. \A i \in Level : i < l => f[i] = Absent /\ g[i] = Absent
    BY <1>3, <1>5
  <2>2. old # Absent => FirstAnswer(f) = old
    <3>1. CASE f[l] # Absent
      BY <1>1, <2>1, <3>1, FirstAnswerIs
    <3>2. CASE f[l] = Absent
      BY <1>1, <1>2, <2>1, <3>2, FirstAnswerIs
    <3> QED
      BY <3>1, <3>2
  <2>3. new # Absent => FirstAnswer(g) = new
    <3>1. CASE g[l] # Absent
      BY <1>1, <2>1, <3>1, FirstAnswerIs
    <3>2. CASE g[l] = Absent
      BY <1>1, <1>2, <2>1, <3>2, FirstAnswerIs
    <3> QED
      BY <3>1, <3>2
  <2>4. CASE old = new /\ old # Absent
    BY <2>2, <2>3, <2>4
  <2>5. CASE old = new /\ old = Absent
    <3>1. f[l] = Absent /\ g[l] = Absent /\ f[l + 1] = Absent /\ g[l + 1] = Absent
      BY <2>5
    <3>2. \A i \in Level : f[i] = g[i]
      BY <3>1
    <3>3. f = g
      BY <3>2
    <3> QED
      BY <3>3
  <2>6. CASE l + 1 = MaxLevels - 1 /\ old = Tombstone /\ new = Absent
    <3>1. Tombstone # Absent
      BY LSMSizes
    <3>2. FirstAnswer(f) = Tombstone
      BY <2>2, <2>6, <3>1
    <3>3. \A i \in Level : i < l \/ i = l \/ i = l + 1
      BY <1>1, <2>6, LevelFacts DEF Level
    <3>4. g[l] = Absent /\ g[l + 1] = Absent
      BY <2>6
    <3>5. FirstAnswer(g) = Absent
      BY <1>1, <2>1, <3>3, <3>4, FirstAnswerIs
    <3> QED
      BY <3>2, <3>5 DEF Shown
  <2> QED
    BY <2>4, <2>5, <2>6
<1> QED
  BY <1>4, <1>5
-----------------------------------------------------------------------------
(* Proof: what a compaction keeps *)

\* The entries of a table cut into runs.
LEMMA ChunksFacts ==
    ASSUME NEW entries \in Partly(Key, Entry), IsFiniteSet(DOMAIN entries)
    PROVE  LET chunks == Chunks(entries)
           IN  /\ IsFiniteSet(DOMAIN chunks)
               /\ \A i \in DOMAIN chunks :
                     /\ chunks[i] \in Run /\ DOMAIN chunks[i] \subseteq DOMAIN entries
                     /\ \A k \in DOMAIN chunks[i] : chunks[i][k] = entries[k]
               /\ \A k \in DOMAIN entries : \E i \in DOMAIN chunks : k \in DOMAIN chunks[i]
               /\ \A i, j \in DOMAIN chunks : i < j => Before(chunks[i], chunks[j])
<1> DEFINE D == DOMAIN entries
           size == 2 * MemtableThreshold
           n == Cardinality(D)
           count == (n + size - 1) \div size
           Part(i) == {k \in D : RankIn(D, k) \div size = i - 1}
           chunks == [i \in 1 .. count |-> Restrict(entries, Part(i))]
<1>1. chunks = Chunks(entries)
  BY DEF Chunks
<1>2. size \in Nat \ {0}
  BY LSMSizes
<1>3. D \subseteq Key /\ D \subseteq Nat /\ \A k \in D : entries[k] \in Entry
  BY PartlyFacts, LSMSizes
<1>4. n \in Nat
  BY FS_CardinalityType
<1>5. /\ \A k \in D : RankIn(D, k) \in 0 .. n - 1
      /\ \A j, k \in D : j < k <=> RankIn(D, j) < RankIn(D, k)
      /\ \A r \in 0 .. n - 1 : \E k \in D : RankIn(D, k) = r
  <2> HIDE DEF D
  <2> QED
    BY <1>3, Ranks DEF D
<1> HIDE DEF D, size, n
<1>6. n + size - 1 \in Nat
  BY <1>2, <1>4
<1>7. count \in Nat /\ count * size \in Nat /\ count * size <= n + size - 1
  BY <1>2, <1>6, Quotient
\* Every key has a part.
<1>8. ASSUME NEW k \in D  PROVE RankIn(D, k) \div size + 1 \in 1 .. count
  <2> DEFINE r == RankIn(D, k)
             q == r \div size
  <2>1. r \in 0 .. n - 1 /\ r \in Nat
    BY <1>4, <1>5
  <2> HIDE DEF r
  <2>2. q \in Nat /\ q * size \in Nat /\ q * size <= r
    BY <1>2, <2>1, Quotient
  <2> HIDE DEF q
  <2>3. (q + 1) * size = q * size + size
    BY <1>2, <2>2
  <2>4. (q + 1) * size <= n + size - 1
    BY <1>2, <1>4, <2>1, <2>2, <2>3
  <2>5. q + 1 <= count
    <3>1. q + 1 \in Nat
      BY <2>2
    <3> QED
      BY <1>2, <1>6, <2>4, <3>1, QuotientAtLeast
  <2>6. q + 1 \in 1 .. count
    BY <1>7, <2>2, <2>5
  <2> QED
    BY <2>6 DEF q, r
\* Every part has a key: the one whose rank begins it.
<1>9. ASSUME NEW i \in 1 .. count  PROVE Part(i) # {}
  <2>1. i \in Nat /\ i - 1 \in Nat /\ i <= count
    BY <1>7
  <2> DEFINE r == (i - 1) * size
  <2>2. i * size \in Nat /\ i * size <= count * size
    BY <1>2, <1>7, <2>1, Multiples
  <2>3. i * size = r + size /\ r \in Nat
    BY <1>2, <2>1
  <2>4. r \in 0 .. n - 1
    BY <1>2, <1>4, <1>7, <2>2, <2>3
  <2>5. r \div size = i - 1
    <3>1. (i - 1) * size <= r /\ r < (i - 1) * size + size
      BY <1>2, <2>3
    <3> QED
      BY <1>2, <2>1, <2>3, <3>1, QuotientIs
  <2> HIDE DEF r
  <2>6. PICK k \in D : RankIn(D, k) = r
    BY <1>5, <2>4
  <2>7. k \in Part(i)
    BY <2>5, <2>6
  <2> QED
    BY <2>7
<1>10. ASSUME NEW i \in 1 .. count
       PROVE  /\ DOMAIN chunks[i] = Part(i) /\ \A k \in Part(i) : chunks[i][k] = entries[k]
              /\ chunks[i] \in Run
  <2>1. chunks[i] = [k \in Part(i) |-> entries[k]]
    BY DEF Restrict
  <2>2. Part(i) \subseteq D
    OBVIOUS
  <2>3. IsFiniteSet(Part(i))
    BY <2>2, FS_Subset DEF D
  <2>4. Part(i) # {}
    BY <1>9
  <2> DEFINE c == chunks[i]
  <2> HIDE DEF Part, chunks
  <2>5. DOMAIN c = Part(i) /\ \A k \in Part(i) : c[k] = entries[k]
    BY <2>1
  <2>6. c = [k \in DOMAIN c |-> c[k]]
    BY <2>1, <2>5
  <2> HIDE DEF c
  <2>7. DOMAIN c \subseteq Key /\ \A k \in DOMAIN c : c[k] \in Entry
    BY <1>3, <2>2, <2>5
  <2>8. c \in Partly(Key, Entry)
    BY <2>6, <2>7, PartlyFacts
  <2>9. c \in Run
    BY <2>3, <2>4, <2>5, <2>8 DEF Run
  <2> QED
    BY <2>5, <2>9 DEF c
<1>11. DOMAIN chunks = 1 .. count
  OBVIOUS
<1>12. IsFiniteSet(1 .. count)
  BY <1>7, FS_Interval
<1>13. ASSUME NEW i \in 1 .. count, NEW j \in 1 .. count, i < j
       PROVE  Before(chunks[i], chunks[j])
  <2> SUFFICES ASSUME NEW a \in Part(i), NEW b \in Part(j)  PROVE a < b
    BY <1>10 DEF Before
  <2> DEFINE p == RankIn(D, a)
             q == RankIn(D, b)
  <2>1. a \in D /\ b \in D /\ p \div size = i - 1 /\ q \div size = j - 1
    OBVIOUS
  <2>2. p \in Nat /\ q \in Nat
    BY <1>4, <1>5, <2>1
  <2> HIDE DEF p, q
  <2>3. p < (i - 1) * size + size /\ (j - 1) * size <= q
    BY <1>2, <2>1, <2>2, Quotient
  <2>4. i \in Nat /\ j - 1 \in Nat /\ i <= j - 1 /\ i - 1 \in Nat
    BY <1>7, <1>13
  <2>5. i * size <= (j - 1) * size /\ (j - 1) * size \in Nat /\ i * size \in Nat
    BY <1>2, <2>4, Multiples
  <2>6. i * size = (i - 1) * size + size /\ (i - 1) * size \in Nat
    BY <1>2, <2>4
  <2>7. p < q
    BY <1>2, <2>2, <2>3, <2>5, <2>6
  <2> QED
    BY <1>5, <2>1, <2>7 DEF p, q
<1>14. \A k \in D : \E i \in 1 .. count : k \in DOMAIN chunks[i]
  <2> TAKE k \in D
  <2> DEFINE i == RankIn(D, k) \div size + 1
  <2>1. i \in 1 .. count
    BY <1>8
  <2>2. RankIn(D, k) \div size \in Nat
    BY <1>2, <1>4, <1>5, Quotient
  <2>3. RankIn(D, k) \div size = i - 1
    BY <2>2
  <2> HIDE DEF i
  <2>4. k \in Part(i)
    BY <2>3
  <2> QED
    BY <1>10, <2>1, <2>4
<1> HIDE DEF Part, count, chunks
<1>15. /\ IsFiniteSet(DOMAIN chunks)
       /\ \A i \in DOMAIN chunks :
             /\ chunks[i] \in Run /\ DOMAIN chunks[i] \subseteq D
             /\ \A k \in DOMAIN chunks[i] : chunks[i][k] = entries[k]
       /\ \A k \in D : \E i \in DOMAIN chunks : k \in DOMAIN chunks[i]
       /\ \A i, j \in DOMAIN chunks : i < j => Before(chunks[i], chunks[j])
  BY <1>10, <1>11, <1>12, <1>13, <1>14 DEF Part
<1> QED
  BY <1>1, <1>15 DEF D

\* Runs that are pairwise apart, in the order of their first keys.
LEMMA SortedRunsFacts ==
    ASSUME NEW R \in SUBSET Run, IsFiniteSet(R),
           \A t, u \in R : t = u \/ Before(t, u) \/ Before(u, t)
    PROVE  LET s == SortedRuns(R)
           IN  /\ s \in Seq(Run) /\ InSequence(s)
               /\ \A i \in DOMAIN s : s[i] \in R
               /\ \A t \in R : \E i \in DOMAIN s : s[i] = t
<1> DEFINE M == {MinKey(t) : t \in R}
           firsts == InOrder(M)
           s == [i \in DOMAIN firsts |-> CHOOSE t \in R : MinKey(t) = firsts[i]]
           n == Cardinality(M)
<1>1. s = SortedRuns(R)
  BY DEF SortedRuns
<1>2. \A t \in R : MinKey(t) \in DOMAIN t /\ DOMAIN t \subseteq Nat /\ MinKey(t) \in Nat
  BY RunFacts
<1>3. M \subseteq Nat
  BY <1>2
<1>4. IsFiniteSet(M)
  <2> DEFINE g == [t \in R |-> MinKey(t)]
  <2>1. g \in [R -> M] /\ \A y \in M : \E t \in R : g[t] = y
    OBVIOUS
  <2> HIDE DEF g, M
  <2>2. g \in Surjection(R, M)
    BY <2>1 DEF Surjection
  <2> QED
    BY <2>2, FS_Surjection
<1>5. /\ n \in Nat /\ firsts \in [1 .. n -> M]
      /\ \A m \in M : \E i \in 1 .. n : firsts[i] = m
      /\ \A i, j \in 1 .. n : i < j <=> firsts[i] < firsts[j]
  <2> HIDE DEF M
  <2> QED
    BY <1>3, <1>4, InOrderFacts
<1> HIDE DEF firsts, n
<1>6. DOMAIN s = 1 .. n
  BY <1>5
<1>7. ASSUME NEW i \in 1 .. n  PROVE s[i] \in R /\ MinKey(s[i]) = firsts[i]
  <2>1. firsts[i] \in M
    BY <1>5
  <2>2. \E t \in R : MinKey(t) = firsts[i]
    BY <2>1
  <2> QED
    BY <1>5, <2>2
<1>8. s = [i \in 1 .. n |-> s[i]]
  BY <1>5
<1>9. \A t \in R : MinKey(t) \in M
  OBVIOUS
<1> HIDE DEF s, M
<1>10. s \in Seq(Run)
  <2>1. s \in [1 .. n -> Run]
    BY <1>7, <1>8
  <2> QED
    BY <1>5, <2>1
\* The first keys tell which of two runs comes first.
<1>11. ASSUME NEW t \in R, NEW u \in R, Before(t, u)  PROVE MinKey(t) < MinKey(u)
  BY <1>2, <1>11 DEF Before
<1>12. InSequence(s)
  <2> SUFFICES ASSUME NEW i \in 1 .. n, NEW j \in 1 .. n, i < j  PROVE Before(s[i], s[j])
    BY <1>6 DEF InSequence
  <2>1. s[i] \in R /\ s[j] \in R /\ MinKey(s[i]) < MinKey(s[j])
    BY <1>5, <1>7
  <2>2. MinKey(s[i]) \in Nat /\ MinKey(s[j]) \in Nat
    BY <1>2, <2>1
  <2>3. s[i] # s[j] /\ ~(MinKey(s[j]) < MinKey(s[i]))
    BY <2>1, <2>2
  <2>4. ~Before(s[j], s[i])
    BY <1>11, <2>1, <2>3
  <2> QED
    BY <2>1, <2>3, <2>4
<1>13. ASSUME NEW t \in R  PROVE \E i \in 1 .. n : s[i] = t
  <2>1. PICK i \in 1 .. n : firsts[i] = MinKey(t)
    BY <1>5, <1>9
  <2>2. s[i] \in R /\ MinKey(s[i]) = MinKey(t) /\ MinKey(t) \in Nat
    BY <1>2, <1>7, <2>1
  <2>3. ~Before(s[i], t) /\ ~Before(t, s[i])
    BY <1>11, <2>2
  <2>4. s[i] = t
    BY <2>2, <2>3
  <2> QED
    BY <2>4
<1> QED
  BY <1>1, <1>6, <1>7, <1>10, <1>12, <1>13

LEMMA OfTwo ==
    ASSUME NEW a, NEW b
    PROVE  /\ DOMAIN Overlay(<<a, b>>) = DOMAIN a \union DOMAIN b
           /\ \A k \in DOMAIN a : Overlay(<<a, b>>)[k] = a[k]
           /\ \A k \in DOMAIN b \ DOMAIN a : Overlay(<<a, b>>)[k] = b[k]
<1> DEFINE two == <<a, b>>
<1>1. DOMAIN two = {1, 2} /\ two[1] = a /\ two[2] = b
  OBVIOUS
<1> HIDE DEF two
<1>2. DOMAIN two \subseteq Nat
  BY <1>1
<1>3. DOMAIN Overlay(two) = HeldIn(two)
  BY <1>2, OverlayFacts
<1>4. \A k : k \in HeldIn(two) <=> k \in DOMAIN a \/ k \in DOMAIN b
  BY <1>1, HeldFacts
<1>5. ASSUME NEW k \in DOMAIN a  PROVE Overlay(two)[k] = a[k]
  <2>1. \A j \in DOMAIN two : 1 <= j
    BY <1>1
  <2> QED
    BY <1>1, <1>2, <2>1, FirstHolds
<1>6. ASSUME NEW k \in DOMAIN b \ DOMAIN a  PROVE Overlay(two)[k] = b[k]
  <2>1. \A j \in DOMAIN two : k \in DOMAIN two[j] => 2 <= j
    BY <1>1, <1>6
  <2> QED
    BY <1>1, <1>2, <2>1, FirstHolds
<1> QED
  BY <1>3, <1>4, <1>5, <1>6 DEF two

\* The next level after the picked runs are merged into it; "forget" says whether
\* it is the last one.
MergedDown(picked, T, forget) ==
    LET keys    == HeldIn(picked)
        meeting == {i \in DOMAIN T : OverlapsWith(T[i], Min(keys), Max(keys))}
        apart   == DOMAIN T \ meeting
        merged  == Overlay(<<Overlay(picked), Overlay(Restrict(T, meeting))>>)
        kept    == IF forget
                   THEN Restrict(merged, {k \in DOMAIN merged : merged[k] # Tombstone})
                   ELSE merged
    IN  SortedRuns(Range(Restrict(T, apart)) \union Range(Chunks(kept)))

NoTombstones(tables) == \A i \in DOMAIN tables : \A k \in DOMAIN tables[i] : tables[i][k] # Tombstone

\* The merge answers for the picked runs where they hold the key, and as the level
\* did elsewhere; the runs that were left alone are still apart from the new ones.
LEMMA MergedDownFacts ==
    ASSUME NEW picked \in Seq(Run), HeldIn(picked) # {}, NEW T \in Seq(Run), InSequence(T),
           NEW forget \in BOOLEAN, forget => NoTombstones(T)
    PROVE  LET below == MergedDown(picked, T, forget)
           IN  /\ below \in Seq(Run) /\ InSequence(below)
               /\ forget => NoTombstones(below)
               /\ \A k \in HeldIn(picked) :
                     \/ Says(below, k) = Says(picked, k)
                     \/ forget /\ Says(picked, k) = Tombstone /\ Says(below, k) = Absent
               /\ \A k : k \notin HeldIn(picked) => Says(below, k) = Says(T, k)
<1> DEFINE keys    == HeldIn(picked)
           low     == Min(keys)
           high    == Max(keys)
           meeting == {i \in DOMAIN T : OverlapsWith(T[i], low, high)}
           apart   == DOMAIN T \ meeting
           upper   == Overlay(picked)
           met     == Restrict(T, meeting)
           lower   == Overlay(met)
           merged  == Overlay(<<upper, lower>>)
           kept    == IF forget
                      THEN Restrict(merged, {k \in DOMAIN merged : merged[k] # Tombstone})
                      ELSE merged
           rest    == Restrict(T, apart)
           chunks  == Chunks(kept)
           R       == Range(rest) \union Range(chunks)
           below   == SortedRuns(R)
<1>1. below = MergedDown(picked, T, forget)
  BY DEF MergedDown
<1> HIDE DEF below
\* The picked runs.
<1>2. DOMAIN picked \subseteq Nat /\ IsFiniteSet(DOMAIN picked)
      /\ \A i \in DOMAIN picked : picked[i] \in Run
  <2>1. DOMAIN picked = 1 .. Len(picked) /\ Len(picked) \in Nat
    BY LenProperties
  <2>2. IsFiniteSet(1 .. Len(picked))
    BY <2>1, FS_Interval
  <2>3. \A i \in 1 .. Len(picked) : picked[i] \in Run /\ i \in Nat
    BY <2>1, ElementOfSeq
  <2> QED
    BY <2>1, <2>2, <2>3
<1>3. DOMAIN T \subseteq Nat /\ IsFiniteSet(DOMAIN T) /\ \A i \in DOMAIN T : T[i] \in Run
  <2>1. DOMAIN T = 1 .. Len(T) /\ Len(T) \in Nat
    BY LenProperties
  <2>2. IsFiniteSet(1 .. Len(T))
    BY <2>1, FS_Interval
  <2>3. \A i \in 1 .. Len(T) : T[i] \in Run /\ i \in Nat
    BY <2>1, ElementOfSeq
  <2> QED
    BY <2>1, <2>2, <2>3
<1>4. DOMAIN upper = keys /\ \A k \in keys : /\ upper[k] = Says(picked, k)
                                             /\ upper[k] \in Entry /\ k \in Key
  BY <1>2, OverlayFacts, SaysFacts DEF Says
<1>5. IsFiniteSet(keys)
  <2>1. \A i \in DOMAIN picked : IsFiniteSet(DOMAIN picked[i])
    BY <1>2, RunFacts
  <2> QED
    BY <1>2, <2>1, HeldFinite
<1>6. low \in Nat /\ high \in Nat /\ \A k \in keys : k \in Nat /\ low <= k /\ k <= high
  <2>1. keys \subseteq Nat
    BY <1>4, LSMSizes
  <2> HIDE DEF keys
  <2> QED
    BY <1>5, <2>1, LeastOf, GreatestOf DEF keys
<1> HIDE DEF low, high, upper
\* The runs of the next level.
<1>7. ASSUME NEW i \in DOMAIN T
      PROVE  /\ DOMAIN T[i] \subseteq Key /\ DOMAIN T[i] \subseteq Nat /\ IsFiniteSet(DOMAIN T[i])
             /\ \A k \in DOMAIN T[i] : /\ T[i][k] \in Entry
                                       /\ MinKey(T[i]) <= k /\ k <= MaxKey(T[i])
             /\ MinKey(T[i]) \in DOMAIN T[i] /\ MaxKey(T[i]) \in DOMAIN T[i]
             /\ MinKey(T[i]) \in Nat /\ MaxKey(T[i]) \in Nat /\ MinKey(T[i]) <= MaxKey(T[i])
  <2> DEFINE t == T[i]
  <2>1. t \in Run
    BY <1>3
  <2> HIDE DEF t
  <2>2. /\ DOMAIN t \subseteq Key /\ DOMAIN t \subseteq Nat /\ IsFiniteSet(DOMAIN t)
        /\ \A k \in DOMAIN t : t[k] \in Entry /\ MinKey(t) <= k /\ k <= MaxKey(t)
        /\ MinKey(t) \in DOMAIN t /\ MaxKey(t) \in DOMAIN t
    BY <2>1, RunFacts
  <2> QED
    BY <2>2 DEF t
<1>8. \A i \in meeting : i \in DOMAIN T /\ ~(MaxKey(T[i]) < low) /\ ~(MinKey(T[i]) > high)
  BY DEF OverlapsWith
<1>9. \A i \in apart : i \in DOMAIN T /\ (MaxKey(T[i]) < low \/ MinKey(T[i]) > high)
  BY DEF OverlapsWith
<1>10. \A i \in DOMAIN T : i \in meeting \/ i \in apart
  OBVIOUS
<1>11. DOMAIN met = meeting /\ \A i \in meeting : met[i] = T[i]
  BY DEF Restrict
<1>12. DOMAIN rest = apart /\ \A i \in apart : rest[i] = T[i]
  BY DEF Restrict
<1>13. meeting \subseteq DOMAIN T /\ apart \subseteq DOMAIN T
  OBVIOUS
<1> HIDE DEF meeting, apart, met, rest
<1>14. IsFiniteSet(meeting) /\ IsFiniteSet(apart) /\ meeting \subseteq Nat
  BY <1>3, <1>13, FS_Subset
<1>15. /\ DOMAIN lower = HeldIn(met) /\ IsFiniteSet(DOMAIN lower)
       /\ \A k : k \in DOMAIN lower <=> \E i \in meeting : k \in DOMAIN T[i]
       /\ \A k \in DOMAIN lower : \E i \in meeting : k \in DOMAIN T[i] /\ lower[k] = T[i][k]
  <2>1. DOMAIN met \subseteq Nat
    BY <1>11, <1>14
  <2>2. DOMAIN lower = HeldIn(met)
    BY <2>1, OverlayFacts
  <2>3. \A k \in HeldIn(met) : \E i \in DOMAIN met : k \in DOMAIN met[i] /\ lower[k] = met[i][k]
    BY <2>1, OverlayFacts
  <2>4. \A k : k \in HeldIn(met) <=> \E i \in DOMAIN met : k \in DOMAIN met[i]
    BY HeldFacts
  <2>5. \A i \in DOMAIN met : IsFiniteSet(DOMAIN met[i])
    BY <1>7, <1>11, <1>13
  <2>6. IsFiniteSet(HeldIn(met))
    BY <1>11, <1>14, <2>5, HeldFinite
  <2> HIDE DEF lower
  <2> QED
    BY <1>11, <2>2, <2>3, <2>4, <2>6
<1> HIDE DEF lower
\* The merge.
<1>16. /\ DOMAIN merged = keys \union DOMAIN lower
       /\ \A k \in keys : merged[k] = upper[k]
       /\ \A k \in DOMAIN lower \ keys : merged[k] = lower[k]
  <2>1. /\ DOMAIN merged = DOMAIN upper \union DOMAIN lower
        /\ \A k \in DOMAIN upper : merged[k] = upper[k]
        /\ \A k \in DOMAIN lower \ DOMAIN upper : merged[k] = lower[k]
    BY OfTwo
  <2> HIDE DEF merged, keys
  <2> QED
    BY <1>4, <2>1
<1> HIDE DEF keys, merged
<1>17. \A k \in DOMAIN merged : k \in Key /\ k \in Nat /\ merged[k] \in Entry
  <2> TAKE k \in DOMAIN merged
  <2>1. CASE k \in keys
    BY <1>4, <1>6, <1>16, <2>1
  <2>2. CASE k \notin keys
    <3>1. k \in DOMAIN lower /\ merged[k] = lower[k]
      BY <1>16, <2>2
    <3>2. PICK i \in meeting : k \in DOMAIN T[i] /\ lower[k] = T[i][k]
      BY <1>15, <3>1
    <3> QED
      BY <1>7, <1>13, <3>1, <3>2
  <2> QED
    BY <2>1, <2>2
<1>18. /\ DOMAIN kept = IF forget THEN {k \in DOMAIN merged : merged[k] # Tombstone} ELSE DOMAIN merged
       /\ \A k \in DOMAIN kept : kept[k] = merged[k]
       /\ kept = [k \in DOMAIN kept |-> kept[k]]
  BY DEF Restrict, merged, Overlay
<1> HIDE DEF kept
<1>19. kept \in Partly(Key, Entry) /\ IsFiniteSet(DOMAIN kept) /\ DOMAIN kept \subseteq DOMAIN merged
  <2>1. DOMAIN kept \subseteq DOMAIN merged
    BY <1>18
  <2>2. IsFiniteSet(DOMAIN merged)
    <3>1. IsFiniteSet(keys \union DOMAIN lower)
      BY <1>5, <1>15, FS_Union
    <3> QED
      BY <1>16, <3>1
  <2>3. IsFiniteSet(DOMAIN kept)
    BY <2>1, <2>2, FS_Subset
  <2> QED
    BY <1>17, <1>18, <2>1, <2>3, PartlyFacts
<1>20. /\ IsFiniteSet(DOMAIN chunks)
       /\ \A i \in DOMAIN chunks :
             /\ chunks[i] \in Run /\ DOMAIN chunks[i] \subseteq DOMAIN kept
             /\ \A k \in DOMAIN chunks[i] : chunks[i][k] = kept[k]
       /\ \A k \in DOMAIN kept : \E i \in DOMAIN chunks : k \in DOMAIN chunks[i]
       /\ \A i, j \in DOMAIN chunks : i < j => Before(chunks[i], chunks[j])
  BY <1>19, ChunksFacts
<1>21. DOMAIN chunks \subseteq Nat
  BY DEF Chunks
<1> HIDE DEF chunks
\* A run left alone lies below, or above, every key of the merge.
<1>22. ASSUME NEW i \in apart
       PROVE  \/ \A a \in DOMAIN T[i], k \in DOMAIN merged : a < k
              \/ \A a \in DOMAIN T[i], k \in DOMAIN merged : k < a
  <2>1. i \in DOMAIN T /\ i \in Nat
    BY <1>3, <1>13
  <2>2. CASE MaxKey(T[i]) < low
    <3>1. ASSUME NEW a \in DOMAIN T[i], NEW k \in DOMAIN merged  PROVE a < k
      <4>1. a \in Nat /\ k \in Nat /\ a <= MaxKey(T[i]) /\ MaxKey(T[i]) \in Nat
        BY <1>7, <1>17, <2>1
      <4>2. CASE k \in keys
        BY <1>6, <2>2, <4>1, <4>2
      <4>3. CASE k \in DOMAIN lower
        <5>1. PICK j \in meeting : k \in DOMAIN T[j]
          BY <1>15, <4>3
        <5>2. j \in DOMAIN T /\ j \in Nat /\ ~(MaxKey(T[j]) < low)
          BY <1>3, <1>8, <5>1
        <5>3. i # j
          BY <2>2, <5>2
        <5>4. ~(j < i)
          <6> SUFFICES ASSUME j < i  PROVE FALSE
            OBVIOUS
          <6>1. MaxKey(T[j]) < MaxKey(T[i])
            BY <1>7, <2>1, <5>2 DEF InSequence, Before
          <6>2. MaxKey(T[j]) \in Nat
            BY <1>7, <5>2
          <6> QED
            BY <1>6, <2>2, <4>1, <5>2, <6>1, <6>2
        <5>5. i < j
          BY <2>1, <5>2, <5>3, <5>4
        <5> QED
          BY <2>1, <5>1, <5>2, <5>5 DEF InSequence, Before
      <4> QED
        BY <1>16, <4>2, <4>3
    <3> QED
      BY <3>1
  <2>3. CASE MinKey(T[i]) > high
    <3>1. ASSUME NEW a \in DOMAIN T[i], NEW k \in DOMAIN merged  PROVE k < a
      <4>1. a \in Nat /\ k \in Nat /\ MinKey(T[i]) <= a /\ MinKey(T[i]) \in Nat
        BY <1>7, <1>17, <2>1
      <4>2. CASE k \in keys
        BY <1>6, <2>3, <4>1, <4>2
      <4>3. CASE k \in DOMAIN lower
        <5>1. PICK j \in meeting : k \in DOMAIN T[j]
          BY <1>15, <4>3
        <5>2. j \in DOMAIN T /\ j \in Nat /\ ~(MinKey(T[j]) > high)
          BY <1>3, <1>8, <5>1
        <5>3. i # j
          BY <2>3, <5>2
        <5>4. ~(i < j)
          <6> SUFFICES ASSUME i < j  PROVE FALSE
            OBVIOUS
          <6>1. MinKey(T[i]) < MinKey(T[j])
            BY <1>7, <2>1, <5>2 DEF InSequence, Before
          <6>2. MinKey(T[j]) \in Nat
            BY <1>7, <5>2
          <6> QED
            BY <1>6, <2>3, <4>1, <5>2, <6>1, <6>2
        <5>5. j < i
          BY <2>1, <5>2, <5>3, <5>4
        <5> QED
          BY <2>1, <5>1, <5>2, <5>5 DEF InSequence, Before
      <4> QED
        BY <1>16, <4>2, <4>3
    <3> QED
      BY <3>1
  <2> QED
    BY <1>9, <2>2, <2>3
<1>23. \A i \in apart : \A k \in DOMAIN T[i] : k \notin DOMAIN merged
  <2> SUFFICES ASSUME NEW i \in apart, NEW k \in DOMAIN T[i], k \in DOMAIN merged  PROVE FALSE
    OBVIOUS
  <2>1. k < k /\ k \in Nat
    BY <1>17, <1>22
  <2> QED
    BY <2>1
\* The new runs of the level.
<1>24. \A t \in R : \/ \E i \in apart : t = T[i]
                    \/ \E i \in DOMAIN chunks : t = chunks[i]
  BY <1>12 DEF Range
<1>25. (\A i \in apart : T[i] \in R) /\ (\A i \in DOMAIN chunks : chunks[i] \in R)
  BY <1>12 DEF Range
<1>26. IsFiniteSet(R)
  BY <1>12, <1>14, <1>20, RangeFinite, FS_Union
<1> HIDE DEF R
<1>27. R \in SUBSET Run
  BY <1>3, <1>13, <1>20, <1>24
<1>28. ASSUME NEW t \in R, NEW u \in R  PROVE t = u \/ Before(t, u) \/ Before(u, t)
  <2>1. ASSUME NEW i \in apart, NEW j \in DOMAIN chunks
        PROVE  Before(T[i], chunks[j]) \/ Before(chunks[j], T[i])
    <3>1. \A k \in DOMAIN chunks[j] : k \in DOMAIN merged
      BY <1>19, <1>20
    <3> QED
      BY <1>22, <3>1 DEF Before
  <2>2. ASSUME NEW i \in apart, NEW j \in apart, t = T[i], u = T[j]
        PROVE  t = u \/ Before(t, u) \/ Before(u, t)
    <3>1. i \in DOMAIN T /\ j \in DOMAIN T /\ i \in Nat /\ j \in Nat
      BY <1>3, <1>13
    <3>2. i = j \/ i < j \/ j < i
      BY <3>1
    <3> QED
      BY <2>2, <3>1, <3>2 DEF InSequence
  <2>3. ASSUME NEW i \in DOMAIN chunks, NEW j \in DOMAIN chunks, t = chunks[i], u = chunks[j]
        PROVE  t = u \/ Before(t, u) \/ Before(u, t)
    <3>1. i = j \/ i < j \/ j < i
      BY <1>21
    <3> QED
      BY <1>20, <2>3, <3>1
  <2> QED
    BY <1>24, <2>1, <2>2, <2>3
<1>29. /\ below \in Seq(Run) /\ InSequence(below)
       /\ \A i \in DOMAIN below : below[i] \in R
       /\ \A t \in R : \E i \in DOMAIN below : below[i] = t
  BY <1>26, <1>27, <1>28, SortedRunsFacts DEF below
\* What the level says now.
<1>30. ASSUME NEW k, NEW t \in R, k \in DOMAIN t  PROVE Says(below, k) = t[k]
  BY <1>29, <1>30, SaysFacts
<1>31. ASSUME NEW k, \A t \in R : k \notin DOMAIN t  PROVE Says(below, k) = Absent
  BY <1>29, <1>31, SaysFacts
<1>32. ASSUME NEW k \in DOMAIN kept  PROVE Says(below, k) = merged[k]
  <2>1. PICK i \in DOMAIN chunks : k \in DOMAIN chunks[i]
    BY <1>20
  <2>2. Says(below, k) = chunks[i][k]
    BY <1>25, <1>30, <2>1
  <2> QED
    BY <1>18, <1>20, <2>1, <2>2
<1>33. ASSUME NEW k, k \notin DOMAIN kept, \A i \in apart : k \notin DOMAIN T[i]
       PROVE  Says(below, k) = Absent
  BY <1>20, <1>24, <1>31, <1>33
<1>34. ASSUME NEW k \in keys
       PROVE  \/ Says(below, k) = Says(picked, k)
              \/ forget /\ Says(picked, k) = Tombstone /\ Says(below, k) = Absent
  <2>1. k \in DOMAIN merged /\ merged[k] = Says(picked, k)
    BY <1>4, <1>16
  <2>2. CASE k \in DOMAIN kept
    BY <1>32, <2>1, <2>2
  <2>3. CASE k \notin DOMAIN kept
    <3>1. forget /\ merged[k] = Tombstone
      BY <1>18, <2>1, <2>3
    <3>2. Says(below, k) = Absent
      BY <1>23, <1>33, <2>1, <2>3
    <3> QED
      BY <2>1, <3>1, <3>2
  <2> QED
    BY <2>2, <2>3
<1>35. ASSUME NEW k, k \notin keys  PROVE Says(below, k) = Says(T, k)
  <2>1. \A i \in DOMAIN T : k \in DOMAIN T[i] => Says(T, k) = T[i][k]
    BY SaysFacts
  <2>2. (\A i \in DOMAIN T : k \notin DOMAIN T[i]) => Says(T, k) = Absent
    BY SaysFacts
  <2>3. CASE k \in DOMAIN lower
    <3>1. PICK i \in meeting : k \in DOMAIN T[i] /\ lower[k] = T[i][k]
      BY <1>15, <2>3
    <3>2. i \in DOMAIN T /\ Says(T, k) = T[i][k]
      BY <1>13, <2>1, <3>1
    <3>3. k \in DOMAIN merged /\ merged[k] = T[i][k]
      BY <1>16, <1>35, <2>3, <3>1
    <3>4. forget => T[i][k] # Tombstone
      BY <3>1, <3>2 DEF NoTombstones
    <3>5. k \in DOMAIN kept
      BY <1>18, <3>3, <3>4
    <3> QED
      BY <1>32, <3>2, <3>3, <3>5
  <2>4. CASE \E i \in apart : k \in DOMAIN T[i]
    <3>1. PICK i \in apart : k \in DOMAIN T[i]
      BY <2>4
    <3> QED
      BY <1>13, <1>25, <1>30, <2>1, <3>1
  <2>5. CASE k \notin DOMAIN lower /\ ~\E i \in apart : k \in DOMAIN T[i]
    <3>1. k \notin DOMAIN kept
      BY <1>16, <1>19, <1>35, <2>5
    <3>2. Says(below, k) = Absent
      BY <1>33, <2>5, <3>1
    <3>3. \A i \in DOMAIN T : k \notin DOMAIN T[i]
      BY <1>10, <1>15, <2>5
    <3> QED
      BY <2>2, <3>2, <3>3
  <2> QED
    BY <2>3, <2>4, <2>5
<1>36. ASSUME forget  PROVE NoTombstones(below)
  <2> SUFFICES ASSUME NEW j \in DOMAIN below, NEW k \in DOMAIN below[j]
               PROVE  below[j][k] # Tombstone
    BY DEF NoTombstones
  <2>1. CASE \E i \in apart : below[j] = T[i]
    BY <1>13, <1>36, <2>1 DEF NoTombstones
  <2>2. CASE \E i \in DOMAIN chunks : below[j] = chunks[i]
    <3>1. k \in DOMAIN kept /\ below[j][k] = kept[k]
      BY <1>20, <2>2
    <3> QED
      BY <1>18, <1>36, <3>1
  <2> QED
    BY <1>24, <1>29, <2>1, <2>2
<1> QED
  BY <1>1, <1>29, <1>34, <1>35, <1>36 DEF keys

\* The first run of a level taken away.
LEMMA TailFacts ==
    ASSUME NEW T \in Seq(Run), T # << >>, InSequence(T)
    PROVE  /\ Head(T) \in Run /\ Tail(T) \in Seq(Run) /\ InSequence(Tail(T))
           /\ \A i \in DOMAIN Tail(T) : \E j \in DOMAIN T : Tail(T)[i] = T[j]
           /\ \A k \in DOMAIN Head(T) : Says(T, k) = Head(T)[k] /\ Says(Tail(T), k) = Absent
           /\ \A k : k \notin DOMAIN Head(T) => Says(Tail(T), k) = Says(T, k)
<1> DEFINE h == Head(T)
           r == Tail(T)
<1>1. /\ Len(T) \in Nat /\ Len(T) > 0 /\ h = T[1] /\ h \in Run
      /\ r \in Seq(Run) /\ Len(r) = Len(T) - 1 /\ \A i \in 1 .. Len(T) - 1 : r[i] = T[i + 1]
  <2>1. Len(T) \in Nat /\ Len(T) > 0
    BY EmptySeq, LenProperties
  <2> QED
    BY <2>1, HeadTailProperties
<1>2. DOMAIN T = 1 .. Len(T) /\ DOMAIN r = 1 .. Len(T) - 1
  BY <1>1, LenProperties
<1> HIDE DEF h, r
<1>3. ASSUME NEW i \in DOMAIN r  PROVE i + 1 \in DOMAIN T /\ r[i] = T[i + 1] /\ i + 1 # 1 /\ i \in Nat
  BY <1>1, <1>2
<1>4. ASSUME NEW j \in DOMAIN T, j # 1  PROVE j - 1 \in DOMAIN r /\ r[j - 1] = T[j]
  <2>1. j - 1 \in 1 .. Len(T) - 1 /\ j - 1 + 1 = j
    BY <1>1, <1>2, <1>4
  <2> QED
    BY <1>1, <1>2, <2>1
<1>5. InSequence(r)
  <2> SUFFICES ASSUME NEW i \in DOMAIN r, NEW j \in DOMAIN r, i < j  PROVE Before(r[i], r[j])
    BY DEF InSequence
  <2>1. i + 1 < j + 1
    BY <1>3
  <2> QED
    BY <1>3, <2>1 DEF InSequence
<1>6. 1 \in DOMAIN T /\ T[1] = h
  BY <1>1, <1>2
<1>7. ASSUME NEW k \in DOMAIN h  PROVE Says(T, k) = h[k] /\ Says(r, k) = Absent
  <2>1. Says(T, k) = h[k] /\ \A j \in DOMAIN T : k \in DOMAIN T[j] => j = 1
    BY <1>6, SaysFacts
  <2>2. \A i \in DOMAIN r : k \notin DOMAIN r[i]
    BY <1>3, <2>1
  <2> QED
    BY <1>1, <2>1, <2>2, SaysFacts
<1>8. ASSUME NEW k, k \notin DOMAIN h  PROVE Says(r, k) = Says(T, k)
  <2>1. CASE \E j \in DOMAIN T : k \in DOMAIN T[j]
    <3>1. PICK j \in DOMAIN T : k \in DOMAIN T[j]
      BY <2>1
    <3>2. j # 1
      BY <1>6, <1>8, <3>1
    <3>3. j - 1 \in DOMAIN r /\ r[j - 1] = T[j]
      BY <1>4, <3>2
    <3>4. Says(T, k) = T[j][k]
      BY <3>1, SaysFacts
    <3>5. Says(r, k) = r[j - 1][k]
      BY <1>1, <1>5, <3>1, <3>3, SaysFacts
    <3> QED
      BY <3>3, <3>4, <3>5
  <2>2. CASE ~\E j \in DOMAIN T : k \in DOMAIN T[j]
    <3>1. \A i \in DOMAIN r : k \notin DOMAIN r[i]
      BY <1>3, <2>2
    <3>2. Says(r, k) = Absent
      BY <1>1, <3>1, SaysFacts
    <3>3. Says(T, k) = Absent
      BY <2>2, SaysFacts
    <3> QED
      BY <3>2, <3>3
  <2> QED
    BY <2>1, <2>2
<1> QED
  BY <1>1, <1>3, <1>5, <1>7, <1>8 DEF h, r

LastLevel == MaxLevels - 1
Compaction == [levels : [Level -> Seq(Run)], level : Level]
LevelsKept(ls) == LevelsInSequence(ls) /\ NoTombstones(ls[LastLevel])

LEMMA EmptyLevel == << >> \in Seq(Run) /\ Len(<< >>) = 0 /\ \A k : Says(<< >>, k) = Absent
<1>1. << >> \in Seq(Run) /\ Len(<< >>) = 0 /\ DOMAIN << >> = {}
  OBVIOUS
<1>2. HeldIn(<< >>) = {}
  BY <1>1 DEF HeldIn
<1> QED
  BY <1>1, <1>2 DEF Says

\* One compaction: the runs of every level stay in sequence, and what get() makes
\* of the levels does not change.
LEMMA CompactStep ==
    ASSUME NEW s \in Compaction, LevelsKept(s.levels)
    PROVE  LET n == CompactLevel(s)
           IN  /\ n \in Compaction /\ LevelsKept(n.levels)
               /\ \A k : Shown(LevelsSay(n.levels, k)) = Shown(LevelsSay(s.levels, k))
               /\ s.level = 0 \/ Len(s.levels[0]) = 0 => Len(n.levels[0]) = 0
<1> DEFINE n == CompactLevel(s)
           level == s.level
           ls == s.levels
           tables == ls[level]
<1>1. /\ level \in Level /\ ls \in [Level -> Seq(Run)] /\ s = [levels |-> ls, level |-> level]
      /\ \A l \in Level \ {0} : InSequence(ls[l])
      /\ NoTombstones(ls[LastLevel])
  BY DEF Compaction, LevelsKept, LevelsInSequence
<1>2. /\ Level \subseteq Nat /\ 0 \in Level /\ MaxLevels \in Nat /\ MaxLevels > 1
      /\ LastLevel \in Level /\ LastLevel # 0
  BY LevelFacts DEF Level, LastLevel
<1>3. CASE level >= MaxLevels - 1 \/ tables = << >>
  <2>1. n = s
    BY <1>3 DEF CompactLevel
  <2>2. level = 0 => Len(ls[0]) = 0
    <3> SUFFICES ASSUME level = 0  PROVE Len(ls[0]) = 0
      OBVIOUS
    <3>1. ~(level >= MaxLevels - 1)
      BY <1>2
    <3> QED
      BY <1>3, <3>1, EmptyLevel
  <2> QED
    BY SMTT(40), <2>1, <2>2
<1>4. CASE ~(level >= MaxLevels - 1) /\ tables # << >>
  <2> DEFINE next == level + 1
             picked == IF level = 0 THEN tables ELSE <<Head(tables)>>
             T == ls[next]
             forget == next = MaxLevels - 1
             below == MergedDown(picked, T, forget)
             left == IF level = 0 THEN << >> ELSE Tail(tables)
             ms == [ls EXCEPT ![level] = left, ![next] = below]
  <2>1. /\ next \in Level /\ next # 0 /\ next # level /\ level \in Nat
        /\ forget <=> next = LastLevel
    BY SMTT(40), <1>1, <1>2, <1>4 DEF Level, LastLevel
  <2>2. n = [levels |-> ms, level |-> IF Overfull(next, below) THEN next ELSE MaxLevels - 1]
    BY <1>1, <1>4 DEF CompactLevel, MergedDown
  <2>3. T \in Seq(Run) /\ InSequence(T) /\ tables \in Seq(Run) /\ (level # 0 => InSequence(tables))
    BY <1>1, <2>1
  <2>4. forget \in BOOLEAN /\ (forget => NoTombstones(T))
    BY <1>1, <2>1
  <2> HIDE DEF next, T, forget, tables, ls, level
  \* What is picked, and what is left of the level.
  <2>5. /\ left \in Seq(Run) /\ (level # 0 => InSequence(left)) /\ (level = 0 => Len(left) = 0)
        /\ picked \in Seq(Run) /\ HeldIn(picked) # {}
        /\ \A k : k \in HeldIn(picked) => Says(tables, k) = Says(picked, k) /\ Says(left, k) = Absent
        /\ \A k : k \notin HeldIn(picked) => Says(left, k) = Says(tables, k)
    <3>1. CASE level = 0
      <4>1. left = << >> /\ picked = tables
        BY <3>1
      <4>2. 1 \in DOMAIN tables /\ tables[1] \in Run
        <5>1. Len(tables) \in Nat /\ Len(tables) > 0
          BY <1>4, <2>3, EmptySeq, LenProperties DEF tables, ls, level
        <5>2. 1 \in 1 .. Len(tables)
          BY <5>1
        <5> QED
          BY <2>3, <5>2, ElementOfSeq, LenProperties
      <4>3. PICK k : k \in DOMAIN tables[1]
        BY <4>2, RunFacts
      <4>4. k \in HeldIn(tables)
        BY <4>2, <4>3, HeldFacts
      <4>5. \A j : j \notin HeldIn(tables) => Says(tables, j) = Absent
        BY DEF Says
      <4> HIDE DEF left, picked
      <4> QED
        BY <2>3, <3>1, <4>1, <4>4, <4>5, EmptyLevel
    <3>2. CASE level # 0
      <4> DEFINE h == Head(tables)
      <4>1. left = Tail(tables) /\ picked = <<h>>
        BY <3>2
      <4>2. /\ h \in Run /\ left \in Seq(Run) /\ InSequence(left)
            /\ \A k \in DOMAIN h : Says(tables, k) = h[k] /\ Says(left, k) = Absent
            /\ \A k : k \notin DOMAIN h => Says(left, k) = Says(tables, k)
        <5>1. tables # << >>
          BY <1>4 DEF tables, ls, level
        <5> QED
          BY <2>3, <3>2, <4>1, <5>1, TailFacts
      <4> HIDE DEF h, left
      <4>3. <<h>> \in Seq(Run) /\ DOMAIN <<h>> = {1} /\ <<h>>[1] = h
        BY <4>2
      <4>4. \A k : k \in HeldIn(<<h>>) <=> k \in DOMAIN h
        BY <4>3, HeldFacts
      <4>5. \A k \in DOMAIN h : Overlay(<<h>>)[k] = h[k]
        BY <4>3, FirstHolds
      <4>6. \A k \in DOMAIN h : Says(<<h>>, k) = h[k]
        BY <4>4, <4>5 DEF Says
      <4>7. DOMAIN h # {}
        BY <4>2, RunFacts
      <4> HIDE DEF picked
      <4> QED
        BY <3>2, <4>1, <4>2, <4>3, <4>4, <4>6, <4>7
    <3> QED
      BY <3>1, <3>2
  <2> HIDE DEF left, picked
  <2>6. /\ below \in Seq(Run) /\ InSequence(below) /\ (forget => NoTombstones(below))
        /\ \A k \in HeldIn(picked) :
              \/ Says(below, k) = Says(picked, k)
              \/ forget /\ Says(picked, k) = Tombstone /\ Says(below, k) = Absent
        /\ \A k : k \notin HeldIn(picked) => Says(below, k) = Says(T, k)
    <3>1. /\ picked \in Seq(Run) /\ HeldIn(picked) # {}
          /\ T \in Seq(Run) /\ InSequence(T) /\ forget \in BOOLEAN
          /\ (forget => NoTombstones(T))
      BY <2>3, <2>4, <2>5
    <3> QED
      BY ONLY <3>1, MergedDownFacts
  <2> HIDE DEF below
  \* The levels afterwards.
  <2>7. /\ ms \in [Level -> Seq(Run)] /\ ms[level] = left /\ ms[next] = below
        /\ \A l \in Level : l # level /\ l # next => ms[l] = ls[l]
    <3>1. level \in Level /\ ls \in [Level -> Seq(Run)]
      BY <1>1 DEF ls, level
    <3> QED
      BY <2>1, <2>5, <2>6, <3>1
  <2> HIDE DEF ms
  <2>8. n.levels = ms /\ n \in Compaction
    <3>1. (IF Overfull(next, below) THEN next ELSE MaxLevels - 1) \in Level
      BY <1>2, <2>1 DEF LastLevel
    <3> QED
      BY <2>2, <2>7, <3>1 DEF Compaction
  <2>9. \A l \in Level \ {0} : InSequence(ms[l])
    <3> TAKE l \in Level \ {0}
    <3>1. CASE l = level
      BY <2>5, <2>7, <3>1
    <3>2. CASE l = next
      BY <2>6, <2>7, <3>2
    <3>3. CASE l # level /\ l # next
      BY <1>1, <2>7, <3>3 DEF ls
    <3> QED
      BY <3>1, <3>2, <3>3
  <2>10. NoTombstones(ms[LastLevel])
    <3>1. CASE forget
      BY <2>1, <2>6, <2>7, <3>1
    <3>2. CASE ~forget
      <4>1. LastLevel # level
        BY <1>2, <1>4 DEF LastLevel, level
      <4>2. LastLevel # next
        BY <2>1, <3>2
      <4> QED
        BY <1>1, <1>2, <2>7, <4>1, <4>2 DEF ls
    <3> QED
      BY <3>1, <3>2
  <2>11. ASSUME NEW k  PROVE Shown(LevelsSay(ms, k)) = Shown(LevelsSay(ls, k))
    <3> DEFINE f == [l \in Level |-> Says(ls[l], k)]
               g == [l \in Level |-> Says(ms[l], k)]
               old == IF f[level] # Absent THEN f[level] ELSE f[next]
               new == IF g[level] # Absent THEN g[level] ELSE g[next]
    <3>1. f = [l \in Level |-> f[l]] /\ g = [l \in Level |-> g[l]]
      OBVIOUS
    <3>2. level \in Level
      BY <1>1 DEF level
    <3>3. /\ f[level] = Says(tables, k) /\ f[next] = Says(T, k)
          /\ g[level] = Says(left, k) /\ g[next] = Says(below, k)
      BY <2>1, <2>7, <3>2 DEF tables, T
    <3>4. \A l \in Level : l # level /\ l # next => f[l] = g[l]
      BY <2>7
    <3> HIDE DEF f, g
    <3>5. CASE k \in HeldIn(picked)
      <4>1. Says(picked, k) # Absent /\ Says(tables, k) = Says(picked, k) /\ Says(left, k) = Absent
        BY <2>5, <3>5, SaysFacts
      <4>2. old = Says(picked, k) /\ new = Says(below, k)
        BY <3>3, <4>1
      <4>3. \/ Says(below, k) = Says(picked, k)
            \/ forget /\ Says(picked, k) = Tombstone /\ Says(below, k) = Absent
        BY <2>6, <3>5
      <4> HIDE DEF old, new
      <4> QED
        <5>1. old = new \/ (forget /\ old = Tombstone /\ new = Absent)
          BY <4>2, <4>3
        <5>2. forget <=> level + 1 = MaxLevels - 1
          BY DEF forget, next
        <5>3. Shown(FirstAnswer(f)) = Shown(FirstAnswer(g))
          BY <2>1, <3>1, <3>2, <3>4, <5>1, <5>2, NeighboursAnswer DEF old, new, next
        <5> QED
          BY <5>3 DEF LevelsSay, f, g
    <3>6. CASE k \notin HeldIn(picked)
      <4>1. Says(left, k) = Says(tables, k) /\ Says(below, k) = Says(T, k)
        BY <2>5, <2>6, <3>6
      <4>2. f[level] = g[level] /\ f[next] = g[next]
        BY <3>3, <4>1
      <4>3. \A l \in Level : f[l] = g[l]
        BY <3>4, <4>2
      <4>4. f = g
        BY <3>1, <4>3
      <4> QED
        BY <4>4 DEF LevelsSay, f, g
    <3> QED
      BY <3>5, <3>6
  <2>12. level = 0 \/ Len(ls[0]) = 0 => Len(ms[0]) = 0
    <3>1. CASE level = 0
      BY <2>5, <2>7, <3>1
    <3>2. CASE level # 0
      BY <1>2, <2>1, <2>7, <3>2
    <3> QED
      BY <3>1, <3>2
  <2> QED
    BY <2>7, <2>8, <2>9, <2>10, <2>11, <2>12 DEF LevelsKept, LevelsInSequence, ls, level
<1> QED
  BY <1>3, <1>4

IsCompaction(f, ls) ==
    f = [n \in 0 .. MaxLevels - 1 |->
            IF n = 0 THEN [levels |-> ls, level |-> 0] ELSE CompactLevel(f[n - 1])]

\* The whole compaction empties level 0 and hides nothing.
LEMMA CompactedLevelsFacts ==
    ASSUME NEW ls, LevelsKept(ls)
    PROVE  LET ms == CompactedLevels(ls)
           IN  /\ LevelsKept(ms) /\ Len(ms[0]) = 0
               /\ \A k : Shown(LevelsSay(ms, k)) = Shown(LevelsSay(ls, k))
<1> DEFINE N == MaxLevels - 1
           after == CHOOSE f : IsCompaction(f, ls)
           start == [levels |-> ls, level |-> 0]
           Good(s) == /\ LevelsKept(s.levels)
                      /\ \A k : Shown(LevelsSay(s.levels, k)) = Shown(LevelsSay(ls, k))
                      /\ s.level = 0 \/ Len(s.levels[0]) = 0
           St == {s \in Compaction : Good(s)}
<1>1. CompactedLevels(ls) = after[N].levels
  BY DEF CompactedLevels, IsCompaction
<1>2. N \in Nat /\ N > 0 /\ 0 \in Level
  BY LevelFacts
<1>3. start \in St
  <2>1. ls \in [Level -> Seq(Run)]
    BY DEF LevelsKept, LevelsInSequence
  <2>2. start \in Compaction /\ start.levels = ls /\ start.level = 0
    BY <1>2, <2>1 DEF Compaction
  <2> HIDE DEF start
  <2> QED
    BY <2>2
<1>4. ASSUME NEW s \in St  PROVE CompactLevel(s) \in St /\ Len(CompactLevel(s).levels[0]) = 0
  <2> DEFINE n == CompactLevel(s)
  <2>1. /\ s \in Compaction /\ LevelsKept(s.levels)
        /\ \A k : Shown(LevelsSay(s.levels, k)) = Shown(LevelsSay(ls, k))
        /\ s.level = 0 \/ Len(s.levels[0]) = 0
    OBVIOUS
  <2> HIDE DEF n, St
  <2>2. /\ n \in Compaction /\ LevelsKept(n.levels)
        /\ \A k : Shown(LevelsSay(n.levels, k)) = Shown(LevelsSay(s.levels, k))
        /\ Len(n.levels[0]) = 0
    BY <2>1, CompactStep DEF n
  <2>3. \A k : Shown(LevelsSay(n.levels, k)) = Shown(LevelsSay(ls, k))
    BY <2>1, <2>2
  <2>4. n \in St
    BY <2>2, <2>3 DEF St
  <2> QED
    BY <2>2, <2>4 DEF n
<1> HIDE DEF N, start
<1>5. \E f : IsCompaction(f, ls)
  <2> DEFINE step == [x \in (1 .. N) \X St |-> CompactLevel(x[2])]
  <2>1. \A s \in St : CompactLevel(s) \in St
    BY <1>4
  <2> HIDE DEF St
  <2>2. step \in [(1 .. N) \X St -> St]
    <3>1. \A x \in (1 .. N) \X St : x[2] \in St
      OBVIOUS
    <3> QED
      BY <2>1, <3>1
  <2>3. ASSUME NEW n \in 1 .. N, NEW s \in St  PROVE step[<<n, s>>] = CompactLevel(s)
    OBVIOUS
  <2> HIDE DEF step
  <2>4. PICK f \in [0 .. N -> St] : Repeats(f, start, N, step)
    BY ONLY <1>2, <1>3, <2>2, Rounds
  <2>5. \A n \in 1 .. N : n - 1 \in 0 .. N
    BY <1>2
  <2>6. \A n \in 1 .. N : f[n] = CompactLevel(f[n - 1])
    BY <2>3, <2>4, <2>5 DEF Repeats
  <2>7. \A n \in 0 .. N : n = 0 \/ n \in 1 .. N
    BY <1>2
  <2>8. \A n \in 0 .. N : f[n] = IF n = 0 THEN start ELSE CompactLevel(f[n - 1])
    BY <2>4, <2>6, <2>7 DEF Repeats
  <2>9. IsCompaction(f, ls)
    BY <2>4, <2>8 DEF IsCompaction, start, N
  <2> QED
    BY <2>9
<1>6. IsCompaction(after, ls)
  BY <1>5
<1> HIDE DEF after, St
<1>7. after[0] = start /\ \A n \in 1 .. N : after[n] = CompactLevel(after[n - 1])
  <2>1. \A n \in 1 .. N : n \in 0 .. N /\ n # 0
    BY <1>2
  <2>2. 0 \in 0 .. N
    BY <1>2
  <2>3. \A n \in 0 .. N : after[n] = IF n = 0 THEN start ELSE CompactLevel(after[n - 1])
    BY <1>6 DEF IsCompaction, start, N
  <2> QED
    BY <2>1, <2>2, <2>3
<1> DEFINE sound == {n \in 0 .. N : after[n] \in St}
<1>8. 0 .. N \subseteq sound
  <2>1. 0 \in sound
    BY <1>2, <1>3, <1>7
  <2>2. ASSUME NEW n \in 1 .. N, n - 1 \in sound  PROVE n \in sound
    <3>1. n \in 0 .. N /\ after[n - 1] \in St
      BY <1>2, <2>2
    <3> QED
      BY <1>4, <1>7, <3>1
  <2> HIDE DEF sound
  <2> QED
    BY <1>2, <2>1, <2>2, UpTo
<1>9. N - 1 \in 0 .. N /\ N \in 1 .. N /\ N \in 0 .. N /\ N - 1 \in Nat
  BY <1>2
<1>10. after[N] = CompactLevel(after[N - 1]) /\ after[N - 1] \in St
  BY <1>7, <1>8, <1>9
<1>11. after[N] \in St /\ Len(after[N].levels[0]) = 0
  BY <1>4, <1>10
<1> QED
  BY <1>1, <1>11 DEF St
-----------------------------------------------------------------------------
(* Proof: the LSM tree answers with the last value put *)

\* What the memtable and the levels say of a key.
TreeEntry(m, ls, k) == IF k \in DOMAIN m THEN m[k] ELSE LevelsSay(ls, k)

LSMInv ==
    /\ memtable \in Partly(Key, Entry) /\ IsFiniteSet(DOMAIN memtable) /\ wal = memtable
    /\ LevelsKept(levels) /\ Len(levels[0]) < L0CompactionThreshold
    /\ kv \in [Key -> Value \union {NoValue}]
    /\ \A k \in Key : Shown(TreeEntry(memtable, levels, k)) = kv[k]

LEMMA NoEntriesFacts ==
    /\ NoEntries \in Partly(Key, Entry) /\ DOMAIN NoEntries = {} /\ IsFiniteSet(DOMAIN NoEntries)
    /\ \A ls, k : TreeEntry(NoEntries, ls, k) = LevelsSay(ls, k)
<1>1. NoEntries \in Partly(Key, Entry) /\ DOMAIN NoEntries = {}
  <2> DEFINE t == NoEntries
  <2>1. t = [k \in DOMAIN t |-> t[k]] /\ DOMAIN t = {}
    BY DEF NoEntries
  <2> HIDE DEF t
  <2>2. t \in Partly(Key, Entry)
    BY <2>1, PartlyFacts
  <2> QED
    BY <2>1, <2>2 DEF t
<1>2. IsFiniteSet({})
  BY FS_EmptySet
<1> QED
  BY <1>1, <1>2 DEF TreeEntry

LEMMA LSMInvInit == AMInit /\ LSMInit => LSMInv
<1> SUFFICES ASSUME AMInit, LSMInit  PROVE LSMInv
  OBVIOUS
<1>1. /\ memtable = NoEntries /\ wal = NoEntries /\ kv = [k \in Key |-> NoValue]
      /\ levels = [l \in Level |-> << >>]
  BY DEF LSMInit, AMInit
<1>2. levels \in [Level -> Seq(Run)] /\ \A l \in Level : levels[l] = << >>
  BY <1>1, EmptyLevel
<1>3. DOMAIN << >> = {}
  OBVIOUS
<1>4. 0 \in Level /\ LastLevel \in Level
  BY LevelFacts DEF Level, LastLevel
<1>5. \A l \in Level : InSequence(levels[l]) /\ NoTombstones(levels[l])
  BY <1>2, <1>3 DEF InSequence, NoTombstones
<1>6. LevelsKept(levels)
  BY <1>2, <1>4, <1>5 DEF LevelsKept, LevelsInSequence
<1>7. Len(levels[0]) < L0CompactionThreshold
  BY <1>2, <1>4, EmptyLevel, LSMSizes
<1>8. ASSUME NEW k \in Key  PROVE Shown(TreeEntry(memtable, levels, k)) = kv[k]
  <2> DEFINE f == [l \in Level |-> Says(levels[l], k)]
  <2>1. DOMAIN f = Level /\ DOMAIN f \subseteq Nat
    BY LevelFacts
  <2>2. \A l \in Level : f[l] = Absent
    BY <1>2, EmptyLevel
  <2> HIDE DEF f
  <2>3. FirstAnswer(f) = Absent
    BY <2>1, <2>2, FirstAnswerIs
  <2>4. LevelsSay(levels, k) = Absent
    BY <2>3 DEF LevelsSay, f
  <2> QED
    BY <1>1, <2>4, NoEntriesFacts DEF Shown
<1> QED
  BY <1>1, <1>6, <1>7, <1>8, NoEntriesFacts DEF LSMInv

\* flush_memtable(): the memtable becomes the newest run of level 0.
LEMMA FlushStep ==
    ASSUME NEW m \in Run, LevelsKept(levels), Len(levels[0]) < L0CompactionThreshold,
           FlushMemtable(m),
           kv' \in [Key -> Value \union {NoValue}],
           \A k \in Key : Shown(TreeEntry(m, levels, k)) = kv'[k]
    PROVE  LSMInv'
<1> DEFINE new == <<m>> \o levels[0]
           ls == [levels EXCEPT ![0] = new]
<1>1. /\ levels \in [Level -> Seq(Run)]
      /\ \A l \in Level \ {0} : InSequence(levels[l])
      /\ NoTombstones(levels[LastLevel])
  BY DEF LevelsKept, LevelsInSequence
<1>2. 0 \in Level /\ LastLevel \in Level /\ LastLevel # 0 /\ Level \subseteq Nat
  BY LevelFacts DEF Level, LastLevel
<1>3. levels' = (IF Len(ls[0]) >= L0CompactionThreshold THEN CompactedLevels(ls) ELSE ls)
      /\ memtable' = NoEntries /\ wal' = NoEntries
  BY DEF FlushMemtable
<1>4. levels[0] \in Seq(Run)
  BY <1>1, <1>2
<1>5. /\ new \in Seq(Run)
      /\ HeldIn(new) = DOMAIN m \union HeldIn(levels[0])
      /\ \A k \in DOMAIN m : Overlay(new)[k] = m[k]
      /\ \A k \in HeldIn(levels[0]) \ DOMAIN m : Overlay(new)[k] = Overlay(levels[0])[k]
  BY <1>4, LaidOn
<1> HIDE DEF new
<1>6. /\ ls \in [Level -> Seq(Run)] /\ ls[0] = new
      /\ \A l \in Level : l # 0 => ls[l] = levels[l]
  BY <1>1, <1>2, <1>5
<1> HIDE DEF ls
<1>7. LevelsKept(ls)
  <2>1. ls[LastLevel] = levels[LastLevel]
    BY <1>2, <1>6
  <2>2. \A l \in Level \ {0} : InSequence(ls[l])
    BY <1>1, <1>6
  <2> QED
    BY <1>1, <1>6, <2>1, <2>2 DEF LevelsKept, LevelsInSequence
<1>8. ASSUME NEW k  PROVE LevelsSay(ls, k) = TreeEntry(m, levels, k)
  <2> DEFINE f == [l \in Level |-> Says(levels[l], k)]
             g == [l \in Level |-> Says(ls[l], k)]
  <2>1. \A l \in Level : l # 0 => g[l] = f[l]
    BY <1>6
  <2>2. /\ g[0] = IF k \in DOMAIN m THEN m[k] ELSE f[0]
    BY <1>2, <1>5, <1>6 DEF Says
  <2>3. CASE k \in DOMAIN m
    <3>1. g[0] # Absent /\ 0 \in DOMAIN g /\ DOMAIN g \subseteq Nat
      BY <1>2, <2>2, <2>3, RunFacts
    <3> HIDE DEF f, g
    <3>2. \A j \in DOMAIN g : ~(j < 0)
      BY <3>1
    <3>3. FirstAnswer(g) = g[0]
      BY <3>1, <3>2, FirstAnswerIs
    <3> QED
      BY <2>2, <2>3, <3>3 DEF g, LevelsSay, TreeEntry
  <2>4. CASE k \notin DOMAIN m
    <3>1. \A l \in Level : g[l] = f[l]
      BY <2>1, <2>2, <2>4
    <3>2. f = g
      BY <3>1
    <3> QED
      BY <2>4, <3>2 DEF LevelsSay, TreeEntry
  <2> QED
    BY <2>3, <2>4
<1>9. /\ LevelsKept(levels') /\ Len(levels'[0]) < L0CompactionThreshold
      /\ \A k : Shown(LevelsSay(levels', k)) = Shown(LevelsSay(ls, k))
  <2>1. CASE Len(ls[0]) >= L0CompactionThreshold
    <3> DEFINE ms == CompactedLevels(ls)
    <3>1. levels' = ms
      BY <1>3, <2>1
    <3>2. /\ LevelsKept(ms) /\ Len(ms[0]) = 0
          /\ \A k : Shown(LevelsSay(ms, k)) = Shown(LevelsSay(ls, k))
      BY <1>7, CompactedLevelsFacts
    <3> HIDE DEF ms
    <3> QED
      BY <3>1, <3>2, LSMSizes
  <2>2. CASE ~(Len(ls[0]) >= L0CompactionThreshold)
    <3>1. Len(ls[0]) \in Nat
      BY <1>5, <1>6, LenProperties
    <3>2. levels' = ls /\ Len(ls[0]) < L0CompactionThreshold
      BY <1>3, <2>2, <3>1, LSMSizes
    <3> QED
      BY <1>7, <3>2
  <2> QED
    BY <2>1, <2>2
<1>10. \A k \in Key : Shown(TreeEntry(memtable', levels', k)) = kv'[k]
  BY <1>3, <1>8, <1>9, NoEntriesFacts
<1> QED
  BY <1>3, <1>9, <1>10, NoEntriesFacts DEF LSMInv, LevelsKept, LevelsInSequence

\* put() or remove(): the entry of one key is the last one written.
LEMMA WriteStep ==
    ASSUME LSMInv, NEW k \in Key, NEW e \in Entry, Write(k, e),
           kv' = [kv EXCEPT ![k] = Shown(e)]
    PROVE  LSMInv'
<1> DEFINE m == With(memtable, k, e)
<1>1. /\ memtable \in Partly(Key, Entry) /\ IsFiniteSet(DOMAIN memtable) /\ wal = memtable
      /\ LevelsKept(levels) /\ Len(levels[0]) < L0CompactionThreshold
      /\ kv \in [Key -> Value \union {NoValue}]
      /\ \A j \in Key : Shown(TreeEntry(memtable, levels, j)) = kv[j]
  BY DEF LSMInv
<1>2. m \in Partly(Key, Entry)
  BY <1>1, WithPartly
<1>3. /\ DOMAIN m = DOMAIN memtable \union {k} /\ m[k] = e
      /\ \A j \in DOMAIN memtable : j # k => m[j] = memtable[j]
  BY DEF With
<1>4. IsFiniteSet(DOMAIN m)
  BY <1>1, <1>3, FS_AddElement
<1>5. \/ FlushMemtable(m)
      \/ memtable' = m /\ wal' = With(wal, k, e) /\ levels' = levels
  BY DEF Write
<1>6. wal' = With(wal, k, e) => wal' = m
  BY <1>1
<1> HIDE DEF m
<1>7. Shown(e) \in Value \union {NoValue}
  BY DEF Shown, Entry
<1>8. kv' \in [Key -> Value \union {NoValue}] /\ kv'[k] = Shown(e)
      /\ \A j \in Key : j # k => kv'[j] = kv[j]
  BY <1>1, <1>7
<1>9. ASSUME NEW j \in Key  PROVE Shown(TreeEntry(m, levels, j)) = kv'[j]
  <2>1. CASE j = k
    BY <1>3, <1>8, <2>1 DEF TreeEntry
  <2>2. CASE j # k
    <3>1. TreeEntry(m, levels, j) = TreeEntry(memtable, levels, j)
      BY <1>3, <2>2 DEF TreeEntry
    <3> QED
      BY <1>1, <1>8, <2>2, <3>1
  <2> QED
    BY <2>1, <2>2
<1>10. CASE FlushMemtable(m)
  <2>1. m \in Run
    BY <1>2, <1>3, <1>4 DEF Run
  <2> QED
    BY <1>1, <1>8, <1>9, <1>10, <2>1, FlushStep
<1>11. CASE memtable' = m /\ wal' = With(wal, k, e) /\ levels' = levels
  BY <1>1, <1>2, <1>4, <1>6, <1>8, <1>9, <1>11 DEF LSMInv, LevelsKept, LevelsInSequence
<1> QED
  BY <1>5, <1>10, <1>11

LEMMA LSMInvStep == LSMInv /\ [LSMNext]_lsmVars => LSMInv'
<1> SUFFICES ASSUME LSMInv, [LSMNext]_lsmVars  PROVE LSMInv'
  OBVIOUS
<1>1. ASSUME NEW k \in Key, NEW v \in Value, LSMPut(k, v)  PROVE LSMInv'
  <2>1. v \in Entry /\ Shown(v) = v
    BY LSMSizes DEF Entry, Shown
  <2> QED
    BY <1>1, <2>1, WriteStep DEF LSMPut, AMPut
<1>2. ASSUME NEW k \in Key, LSMRemove(k)  PROVE LSMInv'
  <2>1. Tombstone \in Entry /\ Shown(Tombstone) = NoValue
    BY DEF Entry, Shown
  <2> QED
    BY <1>2, <2>1, WriteStep DEF LSMRemove, AMRemove
<1>3. CASE LSMFlush
  <2>1. memtable # NoEntries /\ FlushMemtable(memtable) /\ kv' = kv
    BY <1>3 DEF LSMFlush
  <2>2. /\ memtable \in Partly(Key, Entry) /\ IsFiniteSet(DOMAIN memtable)
        /\ LevelsKept(levels) /\ Len(levels[0]) < L0CompactionThreshold
        /\ kv \in [Key -> Value \union {NoValue}]
        /\ \A j \in Key : Shown(TreeEntry(memtable, levels, j)) = kv[j]
    BY DEF LSMInv
  <2>3. DOMAIN memtable # {}
    <3> SUFFICES ASSUME DOMAIN memtable = {}  PROVE FALSE
      OBVIOUS
    <3>1. memtable = [k \in DOMAIN memtable |-> memtable[k]]
      BY <2>2, PartlyFacts
    <3> QED
      BY <2>1, <3>1 DEF NoEntries
  <2>4. memtable \in Run
    BY <2>2, <2>3 DEF Run
  <2> QED
    BY <2>1, <2>2, <2>4, FlushStep
<1>4. CASE UNCHANGED lsmVars
  BY <1>4 DEF lsmVars, LSMInv, LevelsKept, LevelsInSequence
<1> QED
  BY <1>1, <1>2, <1>3, <1>4 DEF LSMNext

LEMMA LSMInvSound == LSMInv => LSMTypeOK /\ LevelsSound /\ LSMAnswers
<1> SUFFICES ASSUME LSMInv  PROVE LSMTypeOK /\ LevelsSound /\ LSMAnswers
  OBVIOUS
<1>1. /\ memtable \in Partly(Key, Entry) /\ wal = memtable
      /\ LevelsInSequence(levels) /\ NoTombstones(levels[LastLevel])
      /\ levels \in [Level -> Seq(Run)]
      /\ \A l \in Level \ {0} : InSequence(levels[l])
      /\ Len(levels[0]) < L0CompactionThreshold
      /\ \A k \in Key : Shown(TreeEntry(memtable, levels, k)) = kv[k]
  BY DEF LSMInv, LevelsKept, LevelsInSequence
<1>2. ASSUME NEW l \in Level, NEW i \in DOMAIN levels[l]
      PROVE  levels[l][i] \in Run /\ i \in Nat /\ DOMAIN levels[l] = 1 .. Len(levels[l])
  <2>1. levels[l] \in Seq(Run)
    BY <1>1
  <2>2. DOMAIN levels[l] = 1 .. Len(levels[l]) /\ Len(levels[l]) \in Nat
    BY <2>1, LenProperties
  <2> QED
    BY <2>1, <2>2, ElementOfSeq
<1>3. LSMTypeOK
  <2>1. DOMAIN memtable \subseteq Key /\ \A k \in DOMAIN memtable : memtable[k] \in Entry
    BY <1>1, PartlyFacts
  <2>2. ASSUME NEW l \in Level, NEW t \in Range(levels[l])
        PROVE  DOMAIN t \subseteq Key /\ DOMAIN t # {} /\ \A k \in DOMAIN t : t[k] \in Entry
    <3>1. PICK i \in DOMAIN levels[l] : t = levels[l][i]
      BY DEF Range
    <3>2. t \in Run
      BY <1>2, <3>1
    <3> QED
      BY <3>2, RunFacts
  <2> QED
    BY <2>1, <2>2 DEF LSMTypeOK
<1>4. LevelsSound
  <2>1. ASSUME NEW l \in Level \ {0}, NEW i \in 1 .. Len(levels[l]) - 1
        PROVE  MaxKey(levels[l][i]) < MinKey(levels[l][i + 1])
    <3>1. levels[l] \in Seq(Run) /\ InSequence(levels[l])
      BY <1>1
    <3>2. DOMAIN levels[l] = 1 .. Len(levels[l]) /\ Len(levels[l]) \in Nat
      BY <3>1, LenProperties
    <3>3. i \in DOMAIN levels[l] /\ i + 1 \in DOMAIN levels[l] /\ i < i + 1
      BY <3>2
    <3>4. Before(levels[l][i], levels[l][i + 1])
      BY <3>1, <3>3 DEF InSequence
    <3>5. levels[l][i] \in Run /\ levels[l][i + 1] \in Run
      BY <1>2, <3>3
    <3> QED
      BY <3>4, <3>5, BeforeEnds
  <2>2. ASSUME NEW t \in Range(levels[MaxLevels - 1])  PROVE Tombstone \notin Range(t)
    BY <1>1 DEF NoTombstones, LastLevel, Range
  <2> QED
    BY <1>1, <2>1, <2>2 DEF LevelsSound
<1>5. LSMAnswers
  <2> SUFFICES ASSUME NEW k \in Key  PROVE Get(k) = kv[k]
    BY DEF LSMAnswers
  <2>1. k \in Nat
    BY LSMSizes
  <2> QED
    BY <1>1, <2>1, GetIs DEF TreeEntry
<1> QED
  BY <1>3, <1>4, <1>5

\* The LSM tree, for any keys, values, thresholds and number of levels: below
\* level 0 the runs of a level stay apart and in order, no tombstone reaches the
\* last level, and get() finds the last value put through every flush and compaction.
THEOREM LSMCorrect == LSMSpec => [](LSMTypeOK /\ LevelsSound /\ LSMAnswers)
BY LSMInvInit, LSMInvStep, LSMInvSound, PTL DEF LSMSpec
-----------------------------------------------------------------------------
(* Proof: minimal migration, for any nodes and tokens *)

\* The ring holds the tokens of the physical nodes, each of its node.
RingInv ==
    /\ physicalNodes \subseteq RingNode
    /\ DOMAIN ring = UNION {Tokens[n] : n \in physicalNodes}
    /\ \A n \in physicalNodes : \A t \in Tokens[n] : ring[t] = n

\* The token of a key: what Successor chooses from the tokens D.
Chosen(D, t) == LET after == {u \in D : u >= t} IN Min(IF after = {} THEN D ELSE after)

\* The choice from D is that from a part of D it lies in.
LEMMA ChosenFromPart ==
    ASSUME NEW D, D \subseteq Nat, NEW t \in Nat, NEW E, E \subseteq D, Chosen(D, t) \in E
    PROVE  Chosen(E, t) = Chosen(D, t)
<1> DEFINE from(S) == {u \in S : u >= t}
           pool(S) == IF from(S) = {} THEN S ELSE from(S)
<1>1. D # {} /\ E # {} /\ pool(D) # {} /\ pool(D) \subseteq Nat /\ pool(E) # {} /\ pool(E) \subseteq Nat
  OBVIOUS
<1>2. Chosen(D, t) = Min(pool(D)) /\ Chosen(E, t) = Min(pool(E))
  BY DEF Chosen
<1>3. Min(pool(D)) \in pool(D) /\ \A u \in pool(D) : Min(pool(D)) <= u
  BY <1>1, LeastOf
<1>4. Min(pool(E)) \in pool(E) /\ \A u \in pool(E) : Min(pool(E)) <= u
  BY <1>1, LeastOf
<1>5. Min(pool(D)) \in pool(E)
  BY <1>2, <1>3
<1>6. pool(E) \subseteq pool(D)
  BY <1>2, <1>3
<1>7. Min(pool(D)) = Min(pool(E))
  <2> HIDE DEF pool
  <2> QED
    BY <1>1, <1>3, <1>4, <1>5, <1>6
<1> QED
  BY <1>2, <1>7

\* A key's token is one of the ring.
LEMMA ChosenIn ==
    ASSUME NEW D, D \subseteq Nat, D # {}, NEW t \in Nat
    PROVE  Chosen(D, t) \in D
<1> DEFINE pool == IF {u \in D : u >= t} = {} THEN D ELSE {u \in D : u >= t}
<1>1. pool # {} /\ pool \subseteq D /\ pool \subseteq Nat
  OBVIOUS
<1>2. Min(pool) \in pool
  BY <1>1, LeastOf
<1> QED
  BY <1>1, <1>2 DEF Chosen

\* The ring at first, and after a node joined or left.
LEMMA RingInvInit == HRInit => RingInv
BY DEF HRInit, RingInv

LEMMA RingInvStep == RingInv /\ [HRNext]_hrVars => RingInv'
<1> SUFFICES ASSUME RingInv, [HRNext]_hrVars  PROVE RingInv'
  OBVIOUS
<1>1. ASSUME NEW n \in RingNode, AddNode(n)  PROVE RingInv'
  BY <1>1, TokensDistinct DEF AddNode, RingInv
<1>2. ASSUME NEW n \in RingNode, RemoveNode(n)  PROVE RingInv'
  BY <1>2, TokensDistinct DEF RemoveNode, RingInv
<1>3. CASE UNCHANGED hrVars
  BY <1>3 DEF hrVars, RingInv
<1> QED
  BY <1>1, <1>2, <1>3 DEF HRNext

\* What get_node() answers, by the tokens of the ring.
Answers ==
    \A key \in KeyToken :
        /\ DOMAIN ring \subseteq Nat /\ key \in Nat
        /\ IF DOMAIN ring = {} THEN GetNode(key) = NoNode
           ELSE /\ Chosen(DOMAIN ring, key) \in DOMAIN ring
                /\ GetNode(key) = ring[Chosen(DOMAIN ring, key)]

LEMMA GetNodeAnswers == RingInv => Answers
<1> SUFFICES ASSUME RingInv, NEW key \in KeyToken
             PROVE  /\ DOMAIN ring \subseteq Nat /\ key \in Nat
                    /\ IF DOMAIN ring = {} THEN GetNode(key) = NoNode
                       ELSE /\ Chosen(DOMAIN ring, key) \in DOMAIN ring
                            /\ GetNode(key) = ring[Chosen(DOMAIN ring, key)]
  BY DEF Answers
<1>1. DOMAIN ring \subseteq Nat /\ key \in Nat
  BY TokensNat DEF RingInv
<1>2. Successor(key) = Chosen(DOMAIN ring, key)
  BY DEF Successor, Chosen
<1> QED
  BY <1>1, <1>2, ChosenIn DEF GetNode

\* A node that joins takes keys only to itself; one that leaves gives up only
\* its own: for any nodes, any number of virtual nodes and any hash without
\* collisions between nodes.
THEOREM MinimalMigrationCorrect == HRSpec => MinimalMigration
<1> DEFINE Moves == \A key \in KeyToken :
              GetNode(key)' # GetNode(key) =>
                  \/ GetNode(key)' \in physicalNodes' \ physicalNodes
                  \/ GetNode(key) \in physicalNodes \ physicalNodes'
                  \/ GetNode(key) = NoNode
<1>0. RingInv' => Answers'
  BY GetNodeAnswers, PTL
<1>1. RingInv /\ RingInv' /\ [HRNext]_hrVars => [Moves]_hrVars
  <2> SUFFICES ASSUME RingInv, RingInv', HRNext, NEW key \in KeyToken,
                      GetNode(key)' # GetNode(key), GetNode(key) # NoNode
               PROVE  \/ GetNode(key)' \in physicalNodes' \ physicalNodes
                      \/ GetNode(key) \in physicalNodes \ physicalNodes'
    OBVIOUS
  <2> DEFINE D == DOMAIN ring
             E == DOMAIN ring'
  <2>1. /\ D \subseteq Nat /\ key \in Nat /\ D # {}
        /\ Chosen(D, key) \in D /\ GetNode(key) = ring[Chosen(D, key)]
    BY GetNodeAnswers DEF Answers
  <2>2. /\ E \subseteq Nat
        /\ IF E = {} THEN GetNode(key)' = NoNode
           ELSE Chosen(E, key) \in E /\ GetNode(key)' = ring'[Chosen(E, key)]
    BY <1>0 DEF Answers
  <2>3. ASSUME NEW n \in RingNode, AddNode(n)
        PROVE  GetNode(key)' \in physicalNodes' \ physicalNodes
    <3>1. /\ n \notin physicalNodes /\ n \in physicalNodes' /\ E = D \union Tokens[n]
          /\ \A t \in E : ring'[t] = IF t \in Tokens[n] THEN n ELSE ring[t]
      BY <2>3 DEF AddNode
    <3>2. Chosen(E, key) \in E /\ GetNode(key)' = ring'[Chosen(E, key)]
      BY <2>1, <2>2, <3>1
    <3>3. CASE Chosen(E, key) \in Tokens[n]
      BY <3>1, <3>2, <3>3
    <3>4. CASE Chosen(E, key) \notin Tokens[n]
      <4>1. Chosen(E, key) \in D
        BY <3>1, <3>2, <3>4
      <4>2. Chosen(D, key) = Chosen(E, key)
        BY <2>1, <2>2, <3>1, <4>1, ChosenFromPart
      <4> QED
        BY <2>1, <3>1, <3>2, <3>4, <4>2
    <3> QED
      BY <3>3, <3>4
  <2>4. ASSUME NEW n \in RingNode, RemoveNode(n)
        PROVE  GetNode(key) \in physicalNodes \ physicalNodes'
    <3>1. /\ n \in physicalNodes /\ n \notin physicalNodes' /\ E = D \ Tokens[n]
          /\ \A t \in E : ring'[t] = ring[t]
      BY <2>4 DEF RemoveNode
    <3>2. CASE Chosen(D, key) \in Tokens[n]
      BY <2>1, <3>1, <3>2 DEF RingInv
    <3>3. CASE Chosen(D, key) \notin Tokens[n]
      <4>1. Chosen(D, key) \in E
        BY <2>1, <3>1, <3>3
      <4>2. Chosen(E, key) = Chosen(D, key)
        BY <2>1, <3>1, <4>1, ChosenFromPart
      <4> QED
        BY <2>1, <2>2, <3>1, <4>1, <4>2
    <3> QED
      BY <3>2, <3>3
  <2> QED
    BY <2>3, <2>4 DEF HRNext
<1> QED
  BY <1>1, RingInvInit, RingInvStep, PTL DEF HRSpec, MinimalMigration

-----------------------------------------------------------------------------
(* Proof: the preference list *)

\* Going around from the key, t comes before u.
Sooner(key, t, u) == (t >= key /\ u < key) \/ ((t >= key <=> u >= key) /\ t < u)

\* The least token at or after one, or the least of all.
LEMMA ChosenLeast ==
    ASSUME NEW D, D \subseteq Nat, D # {}, NEW t \in Nat
    PROVE  /\ Chosen(D, t) \in D
           /\ Chosen(D, t) >= t => \A u \in D : u >= t => Chosen(D, t) <= u
           /\ Chosen(D, t) < t => \A u \in D : u < t /\ Chosen(D, t) <= u
<1> DEFINE from == {u \in D : u >= t}
<1>1. CASE from = {}
  <2>1. Chosen(D, t) = Min(D)
    BY <1>1 DEF Chosen
  <2>2. Min(D) \in D /\ \A u \in D : Min(D) <= u
    BY LeastOf
  <2>3. \A u \in D : u < t
    BY <1>1
  <2> QED
    BY <2>1, <2>2, <2>3
<1>2. CASE from # {}
  <2>1. Chosen(D, t) = Min(from)
    BY <1>2 DEF Chosen
  <2>2. from \subseteq Nat
    OBVIOUS
  <2>3. Min(from) \in from /\ \A u \in from : Min(from) <= u
    <3> HIDE DEF from
    <3> QED
      BY <1>2, <2>2, LeastOf
  <2>4. Min(from) \in D /\ Min(from) \in Nat /\ Min(from) >= t
        /\ \A u \in D : u >= t => Min(from) <= u
    BY <2>3
  <2> HIDE DEF from
  <2>5. ~(Min(from) < t)
    <3>1. \A a, b \in Nat : a >= b => ~(a < b)
      OBVIOUS
    <3> QED
      BY <2>4, <3>1
  <2> QED
    BY <2>1, <2>4, <2>5
<1> QED
  BY <1>1, <1>2

\* The iterator, moved on, is back at the start when every token has been met, and
\* before that at the first one that has not.
LEMMA Around ==
    ASSUME NEW D, D \subseteq Nat, D # {}, NEW key \in Nat, NEW a \in D
    PROVE  /\ Chosen(D, key) \in D /\ Chosen(D, a + 1) \in D
           /\ \A t \in D : ~Sooner(key, t, Chosen(D, key))
           /\ Chosen(D, a + 1) = Chosen(D, key) => \A t \in D : Sooner(key, t, a) \/ t = a
           /\ Chosen(D, a + 1) # Chosen(D, key) =>
                 \A t \in D : Sooner(key, t, Chosen(D, a + 1)) <=> Sooner(key, t, a) \/ t = a
<1> DEFINE start == Chosen(D, key)
           next == Chosen(D, a + 1)
<1>1. /\ start \in D /\ start \in Nat
      /\ start >= key => \A u \in D : u >= key => start <= u
      /\ start < key => \A u \in D : u < key /\ start <= u
  BY ChosenLeast
<1>2. /\ next \in D /\ next \in Nat
      /\ next >= a + 1 => \A u \in D : u >= a + 1 => next <= u
      /\ next < a + 1 => \A u \in D : u < a + 1 /\ next <= u
  <2>1. a + 1 \in Nat
    OBVIOUS
  <2> QED
    BY <2>1, ChosenLeast
<1> HIDE DEF start, next
<1>3. \A t \in D : ~Sooner(key, t, start)
  BY <1>1 DEF Sooner
<1>4. CASE next >= a + 1
  <2>1. \A u \in D : u <= a \/ next <= u
    BY <1>2, <1>4
  <2>2. CASE a >= key
    <3>1. next # start
      BY <1>1, <1>2, <1>4, <2>2
    <3>2. \A t \in D : Sooner(key, t, next) <=> Sooner(key, t, a) \/ t = a
      BY <1>2, <1>4, <2>1, <2>2 DEF Sooner
    <3> QED
      BY <1>1, <1>2, <1>3, <3>1, <3>2 DEF start, next
  <2>3. CASE a < key /\ next < key
    <3>1. next # start
      BY <1>1, <1>2, <1>4, <2>3
    <3>2. \A t \in D : Sooner(key, t, next) <=> Sooner(key, t, a) \/ t = a
      BY <1>2, <1>4, <2>1, <2>3 DEF Sooner
    <3> QED
      BY <1>1, <1>2, <1>3, <3>1, <3>2 DEF start, next
  <2>4. CASE a < key /\ next >= key
    <3>1. next = start
      BY <1>1, <1>2, <1>4, <2>1, <2>4
    <3>2. \A t \in D : Sooner(key, t, a) \/ t = a
      BY <1>2, <1>4, <2>1, <2>4 DEF Sooner
    <3> QED
      BY <1>1, <1>2, <1>3, <3>1, <3>2 DEF start, next
  <2> QED
    BY <1>2, <2>2, <2>3, <2>4
<1>5. CASE next < a + 1
  <2>1. \A u \in D : u <= a /\ next <= u
    BY <1>2, <1>5
  <2>2. CASE a < key
    <3>1. next = start
      BY <1>1, <1>2, <2>1, <2>2
    <3>2. \A t \in D : Sooner(key, t, a) \/ t = a
      BY <2>1, <2>2 DEF Sooner
    <3> QED
      BY <1>1, <1>2, <1>3, <3>1, <3>2 DEF start, next
  <2>3. CASE a >= key /\ next >= key
    <3>1. next = start
      BY <1>1, <1>2, <2>1, <2>3
    <3>2. \A t \in D : Sooner(key, t, a) \/ t = a
      BY <1>2, <2>1, <2>3 DEF Sooner
    <3> QED
      BY <1>1, <1>2, <1>3, <3>1, <3>2 DEF start, next
  <2>4. CASE a >= key /\ next < key
    <3>1. next # start
      BY <1>1, <1>2, <2>1, <2>4
    <3>2. \A t \in D : Sooner(key, t, next) <=> Sooner(key, t, a) \/ t = a
      BY <1>2, <2>1, <2>4 DEF Sooner
    <3> QED
      BY <1>1, <1>2, <1>3, <3>1, <3>2 DEF start, next
  <2> QED
    BY <1>2, <2>2, <2>3, <2>4
<1> QED
  BY <1>2, <1>4, <1>5

\* The token that none of some others comes before is the one chosen of them.
LEMMA SoonestChosen ==
    ASSUME NEW ts, ts \subseteq Nat, NEW key \in Nat, NEW a \in ts,
           \A t \in ts : ~Sooner(key, t, a)
    PROVE  Chosen(ts, key) = a
<1> DEFINE c == Chosen(ts, key)
<1>1. /\ c \in ts /\ c \in Nat
      /\ c >= key => \A u \in ts : u >= key => c <= u
      /\ c < key => \A u \in ts : u < key /\ c <= u
  BY ChosenLeast
<1> HIDE DEF c
<1>2. ~Sooner(key, c, a) /\ a \in Nat
  BY <1>1
<1>3. c = a
  BY <1>1, <1>2 DEF Sooner
<1> QED
  BY <1>3 DEF c

\* The tokens whose node is not among the first i - 1 of a list.
Unnamed(list, i) == {t \in DOMAIN ring : \A j \in 1 .. i - 1 : ring[t] # list[j]}

\* A list as it should be: each node has the first token of those not named before it.
Ordered(list, key) ==
    /\ list \in Seq(RingNode)
    /\ \A i \in 1 .. Len(list) :
          Unnamed(list, i) # {} /\ list[i] = ring[Chosen(Unnamed(list, i), key)]

\* No node is named twice, and all that are named are on the ring.
LEMMA OrderedOnce ==
    ASSUME NEW list, NEW key \in Nat, DOMAIN ring \subseteq Nat, Ordered(list, key)
    PROVE  /\ \A i, j \in 1 .. Len(list) : i # j => list[i] # list[j]
           /\ IsFiniteSet(Range(list)) /\ Cardinality(Range(list)) = Len(list)
           /\ \A i \in 1 .. Len(list) : \E t \in DOMAIN ring : list[i] = ring[t]
<1> DEFINE n == Len(list)
<1>1. n \in Nat /\ list \in [1 .. n -> RingNode]
  BY DEF Ordered
<1>2. ASSUME NEW i \in 1 .. n
      PROVE  \E t \in DOMAIN ring : list[i] = ring[t] /\ \A j \in 1 .. i - 1 : list[i] # list[j]
  <2>1. Unnamed(list, i) # {} /\ list[i] = ring[Chosen(Unnamed(list, i), key)]
    BY DEF Ordered
  <2>2. Unnamed(list, i) \subseteq Nat
    BY DEF Unnamed
  <2>3. Chosen(Unnamed(list, i), key) \in Unnamed(list, i)
    BY <2>1, <2>2, ChosenIn
  <2> QED
    BY <2>1, <2>3 DEF Unnamed
<1>3. ASSUME NEW i \in 1 .. n, NEW j \in 1 .. n, i # j  PROVE list[i] # list[j]
  <2>1. CASE i < j
    <3>1. i \in 1 .. j - 1
      BY <2>1
    <3> QED
      BY <1>2, <3>1
  <2>2. CASE j < i
    <3>1. j \in 1 .. i - 1
      BY <2>2
    <3> QED
      BY <1>2, <3>1
  <2>3. i < j \/ j < i
    BY <1>3
  <2> QED
    BY <2>1, <2>2, <2>3
<1>4. list \in Surjection(1 .. n, Range(list))
  <2>1. Range(list) = {list[i] : i \in 1 .. n}
    BY <1>1 DEF Range
  <2> QED
    BY <1>1, <2>1 DEF Surjection
<1>5. list \in Injection(1 .. n, Range(list))
  <2>1. list \in [1 .. n -> Range(list)]
    BY <1>4 DEF Surjection
  <2>2. \A i, j \in 1 .. n : list[i] = list[j] => i = j
    BY <1>3
  <2> QED
    BY <2>1, <2>2 DEF Injection, IsInjective
<1> HIDE DEF n
<1>6. IsFiniteSet(1 .. n) /\ Cardinality(1 .. n) = n
  BY <1>1, FS_Interval
<1>7. IsFiniteSet(Range(list)) /\ Cardinality(Range(list)) = n
  BY <1>4, <1>5, <1>6, FS_Surjection
<1> QED
  BY <1>2, <1>3, <1>7 DEF n

\* One node more at the end of a list: that of the first token not named in it.
LEMMA OneNamed ==
    ASSUME NEW list, NEW key \in Nat, DOMAIN ring \subseteq Nat, Ordered(list, key),
           NEW a \in DOMAIN ring, ring[a] \in RingNode, ring[a] \notin Range(list),
           \A t \in DOMAIN ring : ring[t] \notin Range(list) => ~Sooner(key, t, a)
    PROVE  Ordered(Append(list, ring[a]), key)
<1> DEFINE new == Append(list, ring[a])
           n == Len(list)
<1>1. n \in Nat /\ list \in Seq(RingNode)
  BY DEF Ordered
<1>2. /\ new \in Seq(RingNode) /\ Len(new) = n + 1 /\ new[n + 1] = ring[a]
      /\ \A j \in 1 .. n : new[j] = list[j]
  BY <1>1
<1>3. Range(list) = {list[j] : j \in 1 .. n}
  BY <1>1 DEF Range
<1> HIDE DEF new
<1>4. ASSUME NEW i \in 1 .. n + 1  PROVE Unnamed(new, i) = Unnamed(list, i)
  <2>1. \A j \in 1 .. i - 1 : j \in 1 .. n
    BY <1>1
  <2>2. \A j \in 1 .. i - 1 : new[j] = list[j]
    BY <1>2, <2>1
  <2> QED
    BY <2>2 DEF Unnamed
<1>5. Unnamed(list, n + 1) = {t \in DOMAIN ring : ring[t] \notin Range(list)}
  <2>1. n + 1 - 1 = n
    BY <1>1
  <2> QED
    BY <1>3, <2>1 DEF Unnamed
<1>6. a \in Unnamed(list, n + 1) /\ Unnamed(list, n + 1) \subseteq Nat
      /\ \A t \in Unnamed(list, n + 1) : ~Sooner(key, t, a)
  BY <1>5
<1>7. Chosen(Unnamed(list, n + 1), key) = a
  <2> DEFINE ts == Unnamed(list, n + 1)
  <2> HIDE DEF ts
  <2>1. ts \subseteq Nat /\ a \in ts /\ \A t \in ts : ~Sooner(key, t, a)
    BY <1>6 DEF ts
  <2>2. Chosen(ts, key) = a
    BY ONLY <2>1, key \in Nat, SoonestChosen
  <2> QED
    BY <2>2 DEF ts
<1>8. ASSUME NEW i \in 1 .. n + 1
      PROVE  Unnamed(new, i) # {} /\ new[i] = ring[Chosen(Unnamed(new, i), key)]
  <2>1. CASE i = n + 1
    BY <1>2, <1>4, <1>6, <1>7, <2>1
  <2>2. CASE i # n + 1
    <3>1. i \in 1 .. n
      BY <1>1, <2>2
    <3> QED
      BY <1>2, <1>4, <3>1 DEF Ordered
  <2> QED
    BY <2>1, <2>2
<1> QED
  BY <1>2, <1>8 DEF Ordered, new

\* The ring is finite, and its nodes are the physical ones.
LEMMA RingFinite ==
    ASSUME RingInv
    PROVE  /\ IsFiniteSet(DOMAIN ring) /\ DOMAIN ring \subseteq Nat
           /\ IsFiniteSet(physicalNodes) /\ physicalNodes \subseteq RingNode
           /\ \A t \in DOMAIN ring : ring[t] \in physicalNodes
           /\ \A n \in physicalNodes : \E t \in DOMAIN ring : ring[t] = n
<1>1. IsFiniteSet(physicalNodes) /\ physicalNodes \subseteq RingNode
  BY TokensFinite, FS_Subset DEF RingInv
<1> DEFINE f == [n \in physicalNodes |-> Tokens[n]]
           sets == {Tokens[n] : n \in physicalNodes}
<1>2. f \in Surjection(physicalNodes, sets)
  BY DEF Surjection
<1>3. IsFiniteSet(sets)
  <2> HIDE DEF f, sets
  <2> QED
    BY <1>1, <1>2, FS_Surjection
<1>4. \A T \in sets : IsFiniteSet(T)
  BY <1>1, TokensFinite
<1>5. IsFiniteSet(UNION sets)
  <2> HIDE DEF sets
  <2> QED
    BY <1>3, <1>4, FS_UNION
<1>6. DOMAIN ring = UNION sets
  BY DEF RingInv
<1>7. DOMAIN ring \subseteq Nat
  BY <1>1, <1>6, TokensNat
<1>8. \A t \in DOMAIN ring : ring[t] \in physicalNodes
  BY DEF RingInv
<1>9. ASSUME NEW n \in physicalNodes  PROVE \E t \in DOMAIN ring : ring[t] = n
  <2>1. PICK t \in Tokens[n] : TRUE
    BY <1>1, TokensFinite
  <2> QED
    BY <2>1 DEF RingInv
<1> QED
  BY <1>1, <1>5, <1>6, <1>7, <1>8, <1>9

\* The tokens passed on the way from the key to u.
Past(key, u) == {t \in DOMAIN ring : Sooner(key, t, u)}

Walks == [at : DOMAIN ring, list : Seq(RingNode), over : BOOLEAN]

\* A walk of n rounds has collected the nodes of the n tokens it has passed; one
\* that is over has as many as asked for, or all.
WalkGood(walk, n, key, factor) ==
    /\ walk \in Walks /\ Ordered(walk.list, key)
    /\ Len(walk.list) <= factor /\ Len(walk.list) <= Cardinality(physicalNodes)
    /\ walk.over => Len(walk.list) = factor \/ Len(walk.list) = Cardinality(physicalNodes)
    /\ ~walk.over =>
          /\ Len(walk.list) < factor /\ Len(walk.list) < Cardinality(physicalNodes)
          /\ IsFiniteSet(Past(key, walk.at)) /\ Cardinality(Past(key, walk.at)) = n
          /\ Range(walk.list) = {ring[t] : t \in Past(key, walk.at)}

LEMMA VisitStep ==
    ASSUME RingInv, NEW key \in KeyToken, NEW factor \in Nat \ {0}, NEW n \in Nat,
           NEW walk, WalkGood(walk, n, key, factor), ~walk.over
    PROVE  WalkGood(VisitNext(walk, Successor(key), factor), n + 1, key, factor)
<1> DEFINE D == DOMAIN ring
           a == walk.at
           fresh == ring[a] \notin Range(walk.list)
           list == IF fresh THEN Append(walk.list, ring[a]) ELSE walk.list
           next == Successor(a + 1)
           start == Successor(key)
           all == Cardinality(physicalNodes)
           over == (fresh /\ Len(list) = factor) \/ next = start \/ Len(list) >= all
           then == VisitNext(walk, start, factor)
<1>1. then = [at |-> next, list |-> list, over |-> over]
  BY DEF VisitNext
<1>2. then.at = next /\ then.list = list /\ then.over = over
  BY <1>1
<1>3. /\ IsFiniteSet(D) /\ D \subseteq Nat /\ key \in Nat
      /\ IsFiniteSet(physicalNodes) /\ physicalNodes \subseteq RingNode
      /\ \A t \in D : ring[t] \in physicalNodes
      /\ \A m \in physicalNodes : \E t \in D : ring[t] = m
  BY RingFinite, TokensNat
<1>4. /\ a \in D /\ Ordered(walk.list, key) /\ walk.list \in Seq(RingNode)
      /\ Len(walk.list) < factor /\ Len(walk.list) < all
      /\ IsFiniteSet(Past(key, a)) /\ Cardinality(Past(key, a)) = n
      /\ Range(walk.list) = {ring[t] : t \in Past(key, a)}
  BY DEF WalkGood, Walks
<1>5. next = Chosen(D, a + 1) /\ start = Chosen(D, key)
  BY DEF Successor, Chosen
<1>6. all \in Nat /\ ring[a] \in physicalNodes /\ ring[a] \in RingNode /\ Len(walk.list) \in Nat
  BY <1>3, <1>4, FS_CardinalityType
<1> HIDE DEF D, a, next, start, all, then
<1>7. /\ next \in D /\ start \in D
      /\ next = start => \A t \in D : Sooner(key, t, a) \/ t = a
      /\ next # start => \A t \in D : Sooner(key, t, next) <=> Sooner(key, t, a) \/ t = a
  <2>1. D # {} /\ a \in D /\ D \subseteq Nat /\ key \in Nat
    BY <1>3, <1>4
  <2> QED
    BY <1>5, <2>1, Around
<1>8. Past(key, a) \subseteq D /\ a \notin Past(key, a)
  BY <1>3, <1>4 DEF Past, Sooner, D
<1>9. Range(list) = {ring[t] : t \in Past(key, a) \union {a}}
  <2>1. CASE fresh
    <3>1. Range(list) = Range(walk.list) \union {ring[a]}
      <4>1. list = Append(walk.list, ring[a])
        BY <2>1
      <4> QED
        BY <1>4, <1>6, <4>1 DEF Range
    <3> QED
      BY <1>4, <3>1
  <2>2. CASE ~fresh
    BY <1>4, <2>2
  <2> QED
    BY <2>1, <2>2
<1>10. Ordered(list, key)
  <2>1. CASE fresh
    <3>1. \A t \in D : ring[t] \notin Range(walk.list) => ~Sooner(key, t, a)
      BY <1>4 DEF Past, D
    <3>2. Ordered(Append(walk.list, ring[a]), key)
      BY <1>3, <1>4, <1>6, <2>1, <3>1, OneNamed DEF D
    <3> QED
      BY <2>1, <3>2
  <2>2. CASE ~fresh
    BY <1>4, <2>2
  <2> QED
    BY <2>1, <2>2
<1>11. /\ Len(list) \in Nat /\ Len(list) <= factor /\ list \in Seq(RingNode)
       /\ fresh \/ Len(list) < factor
  BY <1>4, <1>6
<1> HIDE DEF list, fresh
<1>12. /\ IsFiniteSet(Range(list)) /\ Cardinality(Range(list)) = Len(list)
       /\ Range(list) \subseteq physicalNodes
  <2>1. IsFiniteSet(Range(list)) /\ Cardinality(Range(list)) = Len(list)
    BY <1>3, <1>10, OrderedOnce DEF D
  <2> QED
    BY <1>3, <1>4, <1>8, <1>9, <2>1
<1>13. Len(list) <= all
  BY <1>3, <1>12, FS_Subset DEF all
<1>14. CASE next = start
  <2>1. Range(list) = physicalNodes
    <3>1. Past(key, a) \union {a} = D
      BY <1>4, <1>7, <1>8, <1>14 DEF Past, D
    <3> QED
      BY <1>3, <1>9, <3>1
  <2>2. Len(list) = all
    BY <1>12, <2>1 DEF all
  <2>3. then \in Walks /\ over
    BY <1>1, <1>7, <1>11, <1>14 DEF Walks, D
  <2> QED
    BY <1>2, <1>10, <1>11, <1>13, <2>2, <2>3 DEF WalkGood, all, then, start
<1>15. CASE next # start /\ over
  <2>1. Len(list) = factor \/ Len(list) = all
    BY <1>6, <1>11, <1>13, <1>15
  <2>2. then \in Walks
    BY <1>1, <1>7, <1>11, <1>15 DEF Walks, D
  <2> QED
    BY <1>2, <1>10, <1>11, <1>13, <1>15, <2>1, <2>2 DEF WalkGood, all, then, start
<1>16. CASE ~over
  <2>1. next # start /\ Len(list) < all /\ Len(list) < factor
    BY <1>6, <1>11, <1>13, <1>16
  <2>2. Past(key, next) = Past(key, a) \union {a}
    BY <1>4, <1>7, <2>1 DEF Past, D
  <2>3. IsFiniteSet(Past(key, next)) /\ Cardinality(Past(key, next)) = n + 1
    BY <1>4, <1>8, <2>2, FS_AddElement
  <2>4. Range(list) = {ring[t] : t \in Past(key, next)}
    BY <1>9, <2>2
  <2>5. then \in Walks
    BY <1>1, <1>7, <1>11, <1>16 DEF Walks, D
  <2> QED
    BY <1>2, <1>10, <1>11, <1>13, <1>16, <2>1, <2>3, <2>4, <2>5 DEF WalkGood, all, then, start
<1> QED
  BY <1>14, <1>15, <1>16

\* get_preference_list() after as many rounds as the ring has tokens: the walk is
\* over, as no more tokens can have been passed.
LEMMA PreferenceListIs ==
    ASSUME RingInv, NEW key \in KeyToken, NEW factor \in Nat \ {0}
    PROVE  /\ Ordered(PreferenceList(key, factor), key)
           /\ Len(PreferenceList(key, factor)) <= factor
           /\ Len(PreferenceList(key, factor)) <= Cardinality(physicalNodes)
           /\ \/ Len(PreferenceList(key, factor)) = factor
              \/ Len(PreferenceList(key, factor)) = Cardinality(physicalNodes)
<1> DEFINE D == DOMAIN ring
           size == Cardinality(D)
           start == Successor(key)
           init == [at |-> start, list |-> << >>, over |-> FALSE]
           Round(walk) == IF walk.over THEN walk ELSE VisitNext(walk, start, factor)
           Walked(f) == f = [n \in 0 .. size |-> IF n = 0 THEN init ELSE Round(f[n - 1])]
           after == CHOOSE f : Walked(f)
<1>1. /\ IsFiniteSet(D) /\ D \subseteq Nat /\ key \in Nat
      /\ IsFiniteSet(physicalNodes) /\ physicalNodes \subseteq RingNode
      /\ \A t \in D : ring[t] \in physicalNodes
      /\ \A m \in physicalNodes : \E t \in D : ring[t] = m
  BY RingFinite, TokensNat
<1>2. size \in Nat /\ Cardinality(physicalNodes) \in Nat
  BY <1>1, FS_CardinalityType
<1>3. CASE D = {}
  <2>1. PreferenceList(key, factor) = << >>
    BY <1>3 DEF PreferenceList
  <2>2. physicalNodes = {}
    BY <1>1, <1>3
  <2>3. Cardinality(physicalNodes) = 0
    BY <2>2, FS_EmptySet
  <2>4. Ordered(<< >>, key) /\ Len(<< >>) = 0
    BY DEF Ordered
  <2> QED
    BY <2>1, <2>3, <2>4
<1>4. CASE D # {}
  <2>1. start \in D /\ \A t \in D : ~Sooner(key, t, start)
    <3>1. start = Chosen(D, key)
      BY DEF Successor, Chosen
    <3>2. PICK t \in D : TRUE
      BY <1>4
    <3> HIDE DEF D, start
    <3> QED
      BY <1>1, <1>4, <3>1, <3>2, Around
  <2>2. Cardinality(physicalNodes) > 0
    <3>1. physicalNodes # {}
      BY <1>1, <1>4
    <3> QED
      BY <1>1, <1>2, <3>1, FS_EmptySet
  <2>3. WalkGood(init, 0, key, factor)
    <3>1. init \in Walks
      BY <2>1 DEF Walks
    <3>2. Ordered(<< >>, key) /\ Len(<< >>) = 0 /\ Range(<< >>) = {}
      BY DEF Ordered, Range
    <3>3. Past(key, start) = {}
      BY <2>1 DEF Past
    <3>4. IsFiniteSet(Past(key, start)) /\ Cardinality(Past(key, start)) = 0
      BY <3>3, FS_EmptySet
    <3>5. init.at = start /\ init.list = << >> /\ ~init.over
      OBVIOUS
    <3>6. {ring[t] : t \in Past(key, start)} = {}
      BY <3>3
    <3> HIDE DEF init
    <3>7. /\ Ordered(init.list, key) /\ Len(init.list) = 0 /\ Range(init.list) = {}
          /\ IsFiniteSet(Past(key, init.at)) /\ Cardinality(Past(key, init.at)) = 0
          /\ {ring[t] : t \in Past(key, init.at)} = {}
      BY <3>2, <3>4, <3>5, <3>6
    <3> DEFINE all == Cardinality(physicalNodes)
    <3>8. 0 < factor /\ 0 <= factor /\ 0 < all /\ 0 <= all
      BY <1>2, <2>2
    <3> HIDE DEF all, start
    <3> QED
      BY <3>1, <3>5, <3>7, <3>8 DEF WalkGood, all
  <2>4. ASSUME NEW n \in Nat, NEW walk, WalkGood(walk, n, key, factor)
        PROVE  WalkGood(Round(walk), n + 1, key, factor)
    <3>1. CASE walk.over
      BY <2>4, <3>1 DEF WalkGood
    <3>2. CASE ~walk.over
      BY <2>4, <3>2, VisitStep
    <3> QED
      BY <3>1, <3>2
  <2>5. Walked(after)
    <3> DEFINE Next(walk) == IF Round(walk) \in Walks THEN Round(walk) ELSE init
               step == [x \in (1 .. size) \X Walks |-> Next(x[2])]
    <3>1. init \in Walks
      BY <2>3 DEF WalkGood
    <3>2. step \in [(1 .. size) \X Walks -> Walks]
      <4>1. \A w \in Walks : Next(w) \in Walks
        BY <3>1
      <4> HIDE DEF Next
      <4> QED
        BY <4>1
    <3>3. PICK f \in [0 .. size -> Walks] : Repeats(f, init, size, step)
      <4> HIDE DEF step, init, size
      <4> QED
        BY ONLY <1>2, <3>1, <3>2, Rounds
    <3> HIDE DEF init, Round, size
    <3> DEFINE good == {n \in 0 .. size : WalkGood(f[n], n, key, factor)}
    <3>4. 0 \in good
      BY <1>2, <2>3, <3>3 DEF Repeats
    <3>5. ASSUME NEW n \in 1 .. size, n - 1 \in good
          PROVE  n \in good /\ f[n] = Round(f[n - 1])
      <4>1. n - 1 \in 0 .. size /\ WalkGood(f[n - 1], n - 1, key, factor) /\ n - 1 \in Nat
        BY <1>2, <3>5
      <4>2. WalkGood(Round(f[n - 1]), n - 1 + 1, key, factor) /\ n - 1 + 1 = n
        BY <2>4, <4>1
      <4>3. Round(f[n - 1]) \in Walks
        BY <4>2 DEF WalkGood
      <4>4. f[n] = step[<<n, f[n - 1]>>] /\ f[n - 1] \in Walks
        BY <3>3, <4>1 DEF Repeats
      <4>5. f[n] = Round(f[n - 1])
        BY <4>3, <4>4
      <4> QED
        BY <1>2, <4>2, <4>5
    <3>6. 0 .. size \subseteq good
      <4>1. \A n \in 1 .. size : n - 1 \in good => n \in good
        BY <3>5
      <4> HIDE DEF good
      <4> QED
        BY ONLY <1>2, <3>4, <4>1, UpTo
    <3>7. \A n \in 1 .. size : f[n] = Round(f[n - 1])
      <4>1. \A n \in 1 .. size : n - 1 \in 0 .. size
        BY <1>2
      <4> QED
        BY <3>5, <3>6, <4>1
    <3>8. \A n \in 0 .. size : f[n] = IF n = 0 THEN init ELSE Round(f[n - 1])
      <4>1. \A n \in 0 .. size : n = 0 \/ n \in 1 .. size
        BY <1>2
      <4> QED
        BY <3>3, <3>7, <4>1 DEF Repeats
    <3>9. Walked(f)
      BY <3>8
    <3> QED
      BY <3>9
  <2>6. PreferenceList(key, factor) = after[size].list
    BY <1>4 DEF PreferenceList
  <2> HIDE DEF after, init, Round, size
  <2>7. after[0] = init /\ \A n \in 1 .. size : after[n] = Round(after[n - 1])
    <3>1. \A n \in 0 .. size : after[n] = IF n = 0 THEN init ELSE Round(after[n - 1])
      BY <2>5
    <3>2. 0 \in 0 .. size /\ \A n \in 1 .. size : n \in 0 .. size /\ n # 0
      BY <1>2
    <3> QED
      BY <3>1, <3>2
  <2> DEFINE good == {n \in 0 .. size : WalkGood(after[n], n, key, factor)}
  <2>8. 0 .. size \subseteq good
    <3>1. 0 \in good
      BY <1>2, <2>3, <2>7
    <3>2. ASSUME NEW n \in 1 .. size, n - 1 \in good  PROVE n \in good
      <4>1. WalkGood(after[n - 1], n - 1, key, factor) /\ n - 1 \in Nat
        BY <1>2, <3>2
      <4>2. WalkGood(Round(after[n - 1]), n - 1 + 1, key, factor) /\ n - 1 + 1 = n
        BY <2>4, <4>1
      <4> QED
        BY <1>2, <2>7, <4>2
    <3> HIDE DEF good
    <3> QED
      BY ONLY <1>2, <3>1, <3>2, UpTo
  <2>9. WalkGood(after[size], size, key, factor)
    BY <1>2, <2>8
  <2>10. after[size].over
    <3> SUFFICES ASSUME ~after[size].over  PROVE FALSE
      OBVIOUS
    <3> DEFINE a == after[size].at
    <3>1. a \in D /\ Cardinality(Past(key, a)) = size
      BY <2>9 DEF WalkGood, Walks
    <3>2. Past(key, a) \in SUBSET D /\ a \notin Past(key, a)
      BY <1>1, <3>1 DEF Past, Sooner
    <3> HIDE DEF a, D
    <3>3. Past(key, a) = D
      BY <1>1, <3>1, <3>2, FS_Subset DEF size
    <3> QED
      BY <3>1, <3>2, <3>3
  <2> QED
    BY <2>6, <2>9, <2>10 DEF WalkGood
<1> QED
  BY <1>3, <1>4

LEMMA PreferenceListsAre == RingInv => HRTypeOK /\ PreferenceListSound
<1> SUFFICES ASSUME RingInv  PROVE HRTypeOK /\ PreferenceListSound
  OBVIOUS
<1>1. /\ IsFiniteSet(physicalNodes) /\ physicalNodes \subseteq RingNode /\ DOMAIN ring \subseteq Nat
      /\ \A t \in DOMAIN ring : ring[t] \in physicalNodes
  BY RingFinite
<1>2. HRTypeOK
  BY <1>1 DEF HRTypeOK
<1>3. ASSUME NEW key \in KeyToken, NEW factor \in 1 .. Cardinality(RingNode)
      PROVE  LET list == PreferenceList(key, factor)
                 left(i) == {t \in DOMAIN ring : ring[t] \notin Range(SubSeq(list, 1, i - 1))}
                 first(ts) == Min(IF \E t \in ts : t >= key THEN {t \in ts : t >= key} ELSE ts)
             IN  /\ Len(list) = Min({factor, Cardinality(physicalNodes)})
                 /\ \A i \in DOMAIN list : left(i) # {} /\ list[i] = ring[first(left(i))]
  <2> DEFINE list == PreferenceList(key, factor)
             left(i) == {t \in DOMAIN ring : ring[t] \notin Range(SubSeq(list, 1, i - 1))}
             first(ts) == Min(IF \E t \in ts : t >= key THEN {t \in ts : t >= key} ELSE ts)
             all == Cardinality(physicalNodes)
  <2>1. factor \in Nat \ {0} /\ all \in Nat
    BY <1>1, FS_CardinalityType, TokensFinite
  <2>2. /\ Ordered(list, key) /\ Len(list) <= factor /\ Len(list) <= all
        /\ Len(list) = factor \/ Len(list) = all
    BY <2>1, PreferenceListIs
  <2> HIDE DEF list, all
  <2>3. Len(list) = Min({factor, all})
    <3>1. {factor, all} \subseteq Nat /\ {factor, all} # {}
      BY <2>1
    <3>2. Min({factor, all}) \in {factor, all} /\ \A t \in {factor, all} : Min({factor, all}) <= t
      BY <3>1, LeastOf
    <3> DEFINE m == Min({factor, all})
    <3>3. (m = factor \/ m = all) /\ m <= factor /\ m <= all
      BY <3>2
    <3> HIDE DEF m
    <3>4. Len(list) \in Nat
      BY <2>2 DEF Ordered
    <3>5. Len(list) = m
      BY <2>1, <2>2, <3>3, <3>4
    <3> QED
      BY <3>5 DEF m
  <2>4. \A ts : first(ts) = Chosen(ts, key)
    <3> TAKE ts
    <3>1. (\E t \in ts : t >= key) <=> ~({t \in ts : t >= key} = {})
      OBVIOUS
    <3> QED
      BY <3>1 DEF Chosen
  <2>5. ASSUME NEW i \in DOMAIN list  PROVE left(i) = Unnamed(list, i)
    <3>1. list \in Seq(RingNode) /\ i \in 1 .. Len(list)
      BY <2>2 DEF Ordered
    <3> DEFINE part == SubSeq(list, 1, i - 1)
    <3>2. i - 1 \in 0 .. Len(list) /\ i - 1 \in Nat
      BY <3>1
    <3>3. part = [j \in 1 .. i - 1 |-> list[j]]
      BY <3>1, <3>2
    <3> HIDE DEF part
    <3>4. Range(part) = {list[j] : j \in 1 .. i - 1}
      BY <3>3 DEF Range
    <3> QED
      BY <3>4 DEF Unnamed, part
  <2>6. ASSUME NEW i \in DOMAIN list  PROVE left(i) # {} /\ list[i] = ring[first(left(i))]
    <3>1. i \in 1 .. Len(list)
      BY <2>2 DEF Ordered
    <3>2. Unnamed(list, i) # {} /\ list[i] = ring[Chosen(Unnamed(list, i), key)]
      BY <2>2, <3>1 DEF Ordered
    <3> HIDE DEF left, first
    <3> QED
      BY <2>4, <2>5, <3>2
  <2> QED
    BY <2>3, <2>6 DEF list, all
<1> QED
  BY <1>2, <1>3 DEF PreferenceListSound

\* The preference list of a key is the nodes met going around the ring from it, each
\* once, as many as asked for or all: for any nodes, tokens and replication factor.
THEOREM PreferenceListCorrect == HRSpec => [](HRTypeOK /\ PreferenceListSound)
BY RingInvInit, RingInvStep, PreferenceListsAre, PTL DEF HRSpec
-----------------------------------------------------------------------------
(* Proof: compare() is causality, for any processes, ticks and messages *)

\* The ticks clock c has counted.
Counted(c) == {e \in VCProcess \X (1 .. MaxTicks) : e[2] <= CountOf(c, e[1])}

Tells(h) == h.clock \in Clock /\ h.known = Counted(h.clock)

\* A clock, also one in a message, counts exactly what its holder knows of: it
\* is not enough that it counts no less.
ClocksTell ==
    /\ clock \in [VCProcess -> Clock]
    /\ known \in [VCProcess -> SUBSET (VCProcess \X (1 .. MaxTicks))]
    /\ \A who \in VCProcess : known[who] = Counted(clock[who])
    /\ \A m \in sent : Tells(m)

\* A clock maps some processes to a positive number of ticks; a count is 0
\* for the others.
LEMMA ClockFacts ==
    ASSUME NEW c
    PROVE  /\ c \in Clock <=> /\ DOMAIN c \subseteq VCProcess
                              /\ c = [q \in DOMAIN c |-> c[q]]
                              /\ \A q \in DOMAIN c : c[q] \in 1 .. MaxTicks
           /\ c \in Clock => /\ \A q \in VCProcess : CountOf(c, q) \in 0 .. MaxTicks
                             /\ \A q \in DOMAIN c : CountOf(c, q) > 0
                             /\ \A q : q \notin DOMAIN c => CountOf(c, q) = 0
<1>1. c \in Clock => /\ DOMAIN c \subseteq VCProcess
                     /\ c = [q \in DOMAIN c |-> c[q]]
                     /\ \A q \in DOMAIN c : c[q] \in 1 .. MaxTicks
  BY DEF Clock
<1>2. ASSUME DOMAIN c \subseteq VCProcess, c = [q \in DOMAIN c |-> c[q]],
             \A q \in DOMAIN c : c[q] \in 1 .. MaxTicks
      PROVE  c \in Clock
  <2>1. c \in [DOMAIN c -> 1 .. MaxTicks]
    BY <1>2
  <2> QED
    BY <1>2, <2>1 DEF Clock
<1> QED
  BY <1>1, <1>2, MaxTicksNat DEF CountOf

\* tick() counts one more of its process.
LEMMA TickCounts ==
    ASSUME NEW c \in Clock, NEW who \in VCProcess, CountOf(c, who) < MaxTicks
    PROVE  /\ Ticked(c, who) \in Clock
           /\ Counted(Ticked(c, who)) = Counted(c) \union {<<who, CountOf(c, who) + 1>>}
           /\ CountOf(c, who) + 1 \in 1 .. MaxTicks
<1> DEFINE d == Ticked(c, who)
<1>1. \A q \in VCProcess : CountOf(c, q) \in 0 .. MaxTicks
  BY ClockFacts
<1>2. /\ DOMAIN d = DOMAIN c \union {who} /\ DOMAIN c \subseteq VCProcess
      /\ d = [q \in DOMAIN d |-> d[q]]
      /\ \A q \in DOMAIN d : d[q] = IF q = who THEN CountOf(c, who) + 1 ELSE c[q]
  BY ClockFacts DEF Ticked
<1>3. CountOf(c, who) + 1 \in 1 .. MaxTicks
  BY <1>1, MaxTicksNat
<1>4. \A q \in DOMAIN d : d[q] \in 1 .. MaxTicks
  BY <1>2, <1>3, ClockFacts
<1> HIDE DEF d
<1>5. d \in Clock
  BY <1>2, <1>4, ClockFacts
<1>6. \A q \in VCProcess : CountOf(d, q) = IF q = who THEN CountOf(c, who) + 1 ELSE CountOf(c, q)
  BY <1>2 DEF CountOf
<1>7. Counted(d) = Counted(c) \union {<<who, CountOf(c, who) + 1>>}
  <2>1. ASSUME NEW q \in VCProcess, NEW k \in 1 .. MaxTicks
        PROVE  <<q, k>> \in Counted(d)
                  <=> <<q, k>> \in Counted(c) \union {<<who, CountOf(c, who) + 1>>}
    BY <1>1, <1>6, MaxTicksNat DEF Counted
  <2>2. Counted(d) \subseteq VCProcess \X (1 .. MaxTicks)
    BY DEF Counted
  <2>3. Counted(c) \union {<<who, CountOf(c, who) + 1>>} \subseteq VCProcess \X (1 .. MaxTicks)
    BY <1>3 DEF Counted
  <2> QED
    BY <2>1, <2>2, <2>3
<1> QED
  BY <1>3, <1>5, <1>7 DEF d

\* merge() counts what either clock has counted.
LEMMA MergeCounts ==
    ASSUME NEW c \in Clock, NEW o \in Clock
    PROVE  /\ Merged(c, o) \in Clock
           /\ Counted(Merged(c, o)) = Counted(c) \union Counted(o)
<1> DEFINE d == Merged(c, o)
<1>1. \A q \in VCProcess : CountOf(c, q) \in 0 .. MaxTicks /\ CountOf(o, q) \in 0 .. MaxTicks
  BY ClockFacts
<1>2. /\ DOMAIN d = DOMAIN c \union DOMAIN o
      /\ DOMAIN c \subseteq VCProcess /\ DOMAIN o \subseteq VCProcess
      /\ d = [q \in DOMAIN d |-> d[q]]
      /\ \A q \in DOMAIN d :
            d[q] = IF q \in DOMAIN o /\ o[q] > CountOf(c, q) THEN o[q] ELSE c[q]
  BY ClockFacts DEF Merged
<1>3. /\ \A q \in DOMAIN c : c[q] \in 1 .. MaxTicks /\ CountOf(c, q) = c[q]
      /\ \A q \in DOMAIN o : o[q] \in 1 .. MaxTicks /\ CountOf(o, q) = o[q]
      /\ \A q : q \notin DOMAIN c => CountOf(c, q) = 0
      /\ \A q : q \notin DOMAIN o => CountOf(o, q) = 0
  BY ClockFacts DEF CountOf
<1> HIDE DEF d
<1>4. \A q \in DOMAIN d : d[q] \in 1 .. MaxTicks
  BY <1>2, <1>3, MaxTicksNat
<1>5. d \in Clock
  BY <1>2, <1>4, ClockFacts
<1>6. \A q \in VCProcess :
         CountOf(d, q) = IF CountOf(o, q) > CountOf(c, q) THEN CountOf(o, q) ELSE CountOf(c, q)
  <2> TAKE q \in VCProcess
  <2>1. CASE q \in DOMAIN d
    BY <1>1, <1>2, <1>3, <2>1, MaxTicksNat DEF CountOf
  <2>2. CASE q \notin DOMAIN d
    BY <1>2, <1>3, <2>2 DEF CountOf
  <2> QED
    BY <2>1, <2>2
<1>7. ASSUME NEW q \in VCProcess, NEW k \in 1 .. MaxTicks
      PROVE  <<q, k>> \in Counted(d) <=> <<q, k>> \in Counted(c) \union Counted(o)
  BY <1>1, <1>6, MaxTicksNat DEF Counted
<1>8. Counted(d) = Counted(c) \union Counted(o)
  BY <1>7 DEF Counted
<1> QED
  BY <1>5, <1>8 DEF d

\* At first nobody knows of anything.
LEMMA ClocksTellInit == VCInit => ClocksTell
<1> SUFFICES ASSUME VCInit  PROVE ClocksTell
  OBVIOUS
<1>1. NoTicks \in Clock
  BY ClockFacts DEF NoTicks
<1>2. Counted(NoTicks) = {}
  BY MaxTicksNat DEF Counted, CountOf, NoTicks
<1> QED
  BY <1>1, <1>2 DEF VCInit, ClocksTell

\* A clock keeps telling what its holder knows: whatever arrives, in any order
\* and any number of times, was true when it was sent.
LEMMA ClocksTellStep == ClocksTell /\ [VCNext]_vcVars => ClocksTell'
<1> SUFFICES ASSUME ClocksTell, [VCNext]_vcVars  PROVE ClocksTell'
  OBVIOUS
<1>1. ASSUME NEW who \in VCProcess, Tick(who)  PROVE ClocksTell'
  <2>1. /\ clock[who] \in Clock /\ CountOf(clock[who], who) < MaxTicks
        /\ clock' = [clock EXCEPT ![who] = Ticked(clock[who], who)]
        /\ known' = [known EXCEPT ![who] = known[who] \union {<<who, CountOf(clock[who], who) + 1>>}]
        /\ sent' = sent
    BY <1>1 DEF Tick, ClocksTell
  <2>2. /\ Ticked(clock[who], who) \in Clock
        /\ Counted(Ticked(clock[who], who)) = Counted(clock[who]) \union {<<who, CountOf(clock[who], who) + 1>>}
        /\ CountOf(clock[who], who) + 1 \in 1 .. MaxTicks
    BY <2>1, TickCounts
  <2>3. clock' \in [VCProcess -> Clock]
    BY <2>1, <2>2 DEF ClocksTell
  <2>4. known' \in [VCProcess -> SUBSET (VCProcess \X (1 .. MaxTicks))]
    <3>1. known[who] \union {<<who, CountOf(clock[who], who) + 1>>} \subseteq VCProcess \X (1 .. MaxTicks)
      BY <2>2 DEF ClocksTell
    <3> QED
      BY <2>1, <3>1 DEF ClocksTell
  <2>5. \A q \in VCProcess : known'[q] = Counted(clock'[q])
    BY <2>1, <2>2 DEF ClocksTell
  <2> QED
    BY <2>1, <2>3, <2>4, <2>5 DEF ClocksTell
<1>2. ASSUME NEW who \in VCProcess, Send(who)  PROVE ClocksTell'
  BY <1>2 DEF Send, ClocksTell, Tells
<1>3. ASSUME NEW who \in VCProcess, Receive(who)  PROVE ClocksTell'
  <2>1. PICK m \in sent :
           /\ clock' = [clock EXCEPT ![who] = Merged(clock[who], m.clock)]
           /\ known' = [known EXCEPT ![who] = known[who] \union m.known]
           /\ sent' = sent
    BY <1>3 DEF Receive
  <2>2. /\ clock[who] \in Clock /\ m.clock \in Clock
        /\ m.known = Counted(m.clock) /\ known[who] = Counted(clock[who])
    BY DEF ClocksTell, Tells
  <2>3. /\ Merged(clock[who], m.clock) \in Clock
        /\ Counted(Merged(clock[who], m.clock)) = known[who] \union m.known
    BY <2>2, MergeCounts
  <2>4. known[who] \union m.known \subseteq VCProcess \X (1 .. MaxTicks)
    BY <2>2 DEF Counted
  <2> QED
    BY <2>1, <2>3, <2>4 DEF ClocksTell
<1>4. CASE UNCHANGED vcVars
  BY <1>4 DEF vcVars, ClocksTell
<1> QED
  BY <1>1, <1>2, <1>3, <1>4 DEF VCNext

\* One clock counts no more than another exactly if what it counts is part of
\* what the other counts.
LEMMA CountedOrder ==
    ASSUME NEW c \in Clock, NEW o \in Clock
    PROVE  Counted(c) \subseteq Counted(o) <=> \A q \in VCProcess : CountOf(c, q) <= CountOf(o, q)
<1>1. \A q \in VCProcess : CountOf(c, q) \in 0 .. MaxTicks /\ CountOf(o, q) \in 0 .. MaxTicks
  BY ClockFacts
<1>2. ASSUME Counted(c) \subseteq Counted(o), NEW q \in VCProcess
      PROVE  CountOf(c, q) <= CountOf(o, q)
  <2>1. CASE CountOf(c, q) = 0
    BY <1>1, <2>1
  <2>2. CASE CountOf(c, q) # 0
    <3>1. <<q, CountOf(c, q)>> \in Counted(c)
      BY <1>1, <2>2, MaxTicksNat DEF Counted
    <3> QED
      BY <1>2, <3>1 DEF Counted
  <2> QED
    BY <2>1, <2>2
<1>3. ASSUME \A q \in VCProcess : CountOf(c, q) <= CountOf(o, q)
      PROVE  Counted(c) \subseteq Counted(o)
  BY <1>1, <1>3, MaxTicksNat DEF Counted
<1> QED
  BY <1>2, <1>3

\* What compare() answers, by what the two clocks count.
LEMMA CompareTells ==
    ASSUME NEW c \in Clock, NEW o \in Clock
    PROVE  Compare(c, o) =
              CASE Counted(c) = Counted(o) -> "EQUAL"
                [] Counted(c) \subseteq Counted(o) /\ Counted(c) # Counted(o) -> "BEFORE"
                [] Counted(o) \subseteq Counted(c) /\ Counted(c) # Counted(o) -> "AFTER"
                [] OTHER -> "CONCURRENT"
<1> DEFINE names        == DOMAIN c \union DOMAIN o
           thisGreater  == \E who \in names : CountOf(c, who) > CountOf(o, who)
           otherGreater == \E who \in names : CountOf(o, who) > CountOf(c, who)
<1>1. \A q \in VCProcess : CountOf(c, q) \in 0 .. MaxTicks /\ CountOf(o, q) \in 0 .. MaxTicks
  BY ClockFacts
<1>2. /\ names \subseteq VCProcess
      /\ \A q \in VCProcess : q \notin names => CountOf(c, q) = 0 /\ CountOf(o, q) = 0
  BY ClockFacts
<1>3. ~thisGreater <=> \A q \in VCProcess : CountOf(c, q) <= CountOf(o, q)
  BY <1>1, <1>2, MaxTicksNat
<1>4. ~otherGreater <=> \A q \in VCProcess : CountOf(o, q) <= CountOf(c, q)
  BY <1>1, <1>2, MaxTicksNat
<1>5. ~thisGreater <=> Counted(c) \subseteq Counted(o)
  BY <1>3, CountedOrder
<1>6. ~otherGreater <=> Counted(o) \subseteq Counted(c)
  BY <1>4, CountedOrder
<1>7. Compare(c, o) = CASE thisGreater /\ otherGreater -> "CONCURRENT"
                        [] thisGreater /\ ~otherGreater -> "AFTER"
                        [] ~thisGreater /\ otherGreater -> "BEFORE"
                        [] OTHER -> "EQUAL"
  BY DEF Compare
<1> HIDE DEF thisGreater, otherGreater
<1>8. Counted(c) = Counted(o) <=> ~thisGreater /\ ~otherGreater
  BY <1>5, <1>6
<1> QED
  BY <1>5, <1>6, <1>7, <1>8

\* compare() is causality, for any number of processes, ticks and messages that
\* are lost, repeated or late.
THEOREM CausalityExactCorrect == VCSpec => []CausalityExact
<1>1. ClocksTell => CausalityExact
  <2> SUFFICES ASSUME ClocksTell,
                      NEW a \in sent \union {[clock |-> clock[who], known |-> known[who]] : who \in VCProcess},
                      NEW b \in sent \union {[clock |-> clock[who], known |-> known[who]] : who \in VCProcess}
               PROVE  Compare(a.clock, b.clock) =
                         CASE a.known = b.known -> "EQUAL"
                           [] a.known \subseteq b.known /\ a.known # b.known -> "BEFORE"
                           [] b.known \subseteq a.known /\ a.known # b.known -> "AFTER"
                           [] OTHER -> "CONCURRENT"
    BY DEF CausalityExact
  <2>1. Tells(a) /\ Tells(b)
    BY DEF ClocksTell, Tells
  <2>2. /\ a.clock \in Clock /\ b.clock \in Clock
        /\ a.known = Counted(a.clock) /\ b.known = Counted(b.clock)
    BY <2>1 DEF Tells
  <2> QED
    BY <2>2, CompareTells
<1> QED
  BY <1>1, ClocksTellInit, ClocksTellStep, PTL DEF VCSpec

-----------------------------------------------------------------------------
(* Proof: what Raft logs and state machines agree on, for any servers, terms and logs *)

LeaderLog == raft[leader].log
CurrentTerm == raft[leader].term

ServerState ==
    [term : 0 .. MaxTerm, log : Seq(LogEntry), commit : 0 .. MaxIndex, applied : Seq(Command)]

ServerFits(server) == server \in ServerState /\ Len(server.log) <= MaxIndex

\* What a server has applied are the first entries of its log.
Sound(server) ==
    /\ ServerFits(server)
    /\ server.commit = Len(server.applied)
    /\ server.commit <= Len(server.log)
    /\ \A i \in 1 .. server.commit : server.applied[i] = server.log[i].command

\* log and lead have the same first k entries.
SameUpTo(log, lead, k) == k <= Len(log) /\ k <= Len(lead) /\ \A i \in 1 .. k : log[i] = lead[i]

\* An election tells every server of the term.
OneTerm == \A s \in Server : raft[s].term = CurrentTerm

\* Terms grow along a log; those of the current term the leader has, too.
TermsGrow ==
    \A s \in Server : \A i \in DOMAIN raft[s].log :
        /\ raft[s].log[i].term <= CurrentTerm
        /\ raft[s].log[i].term = CurrentTerm
              => i <= Len(LeaderLog) /\ LeaderLog[i].term = CurrentTerm
        /\ \A j \in i .. Len(raft[s].log) : raft[s].log[i].term <= raft[s].log[j].term

\* A log with an entry of some term has the leader's log of that term up to there:
\* logs with an entry of one term are the same up to the first of the two.
LogsMatch ==
    \A s, t \in Server : \A i \in DOMAIN raft[s].log, j \in DOMAIN raft[t].log :
        i <= j /\ raft[s].log[i].term = raft[t].log[j].term
            => SameUpTo(raft[s].log, raft[t].log, i)

\* The calls of the current term are of the present leader, and commit only what
\* had been answered for before the entry they carry.
Call ==
    [term : 0 .. MaxTerm, prev : 0 .. MaxIndex, prevTerm : 0 .. MaxTerm,
     entry : LogEntry, commit : 0 .. MaxIndex]

CallsOfLeader ==
    \A c \in calls :
        /\ c \in Call /\ c.term <= CurrentTerm
        /\ c.term = CurrentTerm =>
              /\ c.prev < Len(LeaderLog)
              /\ c.entry = LeaderLog[c.prev + 1]
              /\ c.prevTerm = TermAt(LeaderLog, c.prev)
              /\ c.commit <= Len(acked) /\ c.commit <= c.prev

\* A majority has the first k entries, and so has every log with an entry of a later
\* term than the k-th, and thus every later leader.
CommittedUpTo(k) ==
    /\ k <= Len(LeaderLog)
    /\ \E Q \in SUBSET Server :
          Majority(Q) /\ \A s \in Q : SameUpTo(raft[s].log, LeaderLog, k)
    /\ \A s \in Server : \A i \in DOMAIN raft[s].log :
          raft[s].log[i].term > TermAt(LeaderLog, k) => SameUpTo(raft[s].log, LeaderLog, k)

\* Nobody commits more than was answered for, misled or not: a misled server is
\* wrong about its own log only.
CommitsAnswered == \A s \in Server : ServerFits(raft[s]) /\ raft[s].commit <= Len(acked)

\* The others have applied entries of their log that the leader has.
OthersSound ==
    \A s \in Server \ misled :
        Sound(raft[s]) /\ SameUpTo(raft[s].log, LeaderLog, raft[s].commit)

RaftInv ==
    /\ leader \in Server
    /\ raft \in [Server -> ServerState]
    /\ acked \in Seq(LogEntry)
    /\ CommitsAnswered
    /\ OthersSound
    /\ OneTerm
    /\ TermsGrow
    /\ LogsMatch
    /\ CallsOfLeader
    /\ SameUpTo(acked, LeaderLog, Len(acked))
    /\ CommittedUpTo(Len(acked))

\* The larger and the smaller of two numbers.
LEMMA MaxOfTwo == \A a, b \in Int : Max({a, b}) = IF a >= b THEN a ELSE b
<1> TAKE a, b \in Int
<1> DEFINE m == IF a >= b THEN a ELSE b
<1>1. m \in {a, b} /\ \A y \in {a, b} : m >= y
  OBVIOUS
<1>2. \A x \in {a, b} : (\A y \in {a, b} : x >= y) => x = m
  OBVIOUS
<1> QED
  BY <1>1, <1>2 DEF Max

LEMMA MinOfTwo == \A a, b \in Int : Min({a, b}) = IF a <= b THEN a ELSE b
<1> TAKE a, b \in Int
<1> DEFINE m == IF a <= b THEN a ELSE b
<1>1. m \in {a, b} /\ \A y \in {a, b} : m =< y
  OBVIOUS
<1>2. \A x \in {a, b} : (\A y \in {a, b} : x =< y) => x = m
  OBVIOUS
<1> QED
  BY <1>1, <1>2 DEF Min

\* Applying the entries up to an index of the log, whatever was applied before.
LEMMA CommitFits ==
    ASSUME NEW r, ServerFits(r), NEW at \in Nat, at <= Len(r.log)
    PROVE  /\ ServerFits(CommitTo(r, at))
           /\ CommitTo(r, at).term = r.term
           /\ CommitTo(r, at).log = r.log
           /\ CommitTo(r, at).commit = at
<1> DEFINE n == Len(r.applied)
           m == Max({at - n, 0})
           more == [i \in 1 .. m |-> r.log[n + i].command]
           all == r.applied \o more
<1>1. /\ r \in ServerState /\ r.log \in Seq(LogEntry) /\ r.applied \in Seq(Command)
      /\ n \in Nat /\ Len(r.log) <= MaxIndex /\ Len(r.log) \in Nat
  BY DEF ServerFits, ServerState
<1>2. at \in 0 .. MaxIndex
  BY <1>1, BoundsNat
<1>3. m = IF at - n >= 0 THEN at - n ELSE 0
  <2>1. at - n \in Int /\ 0 \in Int
    BY <1>1
  <2> HIDE DEF n
  <2> QED
    BY ONLY <2>1, MaxOfTwo DEF m
<1> HIDE DEF m
<1>4. m \in Nat /\ \A i \in 1 .. m : n + i \in 1 .. Len(r.log)
  BY <1>1, <1>3
<1>5. \A j \in 1 .. Len(r.log) : r.log[j].command \in Command
  <2>1. \A j \in 1 .. Len(r.log) : r.log[j] \in LogEntry
    BY <1>1
  <2> QED
    BY ONLY <2>1 DEF LogEntry
<1>6. more \in Seq(Command)
  <2>1. \A i \in 1 .. m : r.log[n + i].command \in Command
    BY <1>4, <1>5
  <2> QED
    BY <1>4, <2>1
<1>7. CommitTo(r, at) = [r EXCEPT !.commit = at, !.applied = all]
  BY DEF CommitTo, m
<1> HIDE DEF more
<1>8. all \in Seq(Command)
  BY <1>1, <1>6
<1> HIDE DEF all
<1>9. /\ CommitTo(r, at) \in ServerState
      /\ CommitTo(r, at).term = r.term /\ CommitTo(r, at).log = r.log
      /\ CommitTo(r, at).commit = at
  BY <1>1, <1>2, <1>7, <1>8 DEF ServerState
<1> QED
  BY <1>1, <1>9 DEF ServerFits

\* The same for a server that had applied a part of its log.
LEMMA CommitSound ==
    ASSUME NEW r, Sound(r), NEW at \in Nat, r.commit <= at, at <= Len(r.log)
    PROVE  /\ Sound(CommitTo(r, at))
           /\ CommitTo(r, at).term = r.term
           /\ CommitTo(r, at).log = r.log
           /\ CommitTo(r, at).commit = at
<1> DEFINE n == Len(r.applied)
           m == at - n
           more == [i \in 1 .. m |-> r.log[n + i].command]
<1>1. /\ r \in ServerState /\ r.log \in Seq(LogEntry) /\ r.applied \in Seq(Command)
      /\ n = r.commit /\ n \in Nat /\ n <= at /\ Len(r.log) <= MaxIndex
      /\ \A i \in 1 .. n : r.applied[i] = r.log[i].command
  BY DEF Sound, ServerFits, ServerState
<1>2. m \in Nat /\ at \in 0 .. MaxIndex
  BY <1>1, BoundsNat
<1>3. Max({at - n, 0}) = m
  <2> HIDE DEF n
  <2>1. m \in Int /\ 0 \in Int /\ m >= 0
    BY ONLY <1>2
  <2>2. Max({m, 0}) = IF m >= 0 THEN m ELSE 0
    BY ONLY <2>1, MaxOfTwo
  <2> QED
    BY ONLY <2>1, <2>2
<1>4. CommitTo(r, at) = [r EXCEPT !.commit = at, !.applied = r.applied \o more]
  BY <1>3 DEF CommitTo
<1>5. more \in Seq(Command) /\ Len(more) = m /\ \A i \in 1 .. m : more[i] = r.log[n + i].command
  <2>1. \A i \in 1 .. m : n + i \in 1 .. Len(r.log)
    BY <1>1, <1>2
  <2>2. \A j \in 1 .. Len(r.log) : r.log[j].command \in Command
    <3>1. r.log \in Seq(LogEntry)
      BY <1>1
    <3>2. \A j \in 1 .. Len(r.log) : r.log[j] \in LogEntry
      BY ONLY <3>1
    <3> QED
      BY ONLY <3>2 DEF LogEntry
  <2>3. \A i \in 1 .. m : r.log[n + i].command \in Command
    BY <2>1, <2>2
  <2> HIDE DEF m
  <2> QED
    BY <1>2, <2>3
<1> HIDE DEF more
<1>6. /\ r.applied \o more \in Seq(Command)
      /\ Len(r.applied \o more) = at
      /\ \A i \in 1 .. at :
            (r.applied \o more)[i] = IF i <= n THEN r.applied[i] ELSE more[i - n]
  <2> DEFINE old == r.applied
  <2>a. old \in Seq(Command) /\ more \in Seq(Command) /\ Len(old) = n /\ Len(more) = m
    BY <1>1, <1>5
  <2> HIDE DEF old, n, m
  <2>b. /\ old \o more \in Seq(Command) /\ Len(old \o more) = n + m
        /\ \A i \in 1 .. (n + m) : (old \o more)[i] = IF i <= n THEN old[i] ELSE more[i - n]
    BY ONLY <2>a, ConcatProperties
  <2>1. r.applied \o more \in Seq(Command) /\ Len(r.applied \o more) = n + m
    BY <2>b DEF old
  <2>2. \A i \in 1 .. (n + m) :
           (r.applied \o more)[i] = IF i <= n THEN r.applied[i] ELSE more[i - n]
    BY <2>b DEF old
  <2> USE DEF n, m
  <2>3. n + m = at
    BY <1>1
  <2> QED
    BY <2>1, <2>2, <2>3
<1>7. \A i \in 1 .. at : (r.applied \o more)[i] = r.log[i].command
  <2> TAKE i \in 1 .. at
  <2>1. i \in Nat /\ n \in Nat
    BY <1>1
  <2>2. CASE i <= n
    BY <1>1, <1>6, <2>1, <2>2
  <2>3. CASE ~(i <= n)
    <3>1. i - n \in 1 .. m /\ n + (i - n) = i
      BY <1>1, <1>2, <2>1, <2>3
    <3>2. (r.applied \o more)[i] = more[i - n]
      BY <1>6, <2>3
    <3>3. more[i - n] = r.log[n + (i - n)].command
      BY <1>5, <3>1
    <3> QED
      BY <3>1, <3>2, <3>3
  <2> QED
    BY <2>2, <2>3
<1> DEFINE all == r.applied \o more
<1>8. CommitTo(r, at) = [r EXCEPT !.commit = at, !.applied = all]
  BY <1>4
<1>9. all \in Seq(Command) /\ Len(all) = at /\ \A i \in 1 .. at : all[i] = r.log[i].command
  BY <1>6, <1>7
<1> HIDE DEF all
<1>10. /\ CommitTo(r, at) \in ServerState
       /\ CommitTo(r, at).term = r.term /\ CommitTo(r, at).log = r.log
       /\ CommitTo(r, at).commit = at /\ CommitTo(r, at).applied = all
  BY <1>1, <1>2, <1>8, <1>9 DEF ServerState
<1> QED
  BY <1>1, <1>9, <1>10 DEF Sound, ServerFits

\* Logs that agree with a third one agree.
LEMMA SameBoth ==
    ASSUME NEW a \in Seq(LogEntry), NEW b \in Seq(LogEntry), NEW c \in Seq(LogEntry),
           NEW i \in Nat, NEW j \in Nat, i <= j, SameUpTo(a, c, i), SameUpTo(b, c, j)
    PROVE  SameUpTo(a, b, i)
BY DEF SameUpTo

LEMMA SameLess ==
    ASSUME NEW a \in Seq(LogEntry), NEW b \in Seq(LogEntry),
           NEW i \in Nat, NEW j \in Nat, i <= j, SameUpTo(a, b, j)
    PROVE  SameUpTo(a, b, i)
BY DEF SameUpTo

\* Where a call puts its entry: what the log had in common with the sender's it
\* keeps, and it has one entry more in common then.
LEMMA PlacedFacts ==
    ASSUME NEW log \in Seq(LogEntry), NEW lead \in Seq(LogEntry), NEW call,
           call.prev \in Nat, call.prev < Len(lead), call.entry = lead[call.prev + 1],
           SameUpTo(log, lead, call.prev),
           \A i \in DOMAIN log :
               i <= Len(lead) /\ log[i].term = lead[i].term => log[i] = lead[i]
    PROVE  /\ Placed(log, call) \in Seq(LogEntry)
           /\ SameUpTo(Placed(log, call), lead, call.prev + 1)
           /\ \/ Placed(log, call) = log
              \/ /\ Len(Placed(log, call)) = call.prev + 1
                 /\ \A k \in Nat : SameUpTo(log, lead, k) => k <= call.prev
<1> DEFINE who == call.prev
           new == Placed(log, call)
<1>1. /\ who \in Nat /\ who <= Len(log) /\ who < Len(lead) /\ Len(log) \in Nat /\ Len(lead) \in Nat
      /\ \A i \in 1 .. who : log[i] = lead[i]
      /\ lead[who + 1] \in LogEntry
  BY DEF SameUpTo
<1>2. CASE who + 1 > Len(log)
  <2>1. new = Append(log, lead[who + 1]) /\ Len(log) = who
    BY <1>1, <1>2 DEF Placed
  <2>2. /\ Append(log, lead[who + 1]) \in Seq(LogEntry)
        /\ Len(Append(log, lead[who + 1])) = who + 1
        /\ \A i \in 1 .. (who + 1) : Append(log, lead[who + 1])[i] = lead[i]
    BY <1>1, <2>1
  <2>3. \A k \in Nat : SameUpTo(log, lead, k) => k <= who
    BY <2>1 DEF SameUpTo
  <2> HIDE DEF new
  <2> QED
    BY <1>1, <2>1, <2>2, <2>3 DEF SameUpTo, new
<1>3. CASE who + 1 <= Len(log) /\ log[who + 1].term = lead[who + 1].term
  <2>1. new = log
    BY <1>1, <1>3 DEF Placed
  <2>2. log[who + 1] = lead[who + 1]
    BY <1>1, <1>3
  <2> QED
    BY <1>1, <1>3, <2>1, <2>2 DEF SameUpTo
<1>4. CASE who + 1 <= Len(log) /\ log[who + 1].term # lead[who + 1].term
  <2> DEFINE kept == SubSeq(log, 1, who)
  <2>1. new = Append(kept, lead[who + 1])
    BY <1>1, <1>4 DEF Placed
  <2>2. kept \in Seq(LogEntry) /\ Len(kept) = who /\ \A i \in 1 .. who : kept[i] = log[i]
    <3>1. \A i \in 1 .. who : log[i] \in LogEntry
      BY <1>1
    <3>2. kept \in Seq(LogEntry)
      BY <1>1, <3>1, SubSeqProperties
    <3>3. Len(kept) = IF 1 <= who THEN who - 1 + 1 ELSE 0
      BY <1>1, <3>1, SubSeqProperties
    <3>4. \A i \in 1 .. who : kept[i] = log[i]
      BY <1>1
    <3> HIDE DEF kept
    <3> QED
      BY <1>1, <3>2, <3>3, <3>4
  <2> HIDE DEF kept
  <2>3. /\ Append(kept, lead[who + 1]) \in Seq(LogEntry)
        /\ Len(Append(kept, lead[who + 1])) = who + 1
        /\ \A i \in 1 .. (who + 1) : Append(kept, lead[who + 1])[i] = lead[i]
    BY <1>1, <2>2
  <2>4. \A k \in Nat : SameUpTo(log, lead, k) => k <= who
    <3> SUFFICES ASSUME NEW k \in Nat, SameUpTo(log, lead, k), k > who  PROVE FALSE
      BY <1>1
    <3>1. who + 1 \in 1 .. k
      BY <1>1
    <3>2. log[who + 1] = lead[who + 1]
      BY <3>1 DEF SameUpTo
    <3> QED
      BY <1>4, <3>2
  <2> HIDE DEF new
  <2> QED
    BY <1>1, <2>1, <2>3, <2>4 DEF SameUpTo, new
<1> QED
  BY <1>1, <1>2, <1>3, <1>4

\* A call that is accepted, sent by a server whose log was lead: the entry before
\* its own fits, so that all before it do.
LEMMA AppendedFacts ==
    ASSUME NEW r, ServerFits(r), NEW lead \in Seq(LogEntry), Len(lead) <= MaxIndex,
           NEW c \in Call, c.term = r.term, c.prev < Len(lead),
           c.entry = lead[c.prev + 1], c.prevTerm = TermAt(lead, c.prev), c.commit <= c.prev,
           \A i \in DOMAIN r.log :
               i <= Len(lead) /\ r.log[i].term = lead[i].term => SameUpTo(r.log, lead, i),
           Accepts(r, c)
    PROVE  LET d == Appended(r, c)
           IN  /\ ServerFits(d)
               /\ d.term = r.term
               /\ SameUpTo(d.log, lead, c.prev + 1)
               /\ \/ d.log = r.log
                  \/ /\ Len(d.log) = c.prev + 1
                     /\ \A k \in Nat : SameUpTo(r.log, lead, k) => k <= c.prev
               /\ d.commit \in {r.commit, c.commit}
               /\ Sound(r) /\ SameUpTo(r.log, lead, r.commit)
                     => Sound(d) /\ SameUpTo(d.log, lead, d.commit)
<1> DEFINE new == Placed(r.log, c)
           placed == [r EXCEPT !.log = new]
<1>1. /\ r \in ServerState /\ r.log \in Seq(LogEntry) /\ r.commit \in 0 .. MaxIndex
      /\ r.term \in 0 .. MaxTerm /\ Len(r.log) <= MaxIndex /\ Len(r.log) \in Nat
      /\ Len(lead) \in Nat /\ r.commit \in Nat
      /\ c.prev \in Nat /\ c.commit \in Nat /\ c.prev <= Len(r.log)
  BY BoundsNat DEF ServerFits, ServerState, Call, Accepts
<1>2. SameUpTo(r.log, lead, c.prev)
  <2>1. CASE c.prev = 0
    BY <1>1, <2>1 DEF SameUpTo
  <2>2. CASE c.prev # 0
    <3>1. c.prev \in DOMAIN r.log /\ c.prev <= Len(lead)
      BY <1>1, <2>2
    <3>2. r.log[c.prev].term = lead[c.prev].term
      BY <2>2 DEF Accepts, TermAt
    <3> QED
      BY <3>1, <3>2
  <2> QED
    BY <2>1, <2>2
<1>3. \A i \in DOMAIN r.log :
         i <= Len(lead) /\ r.log[i].term = lead[i].term => r.log[i] = lead[i]
  <2> SUFFICES ASSUME NEW i \in DOMAIN r.log, i <= Len(lead), r.log[i].term = lead[i].term
               PROVE  r.log[i] = lead[i]
    OBVIOUS
  <2>1. SameUpTo(r.log, lead, i) /\ i \in 1 .. i
    BY <1>1
  <2> QED
    BY <2>1 DEF SameUpTo
<1>4. /\ new \in Seq(LogEntry) /\ SameUpTo(new, lead, c.prev + 1)
      /\ \/ new = r.log
         \/ /\ Len(new) = c.prev + 1
            /\ \A k \in Nat : SameUpTo(r.log, lead, k) => k <= c.prev
  BY <1>1, <1>2, <1>3, PlacedFacts
<1> HIDE DEF new
<1>5. /\ Len(new) \in Nat /\ Len(new) <= MaxIndex /\ c.prev + 1 <= Len(new)
      /\ SameUpTo(r.log, lead, r.commit) => SameUpTo(new, lead, r.commit)
  <2>1. Len(new) \in Nat /\ c.prev + 1 <= Len(new)
    BY <1>4 DEF SameUpTo
  <2>2. CASE new = r.log
    BY <1>1, <2>1, <2>2
  <2>3. CASE /\ Len(new) = c.prev + 1
             /\ \A k \in Nat : SameUpTo(r.log, lead, k) => k <= c.prev
    <3>1. SameUpTo(r.log, lead, r.commit) => r.commit <= c.prev
      BY <1>1, <2>3
    <3>2. r.commit <= c.prev => SameUpTo(new, lead, r.commit)
      BY <1>1, <1>4, <2>1, <2>3 DEF SameUpTo
    <3> QED
      BY <1>1, <2>1, <2>3, <3>1, <3>2, BoundsNat
  <2> QED
    BY <1>4, <2>2, <2>3
<1>6. /\ ServerFits(placed) /\ placed.term = r.term /\ placed.log = new /\ placed.commit = r.commit
      /\ Sound(r) /\ SameUpTo(r.log, lead, r.commit) => Sound(placed)
  <2>1. /\ placed \in ServerState /\ placed.term = r.term /\ placed.log = new
        /\ placed.commit = r.commit /\ placed.applied = r.applied
    BY <1>1, <1>4 DEF ServerState
  <2>2. SameUpTo(r.log, lead, r.commit) => \A i \in 1 .. r.commit : new[i] = r.log[i]
    BY <1>5 DEF SameUpTo
  <2>3. SameUpTo(r.log, lead, r.commit) => r.commit <= Len(new)
    BY <1>5 DEF SameUpTo
  <2> HIDE DEF placed
  <2> QED
    BY <1>5, <2>1, <2>2, <2>3 DEF Sound, ServerFits
<1>7. Max({r.term, c.term}) = r.term
  <2>1. r.term \in Int
    BY <1>1
  <2>2. Max({r.term, r.term}) = r.term
    BY ONLY <2>1, MaxOfTwo
  <2> QED
    BY <2>2
<1>8. [[r EXCEPT !.term = Max({@, c.term})] EXCEPT !.log = Placed(@, c)] = placed
  <2>1. [r EXCEPT !.term = Max({@, c.term})] = r
    BY <1>1, <1>7 DEF ServerState
  <2> QED
    BY <2>1 DEF new
<1>9. Appended(r, c) = IF c.commit > r.commit
                       THEN CommitTo(placed, Min({c.commit, Len(placed.log)})) ELSE placed
  <2>1. placed.log = new
    BY <1>6
  <2>2. Appended(r, c) =
          LET seen == [r EXCEPT !.term = Max({@, c.term})]
              put  == [seen EXCEPT !.log = Placed(@, c)]
          IN  IF c.commit > r.commit THEN CommitTo(put, Min({c.commit, Len(put.log)})) ELSE put
    BY DEF Appended
  <2> HIDE DEF placed
  <2> QED
    BY <1>8, <2>2
<1>10. CASE ~(c.commit > r.commit)
  <2>1. Appended(r, c) = placed
    BY <1>9, <1>10
  <2> HIDE DEF placed
  <2> QED
    BY <1>1, <1>4, <1>5, <1>6, <2>1
<1>11. CASE c.commit > r.commit
  <2> DEFINE d == CommitTo(placed, c.commit)
  <2>1. Min({c.commit, Len(new)}) = c.commit
    <3>1. c.commit \in Int /\ Len(new) \in Int /\ c.commit <= Len(new)
      BY <1>1, <1>5
    <3> QED
      BY ONLY <3>1, MinOfTwo
  <2>2. Appended(r, c) = d
    BY <1>6, <1>9, <1>11, <2>1
  <2> HIDE DEF placed
  <2>3. /\ ServerFits(d) /\ d.term = r.term /\ d.log = new /\ d.commit = c.commit
        /\ Sound(placed) => Sound(d)
    <3>1. c.commit \in Nat /\ placed.commit <= c.commit /\ c.commit <= Len(placed.log)
      BY <1>1, <1>5, <1>6, <1>11
    <3>2. Sound(placed) => Sound(d)
      BY <3>1, CommitSound
    <3> QED
      BY <1>6, <3>1, <3>2, CommitFits
  <2>4. SameUpTo(new, lead, c.commit)
    BY <1>1, <1>4, <1>5 DEF SameUpTo
  <2> HIDE DEF d
  <2> QED
    BY <1>1, <1>4, <1>6, <1>11, <2>2, <2>3, <2>4
<1> QED
  BY <1>10, <1>11

\* A call that is rejected, of no newer term, changes nothing.
LEMMA RejectedFacts ==
    ASSUME NEW r, ServerFits(r), NEW c, c.term \in Nat, c.term <= r.term, ~Accepts(r, c)
    PROVE  Appended(r, c) = r
<1>1. r \in ServerState /\ r.term \in Nat
  BY BoundsNat DEF ServerFits, ServerState
<1>2. Max({r.term, c.term}) = r.term
  <2>1. r.term \in Int /\ c.term \in Int /\ r.term >= c.term
    BY <1>1
  <2> QED
    BY ONLY <2>1, MaxOfTwo
<1>3. Appended(r, c) = [r EXCEPT !.term = Max({@, c.term})]
  BY DEF Appended
<1> QED
  BY <1>1, <1>2, <1>3 DEF ServerState

\* The invariant at first.
LEMMA RaftInvInit == RFInit => RaftInv
<1> SUFFICES ASSUME RFInit  PROVE RaftInv
  OBVIOUS
<1>1. /\ leader \in Server /\ calls = {} /\ acked = << >>
      /\ raft = [s \in Server |-> [term |-> 0, log |-> << >>, commit |-> 0, applied |-> << >>]]
  BY DEF RFInit
<1>2. [term |-> 0, log |-> << >>, commit |-> 0, applied |-> << >>] \in ServerState
  BY BoundsNat DEF ServerState
<1>3. \A s \in Server : /\ raft[s] \in ServerState /\ raft[s].term = 0 /\ raft[s].log = << >>
                        /\ raft[s].commit = 0 /\ raft[s].applied = << >>
  BY <1>1, <1>2
<1>4. Majority(Server)
  <2>1. Cardinality(Server) \in Nat /\ Cardinality(Server) # 0
    BY SomeServers, FS_CardinalityType, FS_EmptySet
  <2> QED
    BY <2>1 DEF Majority
<1>5. /\ acked \in Seq(LogEntry) /\ Len(acked) = 0 /\ SameUpTo(acked, LeaderLog, Len(acked))
      /\ CommittedUpTo(Len(acked))
  BY <1>1, <1>3, <1>4 DEF CommittedUpTo, SameUpTo, LeaderLog
<1>6. CommitsAnswered /\ OthersSound
  BY <1>1, <1>3, <1>5, BoundsNat DEF CommitsAnswered, OthersSound, Sound, ServerFits, SameUpTo, LeaderLog
<1>7. OneTerm /\ TermsGrow /\ LogsMatch /\ CallsOfLeader
  BY <1>1, <1>3 DEF OneTerm, TermsGrow, LogsMatch, CallsOfLeader, CurrentTerm
<1> QED
  BY <1>1, <1>2, <1>5, <1>6, <1>7 DEF RaftInv

\* What the steps below use of the invariant.
LEMMA RaftFacts ==
    ASSUME RaftInv
    PROVE  /\ leader \in Server /\ LeaderLog \in Seq(LogEntry)
           /\ Len(LeaderLog) \in Nat /\ Len(LeaderLog) <= MaxIndex
           /\ CurrentTerm \in 0 .. MaxTerm
           /\ acked \in Seq(LogEntry) /\ Len(acked) \in Nat /\ Len(acked) <= Len(LeaderLog)
           /\ \A s \in Server :
                 /\ raft[s] \in ServerState /\ ServerFits(raft[s])
                 /\ raft[s].term = CurrentTerm
                 /\ raft[s].log \in Seq(LogEntry) /\ Len(raft[s].log) \in Nat
                 /\ raft[s].commit \in 0 .. MaxIndex /\ raft[s].commit \in Nat
                 /\ raft[s].commit <= Len(acked)
                 /\ s \notin misled => Sound(raft[s])
                                       /\ SameUpTo(raft[s].log, LeaderLog, raft[s].commit)
                 /\ \A i \in DOMAIN raft[s].log :
                       /\ raft[s].log[i] \in LogEntry /\ raft[s].log[i].term \in Nat
                       /\ i <= Len(LeaderLog) /\ raft[s].log[i].term = LeaderLog[i].term
                             => SameUpTo(raft[s].log, LeaderLog, i)
<1>1. /\ leader \in Server /\ raft \in [Server -> ServerState]
      /\ \A s \in Server : /\ ServerFits(raft[s]) /\ Len(raft[s].log) <= MaxIndex
                           /\ raft[s].commit <= Len(acked)
  BY DEF RaftInv, CommitsAnswered, ServerFits
<1>2. \A s \in Server :
         /\ raft[s] \in ServerState /\ raft[s].term \in 0 .. MaxTerm
         /\ raft[s].log \in Seq(LogEntry) /\ Len(raft[s].log) \in Nat
         /\ raft[s].commit \in 0 .. MaxIndex /\ raft[s].commit \in Nat
  BY <1>1, BoundsNat DEF ServerState
<1>3. \A s \in Server : raft[s].term = CurrentTerm
  BY DEF RaftInv, OneTerm
<1>4. \A s \in Server : s \notin misled =>
         Sound(raft[s]) /\ SameUpTo(raft[s].log, LeaderLog, raft[s].commit)
  BY DEF RaftInv, OthersSound
<1>5. ASSUME NEW s \in Server, NEW i \in DOMAIN raft[s].log
      PROVE  raft[s].log[i] \in LogEntry /\ raft[s].log[i].term \in Nat
  <2>1. raft[s].log[i] \in LogEntry
    BY <1>2
  <2> QED
    BY <2>1, BoundsNat DEF LogEntry
<1>6. ASSUME NEW s \in Server, NEW i \in DOMAIN raft[s].log,
             i <= Len(LeaderLog), raft[s].log[i].term = LeaderLog[i].term
      PROVE  SameUpTo(raft[s].log, LeaderLog, i)
  <2>1. i \in DOMAIN raft[leader].log /\ i \in Nat
    BY <1>1, <1>2, <1>6 DEF LeaderLog
  <2> QED
    BY <1>1, <1>6, <2>1 DEF RaftInv, LogsMatch, LeaderLog
<1>7. acked \in Seq(LogEntry) /\ Len(acked) \in Nat /\ Len(acked) <= Len(LeaderLog)
  BY DEF RaftInv, SameUpTo
<1> QED
  BY <1>1, <1>2, <1>3, <1>4, <1>5, <1>6, <1>7 DEF LeaderLog, CurrentTerm

\* A server that takes over entries of the leader keeps the invariant.
LEMMA FollowKeeps ==
    ASSUME RaftInv, NEW s \in Server, s # leader, NEW d,
           raft' = [raft EXCEPT ![s] = d], leader' = leader, calls' = calls,
           acked' = acked, misled' = misled,
           ServerFits(d), d.term = CurrentTerm,
           \/ d.log = raft[s].log
           \/ /\ SameUpTo(d.log, LeaderLog, Len(d.log))
              /\ \A k \in Nat : SameUpTo(raft[s].log, LeaderLog, k) => k <= Len(d.log),
           d.commit <= Len(acked),
           s \notin misled => Sound(d) /\ SameUpTo(d.log, LeaderLog, d.commit)
    PROVE  RaftInv'
<1>1. /\ leader \in Server /\ LeaderLog \in Seq(LogEntry) /\ Len(LeaderLog) \in Nat
      /\ \A t \in Server : raft[t].log \in Seq(LogEntry) /\ Len(raft[t].log) \in Nat
      /\ acked \in Seq(LogEntry) /\ Len(acked) \in Nat
  BY RaftFacts
<1>2. d \in ServerState /\ d.log \in Seq(LogEntry) /\ Len(d.log) \in Nat /\ d.commit \in Nat
  BY BoundsNat DEF ServerFits, ServerState
<1>3. /\ raft' \in [Server -> ServerState] /\ raft'[s] = d
      /\ \A t \in Server : t # s => raft'[t] = raft[t]
  BY <1>2 DEF RaftInv
<1>4. LeaderLog' = LeaderLog /\ CurrentTerm' = CurrentTerm /\ raft'[leader] = raft[leader]
  BY <1>1, <1>3 DEF LeaderLog, CurrentTerm
<1>5. ASSUME NEW t \in Server
      PROVE  \E u \in Server : \A i \in DOMAIN raft'[t].log :
                i \in DOMAIN raft[u].log /\ raft'[t].log[i] = raft[u].log[i]
  <2>1. CASE raft'[t].log = raft[t].log
    BY <2>1
  <2>2. CASE t = s /\ SameUpTo(d.log, LeaderLog, Len(d.log))
    <3> DEFINE mine == d.log
               its  == LeaderLog
    <3>2. /\ mine \in Seq(LogEntry) /\ its \in Seq(LogEntry) /\ SameUpTo(mine, its, Len(mine))
          /\ DOMAIN mine = 1 .. Len(mine)
      BY <1>1, <1>2, <2>2
    <3> HIDE DEF mine, its
    <3>3. \A i \in DOMAIN mine : i \in DOMAIN its /\ mine[i] = its[i]
      BY ONLY <3>2 DEF SameUpTo
    <3>1. \A i \in DOMAIN d.log : i \in DOMAIN LeaderLog /\ d.log[i] = LeaderLog[i]
      BY <3>3 DEF mine, its
    <3> QED
      BY <1>1, <1>3, <2>2, <3>1 DEF LeaderLog
  <2> QED
    BY <1>3, <2>1, <2>2
<1>6. OneTerm'
  BY <1>3, <1>4 DEF RaftInv, OneTerm
<1>7. CommitsAnswered' /\ OthersSound'
  <2>1. \A t \in Server : ServerFits(raft[t]) /\ raft[t].commit <= Len(acked)
    BY DEF RaftInv, CommitsAnswered
  <2>2. \A t \in Server : ServerFits(raft'[t]) /\ raft'[t].commit <= Len(acked)
    BY <1>3, <2>1
  <2>3. \A t \in Server \ misled :
           Sound(raft[t]) /\ SameUpTo(raft[t].log, LeaderLog, raft[t].commit)
    BY DEF RaftInv, OthersSound
  <2>4. \A t \in Server \ misled :
           Sound(raft'[t]) /\ SameUpTo(raft'[t].log, LeaderLog, raft'[t].commit)
    BY <1>3, <2>3
  <2> QED
    BY <1>4, <2>2, <2>4 DEF CommitsAnswered, OthersSound
<1>8. TermsGrow'
  <2> SUFFICES ASSUME NEW t \in Server, NEW i \in DOMAIN raft'[t].log
               PROVE  /\ raft'[t].log[i].term <= CurrentTerm
                      /\ raft'[t].log[i].term = CurrentTerm
                            => i <= Len(LeaderLog) /\ LeaderLog[i].term = CurrentTerm
                      /\ \A j \in i .. Len(raft'[t].log) :
                            raft'[t].log[i].term <= raft'[t].log[j].term
    BY <1>4 DEF TermsGrow
  <2>1. PICK u \in Server : \A j \in DOMAIN raft'[t].log :
                j \in DOMAIN raft[u].log /\ raft'[t].log[j] = raft[u].log[j]
    BY <1>5
  <2>2. /\ DOMAIN raft'[t].log = 1 .. Len(raft'[t].log) /\ Len(raft'[t].log) \in Nat
        /\ DOMAIN raft[u].log = 1 .. Len(raft[u].log)
    BY <1>1, <1>2, <1>3
  <2>3. \A j \in i .. Len(raft'[t].log) : j \in DOMAIN raft'[t].log /\ j \in i .. Len(raft[u].log)
    BY <1>1, <2>1, <2>2
  <2>4. /\ raft[u].log[i].term <= CurrentTerm
        /\ raft[u].log[i].term = CurrentTerm
              => i <= Len(LeaderLog) /\ LeaderLog[i].term = CurrentTerm
        /\ \A j \in i .. Len(raft[u].log) : raft[u].log[i].term <= raft[u].log[j].term
    BY <2>1 DEF RaftInv, TermsGrow
  <2> QED
    BY <2>1, <2>3, <2>4
<1>9. LogsMatch'
  <2> SUFFICES ASSUME NEW t \in Server, NEW u \in Server,
                      NEW i \in DOMAIN raft'[t].log, NEW j \in DOMAIN raft'[u].log,
                      i <= j, raft'[t].log[i].term = raft'[u].log[j].term
               PROVE  SameUpTo(raft'[t].log, raft'[u].log, i)
    BY DEF LogsMatch
  <2>1. PICK v \in Server : \A m \in DOMAIN raft'[t].log :
                m \in DOMAIN raft[v].log /\ raft'[t].log[m] = raft[v].log[m]
    BY <1>5
  <2>2. PICK w \in Server : \A m \in DOMAIN raft'[u].log :
                m \in DOMAIN raft[w].log /\ raft'[u].log[m] = raft[w].log[m]
    BY <1>5
  <2>3. SameUpTo(raft[v].log, raft[w].log, i)
    BY <2>1, <2>2 DEF RaftInv, LogsMatch
  <2>4. /\ i \in 1 .. Len(raft'[t].log) /\ j \in 1 .. Len(raft'[u].log)
        /\ \A m \in 1 .. i : m \in DOMAIN raft'[t].log /\ m \in DOMAIN raft'[u].log
    BY SMTT(40), <1>1, <1>2, <1>3
  <2>5. /\ \A m \in DOMAIN raft'[t].log : m \in DOMAIN raft[v].log /\ raft'[t].log[m] = raft[v].log[m]
        /\ \A m \in DOMAIN raft'[u].log : m \in DOMAIN raft[w].log /\ raft'[u].log[m] = raft[w].log[m]
    BY <2>1, <2>2
  <2> QED
    BY ONLY SMTT(40), <2>3, <2>4, <2>5 DEF SameUpTo
<1>10. CallsOfLeader'
  BY <1>4 DEF RaftInv, CallsOfLeader
<1>11. CommittedUpTo(Len(acked))'
  <2> DEFINE k == Len(acked)
  <2>1. CommittedUpTo(k) /\ k <= Len(LeaderLog) /\ k \in Nat
    BY <1>1 DEF RaftInv, CommittedUpTo
  <2> HIDE DEF k
  <2>2. SameUpTo(raft[s].log, LeaderLog, k) => SameUpTo(d.log, LeaderLog, k)
    BY <1>2, <2>1 DEF SameUpTo
  <2>3. \A t \in Server :
           SameUpTo(raft[t].log, LeaderLog, k) => SameUpTo(raft'[t].log, LeaderLog, k)
    BY <1>3, <2>2
  <2>5. \E Q \in SUBSET Server :
           Majority(Q) /\ \A t \in Q : SameUpTo(raft'[t].log, LeaderLog, k)
    <3>1. PICK Q \in SUBSET Server :
             Majority(Q) /\ \A t \in Q : SameUpTo(raft[t].log, LeaderLog, k)
      BY <2>1 DEF CommittedUpTo
    <3> QED
      BY <2>3, <3>1
  <2>6. ASSUME NEW t \in Server, NEW i \in DOMAIN raft'[t].log,
               raft'[t].log[i].term > TermAt(LeaderLog, k)
        PROVE  SameUpTo(raft'[t].log, LeaderLog, k)
    <3>1. CASE raft'[t].log = raft[t].log
      BY <2>1, <2>6, <3>1 DEF CommittedUpTo
    <3>2. CASE t = s /\ SameUpTo(d.log, LeaderLog, Len(d.log))
      <4>1. i \in 1 .. Len(d.log) /\ d.log[i] = LeaderLog[i] /\ i \in DOMAIN LeaderLog
        BY SMTT(40), <1>1, <1>2, <1>3, <2>6, <3>2 DEF SameUpTo
      <4>2. k < i
        <5> SUFFICES ASSUME i <= k  PROVE FALSE
          BY <2>1, <4>1
        <5>1. k # 0 /\ TermAt(LeaderLog, k) = LeaderLog[k].term
          BY <4>1 DEF TermAt
        <5>2. k \in i .. Len(LeaderLog)
          BY <1>1, <2>1, <4>1
        <5>3. LeaderLog[i].term <= LeaderLog[k].term
          BY <1>1, <4>1, <5>2 DEF RaftInv, TermsGrow, LeaderLog
        <5>4. LeaderLog[i].term \in Nat /\ LeaderLog[k].term \in Nat
          BY SMTT(40), <1>1, <4>1, <5>1, <5>2, RaftFacts DEF LeaderLog
        <5> QED
          BY <1>3, <2>6, <3>2, <4>1, <5>1, <5>3, <5>4
      <4> QED
        BY <1>2, <1>3, <2>1, <3>2, <4>1, <4>2 DEF SameUpTo
    <3> QED
      BY <1>3, <3>1, <3>2
  <2> QED
    BY <1>4, <2>1, <2>5, <2>6 DEF CommittedUpTo, Majority, k
<1>12. acked' \in Seq(LogEntry) /\ SameUpTo(acked, LeaderLog, Len(acked))'
  BY <1>4 DEF RaftInv
<1> QED
  BY <1>1, <1>3, <1>6, <1>7, <1>8, <1>9, <1>10, <1>11, <1>12 DEF RaftInv

\* A call that arrives late is of an older term, and rejected, or the leader's.
LEMMA LateKeeps ==
    ASSUME RaftInv, NEW s \in Server, NEW c \in calls, LateCall(s, c)
    PROVE  RaftInv'
<1> DEFINE r == raft[s]
           d == Appended(r, c)
<1>1. /\ s # leader /\ raft' = [raft EXCEPT ![s] = d] /\ leader' = leader /\ calls' = calls
      /\ acked' = acked /\ misled' = misled
  <2>1. raft \in [Server -> ServerState]
    BY DEF RaftInv
  <2> QED
    BY <2>1 DEF LateCall
<1>2. c \in Call /\ c.term <= CurrentTerm /\ c.term \in Nat
  BY BoundsNat DEF RaftInv, CallsOfLeader, Call
<1>3. /\ ServerFits(r) /\ r.term = CurrentTerm /\ r.term \in Nat /\ r.commit \in Nat
      /\ r.commit <= Len(acked)
      /\ s \notin misled => Sound(r) /\ SameUpTo(r.log, LeaderLog, r.commit)
  BY RaftFacts, BoundsNat
<1>4. CASE ~Accepts(r, c)
  <2>1. d = r
    <3> HIDE DEF r
    <3> QED
      BY <1>2, <1>3, <1>4, RejectedFacts
  <2> HIDE DEF d
  <2> QED
    BY <1>1, <1>3, <2>1, FollowKeeps
<1>5. CASE Accepts(r, c)
  <2>1. c.term = CurrentTerm
    BY <1>2, <1>3, <1>5 DEF Accepts
  <2>2. /\ c.prev < Len(LeaderLog) /\ c.entry = LeaderLog[c.prev + 1]
        /\ c.prevTerm = TermAt(LeaderLog, c.prev)
        /\ c.commit <= Len(acked) /\ c.commit <= c.prev
    BY <2>1 DEF RaftInv, CallsOfLeader
  <2>3. /\ LeaderLog \in Seq(LogEntry) /\ Len(LeaderLog) <= MaxIndex
        /\ Len(LeaderLog) \in Nat /\ c.prev \in Nat
        /\ \A i \in DOMAIN r.log :
              i <= Len(LeaderLog) /\ r.log[i].term = LeaderLog[i].term
                  => SameUpTo(r.log, LeaderLog, i)
    BY <1>2, RaftFacts DEF Call
  <2>4. /\ ServerFits(d) /\ d.term = r.term /\ SameUpTo(d.log, LeaderLog, c.prev + 1)
        /\ \/ d.log = r.log
           \/ /\ Len(d.log) = c.prev + 1
              /\ \A k \in Nat : SameUpTo(r.log, LeaderLog, k) => k <= c.prev
        /\ d.commit \in {r.commit, c.commit}
        /\ Sound(r) /\ SameUpTo(r.log, LeaderLog, r.commit)
              => Sound(d) /\ SameUpTo(d.log, LeaderLog, d.commit)
    <3> HIDE DEF r
    <3> QED
      BY <1>2, <1>3, <1>5, <2>1, <2>2, <2>3, AppendedFacts
  <2>5. \/ d.log = r.log
        \/ /\ SameUpTo(d.log, LeaderLog, Len(d.log))
           /\ \A k \in Nat : SameUpTo(r.log, LeaderLog, k) => k <= Len(d.log)
    <3> HIDE DEF d, r
    <3> QED
      BY <2>3, <2>4
  <2>6. d.commit <= Len(acked)
    <3> HIDE DEF d, r
    <3> QED
      BY <1>3, <2>2, <2>4
  <2> HIDE DEF d
  <2> QED
    BY <1>1, <1>3, <2>4, <2>5, <2>6, FollowKeeps
<1> QED
  BY <1>4, <1>5

\* The leader appends an entry of its term, and the servers of H have its log then;
\* when they are a majority, the entry is committed and answered for.
LEMMA RequestKeeps ==
    ASSUME RaftInv, NEW H \in SUBSET Server, leader \in H, NEW e \in LogEntry, e.term = CurrentTerm,
           Len(LeaderLog) < MaxIndex,
           raft' \in [Server -> ServerState], leader' = leader,
           \A s \in Server : ServerFits(raft'[s]) /\ raft'[s].term = CurrentTerm,
           \A s \in H : raft'[s].log = Append(LeaderLog, e),
           \A s \in Server \ H : raft'[s].log = raft[s].log,
           calls' = calls \union {[term |-> CurrentTerm, prev |-> Len(LeaderLog),
                                   prevTerm |-> LastTerm(LeaderLog), entry |-> e,
                                   commit |-> raft[leader].commit]},
           \/ /\ Majority(H) /\ acked' = Append(LeaderLog, e)
              /\ \A s \in Server : raft'[s].commit <= Len(LeaderLog) + 1
           \/ acked' = acked /\ \A s \in Server : raft'[s].commit <= Len(acked),
           \A s \in Server \ misled' :
              Sound(raft'[s]) /\ SameUpTo(raft'[s].log, Append(LeaderLog, e), raft'[s].commit)
    PROVE  RaftInv'
<1> DEFINE n == Len(LeaderLog)
           new == Append(LeaderLog, e)
<1>1. /\ leader \in Server /\ LeaderLog \in Seq(LogEntry) /\ n \in Nat /\ n <= MaxIndex
      /\ CurrentTerm \in 0 .. MaxTerm /\ CurrentTerm \in Nat
      /\ \A s \in Server : /\ raft[s].log \in Seq(LogEntry) /\ Len(raft[s].log) \in Nat
                           /\ raft[s].commit \in Nat /\ raft[s].commit \in 0 .. MaxIndex
                           /\ raft[s].commit <= Len(acked)
      /\ acked \in Seq(LogEntry) /\ Len(acked) \in Nat /\ Len(acked) <= n
  BY RaftFacts
<1>2. /\ new \in Seq(LogEntry) /\ Len(new) = n + 1 /\ new[n + 1] = e
      /\ \A i \in 1 .. n : new[i] = LeaderLog[i]
  BY <1>1
<1> HIDE DEF new
<1>3. LeaderLog' = new /\ CurrentTerm' = CurrentTerm
  BY <1>1 DEF LeaderLog, CurrentTerm, new
<1>4. \A s \in H : raft'[s].log = new
  BY DEF new
<1>5. \A k \in Nat : k <= n =>
         /\ SameUpTo(new, new, k)
         /\ TermAt(new, k) = TermAt(LeaderLog, k)
         /\ \A s \in Server : SameUpTo(raft[s].log, LeaderLog, k) => SameUpTo(raft[s].log, new, k)
  BY <1>1, <1>2 DEF SameUpTo, TermAt
<1>6. \A s \in Server \ H : raft'[s].log = raft[s].log
  OBVIOUS
<1>7. \A i \in DOMAIN LeaderLog : LeaderLog[i] = raft[leader].log[i] /\ i \in DOMAIN raft[leader].log
  BY DEF LeaderLog
<1>8. OneTerm'
  BY <1>3 DEF OneTerm
<1>9. TermsGrow'
  <2> SUFFICES ASSUME NEW t \in Server, NEW i \in DOMAIN raft'[t].log
               PROVE  /\ raft'[t].log[i].term <= CurrentTerm
                      /\ raft'[t].log[i].term = CurrentTerm
                            => i <= Len(new) /\ new[i].term = CurrentTerm
                      /\ \A j \in i .. Len(raft'[t].log) :
                            raft'[t].log[i].term <= raft'[t].log[j].term
    BY <1>3 DEF TermsGrow
  <2>1. CASE t \in H
    <3>1. i \in 1 .. (n + 1) /\ raft'[t].log = new
      BY <1>2, <1>4, <2>1
    <3>2. \A j \in 1 .. n : new[j].term <= CurrentTerm
      <4>1. \A j \in 1 .. n : LeaderLog[j].term <= CurrentTerm
        BY <1>1, <1>7 DEF RaftInv, TermsGrow
      <4> QED
        BY <1>2, <4>1
    <3>3. \A j \in 1 .. (n + 1) : new[j].term <= CurrentTerm
      BY <1>1, <1>2, <3>2
    <3>4. ASSUME NEW j \in i .. (n + 1)  PROVE new[i].term <= new[j].term
      <4>1. CASE j = n + 1
        BY <1>2, <3>1, <3>3, <4>1
      <4>2. CASE j # n + 1
        <5>1. i \in 1 .. n /\ j \in 1 .. n /\ j \in i .. n
          BY <1>1, <3>1, <4>2
        <5>2. LeaderLog[i].term <= LeaderLog[j].term
          BY <1>1, <1>7, <5>1 DEF RaftInv, TermsGrow, LeaderLog
        <5> QED
          BY <1>2, <5>1, <5>2
      <4> QED
        BY <4>1, <4>2
    <3> QED
      BY <1>2, <3>1, <3>3, <3>4
  <2>2. CASE t \notin H
    <3>1. raft'[t].log = raft[t].log
      BY <1>6, <2>2
    <3>2. /\ raft[t].log[i].term <= CurrentTerm
          /\ raft[t].log[i].term = CurrentTerm => i <= n /\ LeaderLog[i].term = CurrentTerm
          /\ \A j \in i .. Len(raft[t].log) : raft[t].log[i].term <= raft[t].log[j].term
      BY <3>1 DEF RaftInv, TermsGrow
    <3>3. i \in Nat /\ i >= 1
      BY <1>1, <3>1
    <3> QED
      BY <1>1, <1>2, <3>1, <3>2, <3>3
  <2> QED
    BY <2>1, <2>2
\* The only entries of the current term past the old log of the leader are new.
<1>10. ASSUME NEW s \in Server, NEW i \in DOMAIN raft[s].log, raft[s].log[i].term = CurrentTerm
       PROVE  i <= n /\ SameUpTo(raft[s].log, LeaderLog, i)
  <2>1. i <= n /\ LeaderLog[i].term = CurrentTerm
    BY <1>10 DEF RaftInv, TermsGrow
  <2> QED
    BY <1>10, <2>1, RaftFacts
<1>11. LogsMatch'
  <2> SUFFICES ASSUME NEW t \in Server, NEW u \in Server,
                      NEW i \in DOMAIN raft'[t].log, NEW j \in DOMAIN raft'[u].log,
                      i <= j, raft'[t].log[i].term = raft'[u].log[j].term
               PROVE  SameUpTo(raft'[t].log, raft'[u].log, i)
    BY DEF LogsMatch
  <2>1. CASE t \in H /\ u \in H
    BY <1>1, <1>2, <1>4, <2>1 DEF SameUpTo
  <2>2. CASE t \notin H /\ u \notin H
    <3>1. raft'[t].log = raft[t].log /\ raft'[u].log = raft[u].log
      BY <1>6, <2>2
    <3> QED
      BY <3>1 DEF RaftInv, LogsMatch
  <2>3. CASE t \in H /\ u \notin H
    <3>1. raft'[t].log = new /\ raft'[u].log = raft[u].log
      BY <1>4, <1>6, <2>3
    <3>2. i \in 1 .. (n + 1) /\ j \in 1 .. Len(raft[u].log)
      BY <1>1, <1>2, <3>1
    <3>3. i # n + 1
      <4> SUFFICES ASSUME i = n + 1  PROVE FALSE
        OBVIOUS
      <4>1. raft[u].log[j].term = CurrentTerm
        BY <1>2, <3>1
      <4>2. j <= n
        BY <1>10, <3>1, <4>1
      <4> QED
        BY <1>1, <3>2, <4>2
    <3>4. i \in DOMAIN LeaderLog /\ LeaderLog[i].term = raft[u].log[j].term
      BY <1>1, <1>2, <3>1, <3>2, <3>3
    <3>5. SameUpTo(LeaderLog, raft[u].log, i)
      BY <1>1, <3>1, <3>4 DEF RaftInv, LogsMatch, LeaderLog
    <3> QED
      BY <1>1, <1>2, <3>1, <3>2, <3>3, <3>5 DEF SameUpTo
  <2>4. CASE t \notin H /\ u \in H
    <3>1. raft'[t].log = raft[t].log /\ raft'[u].log = new
      BY <1>4, <1>6, <2>4
    <3>2. i \in 1 .. Len(raft[t].log) /\ j \in 1 .. (n + 1)
      BY <1>1, <1>2, <3>1
    <3>3. i <= n /\ SameUpTo(raft[t].log, LeaderLog, i)
      <4>1. CASE j = n + 1
        BY <1>2, <1>10, <3>1, <4>1
      <4>2. CASE j # n + 1
        <5>1. j \in DOMAIN LeaderLog /\ LeaderLog[j].term = raft[t].log[i].term /\ j <= n
          BY <1>1, <1>2, <3>1, <3>2, <4>2
        <5>2. SameUpTo(raft[t].log, LeaderLog, i)
          BY <1>1, <3>1, <5>1 DEF RaftInv, LogsMatch, LeaderLog
        <5> QED
          BY <1>1, <3>2, <5>1, <5>2
      <4> QED
        BY <4>1, <4>2
    <3> QED
      BY <1>5, <3>1, <3>2, <3>3
  <2> QED
    BY <2>1, <2>2, <2>3, <2>4
<1>12. Len(acked') \in Nat /\ Len(acked) <= Len(acked')
  BY <1>1, <1>2 DEF new
<1>13. CallsOfLeader'
  <2> SUFFICES ASSUME NEW c \in calls'
               PROVE  /\ c \in Call /\ c.term <= CurrentTerm
                      /\ c.term = CurrentTerm =>
                            /\ c.prev < n + 1
                            /\ c.entry = new[c.prev + 1]
                            /\ c.prevTerm = TermAt(new, c.prev)
                            /\ c.commit <= Len(acked') /\ c.commit <= c.prev
    BY <1>2, <1>3 DEF CallsOfLeader
  <2>1. CASE c \in calls
    <3>1. /\ c \in Call /\ c.term <= CurrentTerm
          /\ c.term = CurrentTerm =>
                /\ c.prev < n
                /\ c.entry = LeaderLog[c.prev + 1]
                /\ c.prevTerm = TermAt(LeaderLog, c.prev)
                /\ c.commit <= Len(acked) /\ c.commit <= c.prev
      BY <2>1 DEF RaftInv, CallsOfLeader
    <3>2. c.prev \in Nat /\ c.commit \in Nat
      BY <3>1, BoundsNat DEF Call
    <3>4. c.prev < n => new[c.prev + 1] = LeaderLog[c.prev + 1]
      <4>1. \A a, b \in Nat : a < b => a + 1 \in 1 .. b
        OBVIOUS
      <4>2. c.prev < n => c.prev + 1 \in 1 .. n
        BY <1>1, <3>2, <4>1
      <4> QED
        BY <1>2, <4>2
    <3> QED
      BY <1>1, <1>5, <1>12, <3>1, <3>2, <3>4
  <2>2. CASE c \notin calls
    <3>1. /\ c.term = CurrentTerm /\ c.prev = n /\ c.prevTerm = LastTerm(LeaderLog)
          /\ c.entry = e /\ c.commit = raft[leader].commit
      BY <2>2
    <3>2. LastTerm(LeaderLog) \in 0 .. MaxTerm
      <4>1. CASE n = 0
        BY <4>1, BoundsNat DEF LastTerm, TermAt
      <4>2. CASE n # 0
        <5>1. LeaderLog[n] \in LogEntry /\ LastTerm(LeaderLog) = LeaderLog[n].term
          BY <1>1, <4>2 DEF LastTerm, TermAt
        <5> QED
          BY <5>1 DEF LogEntry
      <4> QED
        BY <4>1, <4>2
    <3>3. c \in Call
      BY <1>1, <2>2, <3>2, BoundsNat DEF Call
    <3>4. c.prevTerm = TermAt(new, n)
      BY <1>1, <1>5, <3>1 DEF LastTerm
    <3> QED
      BY <1>1, <1>2, <1>12, <3>1, <3>3, <3>4
  <2> QED
    BY <2>1, <2>2
<1>14. CommitsAnswered' /\ OthersSound'
  <2>1. \A s \in Server : raft'[s].commit <= Len(acked')
    BY <1>1, <1>2 DEF new
  <2>2. \A s \in Server \ misled' :
           Sound(raft'[s]) /\ SameUpTo(raft'[s].log, new, raft'[s].commit)
    BY DEF new
  <2> QED
    BY <1>3, <2>1, <2>2 DEF CommitsAnswered, OthersSound
<1>15. CASE Majority(H) /\ acked' = new
  <2>1. \A s \in H : SameUpTo(raft'[s].log, new, n + 1)
    BY <1>1, <1>2, <1>4 DEF SameUpTo
  <2>2. TermAt(new, n + 1) = CurrentTerm
    BY <1>1, <1>2 DEF TermAt
  <2>3. \A s \in Server : \A i \in DOMAIN raft'[s].log :
           ~(raft'[s].log[i].term > TermAt(new, n + 1))
    <3>1. \A s \in Server : \A i \in DOMAIN raft'[s].log : raft'[s].log[i].term <= CurrentTerm
      BY <1>3, <1>9 DEF TermsGrow
    <3>2. \A s \in Server : \A i \in DOMAIN raft'[s].log : raft'[s].log[i].term \in Nat
      <4> SUFFICES ASSUME NEW s \in Server, NEW i \in DOMAIN raft'[s].log
                   PROVE  raft'[s].log[i].term \in Nat
        OBVIOUS
      <4>1. raft'[s].log \in Seq(LogEntry)
        BY DEF ServerState
      <4>2. raft'[s].log[i] \in LogEntry
        BY <4>1
      <4> QED
        BY <4>2, BoundsNat DEF LogEntry
    <3> QED
      BY <1>1, <2>2, <3>1, <3>2
  <2>4. Len(acked') = n + 1
    BY <1>2, <1>15
  <2>5. CommittedUpTo(Len(acked))'
    BY <1>2, <1>3, <1>15, <2>1, <2>3, <2>4 DEF CommittedUpTo, Majority
  <2>6. SameUpTo(acked, LeaderLog, Len(acked))'
    BY <1>2, <1>3, <1>15 DEF SameUpTo
  <2>7. acked' \in Seq(LogEntry)
    BY <1>2, <1>15
  <2> QED
    BY <1>1, <1>8, <1>9, <1>11, <1>13, <1>14, <2>5, <2>6, <2>7 DEF RaftInv
<1>16. CASE acked' = acked
  <2> DEFINE k == Len(acked)
  <2>1. /\ k \in Nat /\ k <= n /\ CommittedUpTo(k) /\ SameUpTo(acked, LeaderLog, k)
        /\ acked \in Seq(LogEntry)
    BY <1>1 DEF RaftInv
  <2>2. Len(acked') = k /\ acked' \in Seq(LogEntry)
    BY <1>16, <2>1
  <2> HIDE DEF k
  <2>3. \A s \in Server : SameUpTo(raft[s].log, LeaderLog, k) => SameUpTo(raft'[s].log, new, k)
    BY <1>4, <1>5, <1>6, <2>1
  <2>4. PICK Q \in SUBSET Server :
           Majority(Q) /\ \A s \in Q : SameUpTo(raft[s].log, LeaderLog, k)
    BY <2>1 DEF CommittedUpTo
  <2>5. ASSUME NEW s \in Server, NEW i \in DOMAIN raft'[s].log,
               raft'[s].log[i].term > TermAt(new, k)
        PROVE  SameUpTo(raft'[s].log, new, k)
    <3>1. CASE s \in H
      BY <1>4, <1>5, <2>1, <3>1
    <3>2. CASE s \notin H
      <4>1. i \in DOMAIN raft[s].log /\ raft[s].log[i].term > TermAt(LeaderLog, k)
        BY <1>5, <1>6, <2>1, <2>5, <3>2
      <4>2. SameUpTo(raft[s].log, LeaderLog, k)
        BY <2>1, <4>1 DEF CommittedUpTo
      <4> QED
        BY <2>3, <4>2
    <3> QED
      BY <3>1, <3>2
  <2>6. k <= n + 1
    BY <1>1, <2>1
  <2>7. \A s \in Q : SameUpTo(raft'[s].log, new, k)
    BY <2>3, <2>4
  <2>8. CommittedUpTo(Len(acked))'
    BY <1>2, <1>3, <2>2, <2>4, <2>5, <2>6, <2>7 DEF CommittedUpTo, Majority
  <2>9. SameUpTo(acked, LeaderLog, Len(acked))'
    BY <1>2, <1>3, <1>16, <2>1, <2>2 DEF SameUpTo
  <2> QED
    BY <1>1, <1>8, <1>9, <1>11, <1>13, <1>14, <2>2, <2>8, <2>9 DEF RaftInv
<1> QED
  BY <1>15, <1>16 DEF new

\* A server that is reached gets the leader's new log: nothing of its own can lie
\* past the entry before, for it would be of the current term.
LEMMA ReachedFacts ==
    ASSUME RaftInv, NEW s \in Server, NEW e \in LogEntry, e.term = CurrentTerm,
           Len(LeaderLog) < MaxIndex, NEW c,
           c = [term |-> CurrentTerm, prev |-> Len(LeaderLog), prevTerm |-> LastTerm(LeaderLog),
                entry |-> e, commit |-> raft[leader].commit],
           Accepts(raft[s], c)
    PROVE  LET d == Appended(raft[s], c)
           IN  /\ ServerFits(d) /\ d.term = CurrentTerm
               /\ d.log = Append(LeaderLog, e)
               /\ d.commit \in {raft[s].commit, raft[leader].commit}
               /\ s \notin misled => Sound(d)
<1> DEFINE r == raft[s]
           d == Appended(r, c)
           n == Len(LeaderLog)
           new == Append(LeaderLog, e)
<1>1. /\ leader \in Server /\ LeaderLog \in Seq(LogEntry) /\ n \in Nat /\ n < MaxIndex
      /\ CurrentTerm \in 0 .. MaxTerm
      /\ r.log \in Seq(LogEntry) /\ Len(r.log) \in Nat /\ r.term = CurrentTerm
      /\ r.commit \in Nat /\ raft[leader].commit \in 0 .. MaxIndex /\ raft[leader].commit \in Nat
      /\ s \notin misled => Sound(r) /\ SameUpTo(r.log, LeaderLog, r.commit)
      /\ Len(acked) \in Nat /\ Len(acked) <= n /\ raft[leader].commit <= Len(acked)
  BY RaftFacts
<1>2. /\ new \in Seq(LogEntry) /\ Len(new) = n + 1 /\ new[n + 1] = e
      /\ \A i \in 1 .. n : new[i] = LeaderLog[i]
  BY <1>1
<1> HIDE DEF new
<1>3. \A i \in DOMAIN r.log : r.log[i].term = CurrentTerm => i <= n
  BY DEF RaftInv, TermsGrow
<1>4. ServerFits(r) /\ raft[leader].commit <= n
  BY <1>1, RaftFacts
<1>5. LastTerm(LeaderLog) \in 0 .. MaxTerm
  <2>1. CASE n = 0
    BY <2>1, BoundsNat DEF LastTerm, TermAt
  <2>2. CASE n # 0
    <3>1. LeaderLog[n] \in LogEntry /\ LastTerm(LeaderLog) = LeaderLog[n].term
      BY <1>1, <2>2 DEF LastTerm, TermAt
    <3> QED
      BY <3>1 DEF LogEntry
  <2> QED
    BY <2>1, <2>2
<1>6. /\ c \in Call /\ c.term = r.term /\ c.prev = n /\ c.prev < Len(new)
      /\ c.entry = new[c.prev + 1] /\ c.commit = raft[leader].commit /\ c.commit <= c.prev
  BY <1>1, <1>2, <1>4, <1>5, BoundsNat DEF Call
<1>7. c.prevTerm = TermAt(new, c.prev)
  BY <1>1, <1>2, <1>6 DEF LastTerm, TermAt
<1>8. ASSUME NEW i \in DOMAIN r.log, i <= Len(new), r.log[i].term = new[i].term
      PROVE  SameUpTo(r.log, new, i)
  <2>1. i \in Nat /\ i >= 1 /\ i <= n
    <3>1. i \in Nat /\ i >= 1
      BY <1>1
    <3>2. i # n + 1
      <4> SUFFICES ASSUME i = n + 1  PROVE FALSE
        OBVIOUS
      <4>1. i <= n
        BY <1>2, <1>3, <1>8
      <4> QED
        BY <1>1, <4>1
    <3> QED
      BY <1>1, <1>2, <1>8, <3>1, <3>2
  <2>2. r.log[i].term = LeaderLog[i].term
    BY <1>2, <1>8, <2>1
  <2>3. SameUpTo(r.log, LeaderLog, i)
    BY <2>1, <2>2, RaftFacts
  <2> QED
    BY <1>1, <1>2, <2>1, <2>3 DEF SameUpTo
<1>9. s \notin misled => SameUpTo(r.log, new, r.commit)
  BY <1>1, <1>2 DEF SameUpTo
<1>10. /\ ServerFits(d) /\ d.term = r.term /\ SameUpTo(d.log, new, n + 1)
       /\ d.log = r.log \/ Len(d.log) = n + 1
       /\ d.commit \in {r.commit, c.commit}
       /\ Sound(r) /\ SameUpTo(r.log, new, r.commit) => Sound(d)
  <2>1. Len(new) <= MaxIndex
    BY <1>1, <1>2, BoundsNat
  <2> HIDE DEF r, n
  <2> QED
    BY ZenonT(40), <1>2, <1>4, <1>6, <1>7, <1>8, <2>1, AppendedFacts DEF r, n
<1> HIDE DEF d
<1>11. d.log \in Seq(LogEntry) /\ Len(d.log) \in Nat /\ n + 1 <= Len(d.log)
  BY <1>10 DEF ServerFits, ServerState, SameUpTo
<1>12. Len(d.log) = n + 1
  <2> SUFFICES ASSUME d.log = r.log  PROVE FALSE
    BY <1>10
  <2>1. n + 1 \in DOMAIN r.log
    BY <1>1, <1>11
  <2>2. r.log[n + 1] = e
    BY <1>1, <1>2, <1>10 DEF SameUpTo
  <2> QED
    BY <1>1, <1>3, <2>1, <2>2
<1>13. d.log = new
  <2>1. \A i \in 1 .. Len(new) : d.log[i] = new[i]
    BY SMTT(40), <1>2, <1>10 DEF SameUpTo
  <2> QED
    BY <1>2, <1>11, <1>12, <2>1
<1> QED
  BY <1>1, <1>6, <1>9, <1>10, <1>13 DEF d, new

\* A request of a client, whichever servers it reaches and whichever reject it.
LEMMA RequestStep ==
    ASSUME RaftInv, NEW command \in Command, NEW reached \in SUBSET (Server \ {leader}),
           ClientRequest(command, reached)
    PROVE  RaftInv'
<1> DEFINE n == Len(LeaderLog)
           e == [term |-> CurrentTerm, command |-> command]
           c == [term |-> CurrentTerm, prev |-> n, prevTerm |-> LastTerm(LeaderLog),
                 entry |-> e, commit |-> raft[leader].commit]
           accepting == {s \in reached : Accepts(raft[s], c)}
           H == {leader} \union accepting
           new == Append(LeaderLog, e)
           committed == Majority(H)
           proposed == [raft[leader] EXCEPT !.log = new]
           after(s) == Appended(raft[s], c)
           told(s) == CommitTo(after(s), Min({n + 1, Len(after(s).log)}))
<1>1. /\ leader \in Server /\ LeaderLog \in Seq(LogEntry) /\ n \in Nat
      /\ CurrentTerm \in 0 .. MaxTerm /\ CurrentTerm \in Nat
      /\ H \in SUBSET Server /\ leader \notin reached /\ leader \in H
      /\ Len(acked) \in Nat /\ Len(acked) <= n
      /\ \A s \in Server :
            /\ ServerFits(raft[s]) /\ raft[s].term = CurrentTerm
            /\ raft[s].commit \in Nat /\ raft[s].commit <= Len(acked)
            /\ Len(raft[s].log) \in Nat
            /\ s \notin misled => Sound(raft[s])
                                  /\ SameUpTo(raft[s].log, LeaderLog, raft[s].commit)
  BY RaftFacts, BoundsNat
<1>2. e \in LogEntry /\ e.term = CurrentTerm
  BY <1>1 DEF LogEntry
<1>3. /\ n + 1 <= MaxIndex
      /\ raft' = [s \in Server |->
                     IF s \in reached THEN (IF committed THEN told(s) ELSE after(s))
                     ELSE IF s # leader THEN raft[s]
                     ELSE IF committed THEN CommitTo(proposed, n + 1)
                     ELSE proposed]
      /\ calls' = calls \union {c}
      /\ acked' = IF committed THEN proposed.log ELSE acked
      /\ misled' = IF committed THEN misled \union (reached \ accepting) ELSE misled
      /\ leader' = leader
  <2>1. n + 1 - 1 = n
    BY <1>1
  <2> QED
    BY <2>1 DEF ClientRequest, LeaderLog, CurrentTerm
<1>4. /\ new \in Seq(LogEntry) /\ Len(new) = n + 1
      /\ \A i \in 1 .. n : new[i] = LeaderLog[i]
  BY <1>1, <1>2
<1>5. n < MaxIndex
  BY <1>1, <1>3, BoundsNat
<1>6. ASSUME NEW s \in accepting
      PROVE  /\ ServerFits(after(s)) /\ after(s).term = CurrentTerm /\ after(s).log = new
             /\ after(s).commit \in {raft[s].commit, raft[leader].commit}
             /\ s \notin misled => Sound(after(s))
  <2>1. s \in Server /\ Accepts(raft[s], c)
    OBVIOUS
  <2> HIDE DEF e
  <2> QED
    BY <1>2, <1>5, <2>1, ReachedFacts
<1>7. ASSUME NEW s \in reached \ accepting  PROVE after(s) = raft[s]
  <2>1. ~Accepts(raft[s], c) /\ c.term = CurrentTerm
    OBVIOUS
  <2>2. ServerFits(raft[s]) /\ c.term \in Nat /\ c.term <= raft[s].term
    BY <1>1, <2>1
  <2> HIDE DEF c
  <2> QED
    BY <2>1, <2>2, RejectedFacts
<1>a. \A s \in reached : s \in accepting \/ s \in reached \ accepting
  OBVIOUS
<1> HIDE DEF new, after
<1>8. /\ ServerFits(proposed) /\ proposed.term = CurrentTerm /\ proposed.log = new
      /\ proposed.commit = raft[leader].commit
      /\ leader \notin misled => Sound(proposed)
  <2>1. raft[leader] \in ServerState /\ raft[leader].term = CurrentTerm
    BY <1>1 DEF ServerFits
  <2>2. /\ proposed \in ServerState /\ proposed.term = CurrentTerm /\ proposed.log = new
        /\ proposed.commit = raft[leader].commit /\ proposed.applied = raft[leader].applied
    BY <1>4, <2>1 DEF ServerState
  <2>3. /\ raft[leader].commit \in Nat /\ raft[leader].commit <= n
        /\ \A i \in 1 .. n : new[i] = raft[leader].log[i]
    BY <1>1, <1>4 DEF LeaderLog
  <2>4. ASSUME Sound(raft[leader])
        PROVE  \A i \in 1 .. raft[leader].commit : proposed.applied[i] = proposed.log[i].command
    <3>1. \A i \in 1 .. raft[leader].commit :
             i \in 1 .. n /\ raft[leader].applied[i] = raft[leader].log[i].command
      BY <1>1, <2>3, <2>4 DEF Sound
    <3> QED
      BY <2>2, <2>3, <3>1
  <2>5. ServerFits(proposed)
    BY <1>3, <1>4, <2>2 DEF ServerFits
  <2> HIDE DEF proposed
  <2>6. leader \notin misled => Sound(proposed)
    BY <1>1, <1>4, <2>2, <2>3, <2>4, <2>5 DEF Sound
  <2> QED
    BY <2>2, <2>5, <2>6
<1> HIDE DEF proposed
<1>9. ASSUME NEW r, ServerFits(r), r.term = CurrentTerm, r.log = new
      PROVE  LET d == CommitTo(r, n + 1)
             IN  /\ ServerFits(d) /\ d.term = CurrentTerm /\ d.log = new /\ d.commit = n + 1
                 /\ Sound(r) => Sound(d)
  <2>1. n + 1 \in Nat /\ n + 1 <= Len(r.log)
    BY <1>1, <1>4, <1>9
  <2>2. Sound(r) => r.commit <= n + 1
    BY <1>4, <1>9 DEF Sound
  <2>3. Sound(r) => Sound(CommitTo(r, n + 1))
    BY <2>1, <2>2, CommitSound
  <2> QED
    BY <1>9, <2>1, <2>3, CommitFits
<1>10. \A s \in accepting : told(s) = CommitTo(after(s), n + 1)
  <2>1. n + 1 \in Int
    BY <1>1
  <2>2. Min({n + 1, n + 1}) = n + 1
    BY ONLY <2>1, MinOfTwo
  <2> QED
    BY <1>4, <1>6, <2>2
\* The commit index of a server that rejected the entry is in its own log.
<1>11. ASSUME NEW s \in reached \ accepting
       PROVE  /\ ServerFits(told(s)) /\ told(s).term = CurrentTerm /\ told(s).log = raft[s].log
              /\ told(s).commit <= n + 1
  <2> DEFINE m == Min({n + 1, Len(raft[s].log)})
  <2>1. s \in Server /\ ServerFits(raft[s]) /\ raft[s].term = CurrentTerm /\ Len(raft[s].log) \in Nat
    BY <1>1
  <2>2. m = IF n + 1 <= Len(raft[s].log) THEN n + 1 ELSE Len(raft[s].log)
    <3>1. n + 1 \in Int /\ Len(raft[s].log) \in Int
      BY <1>1, <2>1
    <3> QED
      BY ONLY <3>1, MinOfTwo
  <2>3. told(s) = CommitTo(raft[s], m)
    BY <1>7
  <2> HIDE DEF m
  <2>4. m \in Nat /\ m <= Len(raft[s].log) /\ m <= n + 1
    BY <1>1, <2>1, <2>2
  <2> QED
    BY <2>1, <2>3, <2>4, CommitFits
<1> HIDE DEF told
<1>12. /\ \A s \in reached : raft'[s] = IF committed THEN told(s) ELSE after(s)
       /\ raft'[leader] = IF committed THEN CommitTo(proposed, n + 1) ELSE proposed
       /\ \A s \in Server : s \notin reached /\ s # leader => raft'[s] = raft[s]
       /\ raft' = [s \in Server |-> raft'[s]]
  BY <1>1, <1>3
<1> HIDE DEF c, committed, accepting
<1>13. ASSUME NEW s \in H
       PROVE  /\ ServerFits(raft'[s]) /\ raft'[s].term = CurrentTerm /\ raft'[s].log = new
              /\ committed => raft'[s].commit = n + 1
              /\ ~committed => raft'[s].commit \in {raft[s].commit, raft[leader].commit}
              /\ s \notin misled => Sound(raft'[s])
  <2>1. CASE s = leader
    BY <1>8, <1>9, <1>12, <2>1
  <2>2. CASE s \in accepting
    <3>1. s \in reached
      BY <2>2 DEF accepting
    <3> QED
      BY <1>6, <1>9, <1>10, <1>12, <2>2, <3>1
  <2> QED
    BY <2>1, <2>2
<1>14. ASSUME NEW s \in Server \ H
       PROVE  /\ ServerFits(raft'[s]) /\ raft'[s].term = CurrentTerm /\ raft'[s].log = raft[s].log
              /\ raft'[s].commit <= n + 1
              /\ ~committed => raft'[s].commit <= Len(acked)
              /\ s \notin misled' => raft'[s] = raft[s]
  <2>1. s # leader /\ s \notin accepting
    OBVIOUS
  <2>2. raft[s].commit <= n + 1
    BY <1>1
  <2>3. CASE s \notin reached
    BY <1>1, <1>12, <2>1, <2>2, <2>3
  <2>4. CASE s \in reached
    <3>1. s \in reached \ accepting
      BY <2>1, <2>4
    <3>2. CASE committed
      <4>1. s \in misled'
        BY <1>3, <3>1, <3>2
      <4> QED
        BY <1>11, <1>12, <3>1, <3>2, <4>1
    <3>3. CASE ~committed
      <4>1. raft'[s] = raft[s]
        BY <1>7, <1>12, <3>1, <3>3
      <4> QED
        BY <1>1, <2>2, <3>3, <4>1
    <3> QED
      BY <3>2, <3>3
  <2> QED
    BY <2>3, <2>4
<1>15. \A s \in Server : s \in H \/ s \in Server \ H
  OBVIOUS
<1>16. /\ \A s \in Server : ServerFits(raft'[s]) /\ raft'[s].term = CurrentTerm
       /\ \A s \in H : raft'[s].log = new
       /\ \A s \in Server \ H : raft'[s].log = raft[s].log
  BY <1>13, <1>14, <1>15
<1>17. raft' \in [Server -> ServerState]
  <2>1. \A s \in Server : raft'[s] \in ServerState
    BY <1>16 DEF ServerFits
  <2> QED
    BY <1>12, <2>1
<1>18. \/ /\ Majority(H) /\ acked' = new
          /\ \A s \in Server : raft'[s].commit <= n + 1
       \/ acked' = acked /\ \A s \in Server : raft'[s].commit <= Len(acked)
  <2>1. CASE committed
    <3>1. acked' = new
      BY <1>3, <1>8, <2>1
    <3>2. \A s \in Server : raft'[s].commit <= n + 1
      <4>1. \A s \in H : raft'[s].commit <= n + 1
        <5>1. n + 1 <= n + 1
          BY <1>1
        <5> QED
          BY <1>13, <2>1, <5>1
      <4> QED
        BY <1>14, <1>15, <4>1
    <3> QED
      BY <2>1, <3>1, <3>2 DEF committed
  <2>2. CASE ~committed
    <3>1. acked' = acked
      BY <1>3, <2>2
    <3>2. \A s \in Server : raft'[s].commit <= Len(acked)
      <4>1. \A s \in H : raft'[s].commit <= Len(acked)
        BY <1>1, <1>13, <2>2
      <4> QED
        BY <1>14, <1>15, <2>2, <4>1
    <3> QED
      BY <3>1, <3>2
  <2> QED
    BY <2>1, <2>2
<1>19. ASSUME NEW s \in Server \ misled'
       PROVE  Sound(raft'[s]) /\ SameUpTo(raft'[s].log, new, raft'[s].commit)
  <2>1. s \notin misled
    BY <1>3
  <2>2. CASE s \in H
    <3>1. Sound(raft'[s]) /\ raft'[s].log = new
      BY <1>13, <2>1, <2>2
    <3>2. raft'[s].commit <= Len(new)
      BY <3>1 DEF Sound
    <3> QED
      BY <3>1, <3>2 DEF SameUpTo
  <2>3. CASE s \notin H
    <3>1. raft'[s] = raft[s] /\ Sound(raft[s]) /\ SameUpTo(raft[s].log, LeaderLog, raft[s].commit)
      BY <1>1, <1>14, <2>1, <2>3
    <3>2. SameUpTo(raft[s].log, new, raft[s].commit)
      <4>1. \A i \in 1 .. raft[s].commit : i \in 1 .. n
        BY <1>1
      <4> QED
        BY <1>1, <1>4, <3>1, <4>1 DEF SameUpTo
    <3> QED
      BY <3>1, <3>2
  <2> QED
    BY <2>2, <2>3
<1>20. calls' = calls \union {[term |-> CurrentTerm, prev |-> n, prevTerm |-> LastTerm(LeaderLog),
                               entry |-> e, commit |-> raft[leader].commit]}
  BY <1>3 DEF c
<1> HIDE DEF H, e
<1> QED
  BY ONLY ZenonT(40), RaftInv, <1>1, <1>2, <1>3, <1>5, <1>16, <1>17, <1>18, <1>19, <1>20,
     RequestKeeps DEF new

\* Two majorities have a server in common.
LEMMA MajoritiesMeet ==
    ASSUME NEW Q \in SUBSET Server, NEW V \in SUBSET Server, Majority(Q), Majority(V)
    PROVE  \E v \in Server : v \in Q /\ v \in V
<1>1. IsFiniteSet(Server) /\ IsFiniteSet(Q) /\ IsFiniteSet(V)
  BY SomeServers, FS_Subset
<1>2. Cardinality(Server) \in Nat /\ Cardinality(Q) \in Nat /\ Cardinality(V) \in Nat
  BY <1>1, FS_CardinalityType
<1>3. Cardinality(Q) + Cardinality(V) > Cardinality(Server)
  BY <1>2 DEF Majority
<1>4. Q \cap V # {}
  BY <1>1, <1>3, FS_MajoritiesIntersect
<1> QED
  BY <1>4

\* The new leader has all that is committed: among the servers whose logs are no
\* newer than its own is one of the majority that has it.
LEMMA LeaderComplete ==
    ASSUME RaftInv, NEW s \in Server, NEW k \in Nat, CommittedUpTo(k),
           Majority({t \in Server :
              \/ LastTerm(raft[t].log) < LastTerm(raft[s].log)
              \/ /\ LastTerm(raft[t].log) = LastTerm(raft[s].log)
                 /\ Len(raft[t].log) <= Len(raft[s].log)})
    PROVE  SameUpTo(raft[s].log, LeaderLog, k)
<1> DEFINE V == {t \in Server :
                    \/ LastTerm(raft[t].log) < LastTerm(raft[s].log)
                    \/ /\ LastTerm(raft[t].log) = LastTerm(raft[s].log)
                       /\ Len(raft[t].log) <= Len(raft[s].log)}
           log == raft[s].log
<1>1. PICK Q \in SUBSET Server :
         Majority(Q) /\ \A t \in Q : SameUpTo(raft[t].log, LeaderLog, k)
  BY DEF CommittedUpTo
<1>2. PICK v \in Server : v \in Q /\ v \in V
  <2>1. Majority(V) /\ V \in SUBSET Server
    OBVIOUS
  <2> HIDE DEF V
  <2> QED
    BY <1>1, <2>1, MajoritiesMeet
<1> DEFINE votes == raft[v].log
<1>3. /\ log \in Seq(LogEntry) /\ Len(log) \in Nat
      /\ votes \in Seq(LogEntry) /\ Len(votes) \in Nat
      /\ LeaderLog \in Seq(LogEntry) /\ Len(LeaderLog) \in Nat
      /\ \A i \in DOMAIN votes : votes[i].term \in Nat
      /\ \A i \in DOMAIN log : log[i].term \in Nat
  BY RaftFacts
<1>4. SameUpTo(votes, LeaderLog, k)
  BY <1>1, <1>2
<1>5. CASE k = 0
  BY <1>3, <1>5 DEF SameUpTo
<1>6. CASE k # 0
  <2>1. /\ k \in 1 .. Len(votes) /\ votes[k] = LeaderLog[k] /\ k <= Len(LeaderLog)
        /\ TermAt(LeaderLog, k) = votes[k].term
        /\ LastTerm(votes) = votes[Len(votes)].term /\ Len(votes) \in k .. Len(votes)
    BY <1>3, <1>4, <1>6 DEF SameUpTo, TermAt, LastTerm
  <2>2. votes[k].term <= LastTerm(votes)
    <3>1. TermsGrow
      BY DEF RaftInv
    <3>2. \A i \in DOMAIN votes : \A j \in i .. Len(votes) : votes[i].term <= votes[j].term
      BY <3>1 DEF TermsGrow
    <3> HIDE DEF votes
    <3> QED
      BY <1>3, <2>1, <3>2
  <2>3. votes[k].term \in Nat /\ LastTerm(votes) \in Nat
    BY <1>3, <2>1
  <2>4. LastTerm(log) \in Nat
    BY <1>3 DEF LastTerm, TermAt
  <2>5. CASE LastTerm(votes) < LastTerm(log)
    <3>1. Len(log) # 0
      BY <2>3, <2>4, <2>5 DEF LastTerm, TermAt
    <3>2. Len(log) \in DOMAIN log /\ LastTerm(log) = log[Len(log)].term
      BY <1>3, <3>1 DEF LastTerm, TermAt
    <3>3. log[Len(log)].term > TermAt(LeaderLog, k)
      BY <2>1, <2>2, <2>3, <2>4, <2>5, <3>2
    <3> QED
      BY <3>2, <3>3 DEF CommittedUpTo
  <2>6. CASE LastTerm(votes) = LastTerm(log) /\ Len(votes) <= Len(log)
    <3>1. /\ Len(votes) \in DOMAIN votes /\ Len(log) \in DOMAIN log
          /\ LastTerm(log) = log[Len(log)].term
      BY <1>3, <2>1, <2>6 DEF LastTerm, TermAt
    <3>2. SameUpTo(votes, log, Len(votes))
      BY <2>1, <2>6, <3>1 DEF RaftInv, LogsMatch
    <3> QED
      BY <1>3, <1>4, <2>1, <3>2 DEF SameUpTo
  <2> QED
    BY <1>2, <2>5, <2>6
<1> QED
  BY <1>5, <1>6

\* An election: the logs stay, the term is new to all of them.
LEMMA ElectStep ==
    ASSUME RaftInv, NEW s \in Server, ElectLeader(s)
    PROVE  RaftInv'
<1>1. /\ leader \in Server /\ CurrentTerm \in 0 .. MaxTerm /\ CurrentTerm \in Nat
      /\ raft[s].log \in Seq(LogEntry) /\ LeaderLog \in Seq(LogEntry)
      /\ \A t \in Server : /\ raft[t] \in ServerState /\ raft[t].term = CurrentTerm
                           /\ raft[t].commit \in Nat
                           /\ raft[t].log \in Seq(LogEntry) /\ Len(raft[t].log) \in Nat
      /\ \A t \in Server : \A i \in DOMAIN raft[t].log : raft[t].log[i].term \in Nat
      /\ acked \in Seq(LogEntry) /\ Len(acked) \in Nat
      /\ \A t \in Server : ServerFits(raft[t]) /\ raft[t].commit <= Len(acked)
  BY RaftFacts, BoundsNat
<1>2. /\ CurrentTerm + 1 \in 0 .. MaxTerm
      /\ leader' = s /\ calls' = calls /\ acked' = acked /\ misled' = misled
      /\ raft' = [t \in Server |-> [raft[t] EXCEPT !.term = CurrentTerm + 1]]
  <2>1. raft[s].term = CurrentTerm
    BY <1>1
  <2> QED
    BY <1>1, <2>1, BoundsNat DEF ElectLeader
<1>3. ASSUME NEW t \in Server
      PROVE  /\ raft'[t] \in ServerState /\ raft'[t].term = CurrentTerm + 1
             /\ raft'[t].log = raft[t].log /\ raft'[t].commit = raft[t].commit
             /\ raft'[t].applied = raft[t].applied
  BY <1>1, <1>2 DEF ServerState
<1>4. raft' \in [Server -> ServerState]
  BY <1>2, <1>3
<1>5. LeaderLog' = raft[s].log /\ CurrentTerm' = CurrentTerm + 1
  BY <1>2, <1>3 DEF LeaderLog, CurrentTerm
<1>6. \A t \in Server : ServerFits(raft'[t]) /\ (Sound(raft[t]) => Sound(raft'[t]))
  <2>1. \A t \in Server : ServerFits(raft'[t])
    BY <1>1, <1>3 DEF ServerFits
  <2> QED
    BY <1>3, <2>1 DEF Sound
<1>7. OneTerm'
  BY <1>3, <1>5 DEF OneTerm
<1>8. \A t \in Server : \A i \in DOMAIN raft[t].log : raft[t].log[i].term <= CurrentTerm
  BY DEF RaftInv, TermsGrow
<1>9. TermsGrow'
  <2> SUFFICES ASSUME NEW t \in Server, NEW i \in DOMAIN raft[t].log
               PROVE  /\ raft[t].log[i].term <= CurrentTerm + 1
                      /\ raft[t].log[i].term # CurrentTerm + 1
                      /\ \A j \in i .. Len(raft[t].log) :
                            raft[t].log[i].term <= raft[t].log[j].term
    BY <1>3, <1>5 DEF TermsGrow
  <2>1. raft[t].log[i].term \in Nat /\ raft[t].log[i].term <= CurrentTerm
    BY <1>1, <1>8
  <2>2. \A j \in i .. Len(raft[t].log) : raft[t].log[i].term <= raft[t].log[j].term
    BY DEF RaftInv, TermsGrow
  <2> QED
    BY <1>1, <2>1, <2>2
<1>10. LogsMatch'
  BY <1>3 DEF RaftInv, LogsMatch
<1>11. CallsOfLeader'
  <2> SUFFICES ASSUME NEW c \in calls
               PROVE  c \in Call /\ c.term <= CurrentTerm + 1 /\ c.term # CurrentTerm + 1
    BY <1>2, <1>5 DEF CallsOfLeader
  <2>1. c \in Call /\ c.term <= CurrentTerm
    BY DEF RaftInv, CallsOfLeader
  <2>2. c.term \in Nat
    BY <2>1, BoundsNat DEF Call
  <2> QED
    BY <1>1, <2>1, <2>2
<1> DEFINE k == Len(acked)
<1>12. CommittedUpTo(k) /\ k \in Nat /\ SameUpTo(acked, LeaderLog, k)
  BY <1>1 DEF RaftInv
<1>13. SameUpTo(raft[s].log, LeaderLog, k)
  <2> HIDE DEF k
  <2> QED
    BY <1>12, LeaderComplete DEF ElectLeader
<1>c. Len(acked') = k
  BY <1>2
<1> HIDE DEF k
<1>14. TermAt(raft[s].log, k) = TermAt(LeaderLog, k)
  BY <1>12, <1>13 DEF TermAt, SameUpTo
<1>15. \A t \in Server :
          SameUpTo(raft[t].log, LeaderLog, k) => SameUpTo(raft[t].log, raft[s].log, k)
  BY <1>13 DEF SameUpTo
<1>16. CommitsAnswered' /\ OthersSound'
  <2>1. \A t \in Server \ misled :
           Sound(raft[t]) /\ SameUpTo(raft[t].log, LeaderLog, raft[t].commit)
    BY DEF RaftInv, OthersSound
  <2>2. \A t \in Server : raft[t].commit <= k
    BY <1>1 DEF k
  <2>3. \A t \in Server \ misled : SameUpTo(raft[t].log, raft[s].log, raft[t].commit)
    BY <1>1, <1>12, <1>13, <2>1, <2>2 DEF SameUpTo
  <2> QED
    BY <1>2, <1>3, <1>5, <1>6, <1>c, <2>1, <2>2, <2>3 DEF CommitsAnswered, OthersSound
<1>17. \E Q \in SUBSET Server :
          Majority(Q) /\ \A t \in Q : SameUpTo(raft[t].log, raft[s].log, k)
  <2>1. PICK Q \in SUBSET Server :
           Majority(Q) /\ \A t \in Q : SameUpTo(raft[t].log, LeaderLog, k)
    BY <1>12 DEF CommittedUpTo
  <2> QED
    BY <1>15, <2>1
<1>18. \A t \in Server : \A i \in DOMAIN raft[t].log :
          raft[t].log[i].term > TermAt(raft[s].log, k) => SameUpTo(raft[t].log, raft[s].log, k)
  BY <1>12, <1>14, <1>15 DEF CommittedUpTo
<1>19. k <= Len(raft[s].log)
  BY <1>13 DEF SameUpTo
<1>20. CommittedUpTo(Len(acked))'
  BY <1>3, <1>5, <1>c, <1>17, <1>18, <1>19 DEF CommittedUpTo, Majority
<1>21. acked' \in Seq(LogEntry) /\ SameUpTo(acked, LeaderLog, Len(acked))'
  BY <1>1, <1>2, <1>5, <1>c, <1>12, <1>13 DEF SameUpTo
<1> QED
  BY <1>2, <1>4, <1>7, <1>9, <1>10, <1>11, <1>16, <1>20, <1>21 DEF RaftInv

\* Every step keeps the invariant.
LEMMA RaftInvStep == RaftInv /\ [RFNext]_rfVars => RaftInv'
<1> SUFFICES ASSUME RaftInv, [RFNext]_rfVars  PROVE RaftInv'
  OBVIOUS
<1>1. CASE \E s \in Server : ElectLeader(s)
  BY <1>1, ElectStep
<1>2. CASE \E command \in Command, reached \in SUBSET (Server \ {leader}) :
              ClientRequest(command, reached)
  BY <1>2, RequestStep
<1>3. CASE \E s \in Server, call \in calls : LateCall(s, call)
  BY <1>3, LateKeeps
<1>4. CASE UNCHANGED rfVars
  <2>1. /\ raft' = raft /\ leader' = leader /\ calls' = calls
        /\ acked' = acked /\ misled' = misled
    BY <1>4 DEF rfVars
  <2>2. LeaderLog' = LeaderLog /\ CurrentTerm' = CurrentTerm
    BY <2>1 DEF LeaderLog, CurrentTerm
  <2> QED
    BY <2>1, <2>2
    DEF RaftInv, CommitsAnswered, OthersSound, Sound, ServerFits, OneTerm, TermsGrow, LogsMatch,
        CallsOfLeader, CommittedUpTo
<1> QED
  BY <1>1, <1>2, <1>3, <1>4 DEF RFNext

\* What was applied of the first entries of a log is the start of its commands.
LEMMA AppliedPrefix ==
    ASSUME NEW log \in Seq(LogEntry), NEW applied \in Seq(Command), Len(applied) <= Len(log),
           \A i \in 1 .. Len(applied) : applied[i] = log[i].command
    PROVE  IsPrefix(applied, [i \in DOMAIN log |-> log[i].command])
<1> DEFINE commands == [i \in DOMAIN log |-> log[i].command]
<1>1. commands \in Seq(Command) /\ Len(commands) = Len(log)
  <2>1. \A i \in 1 .. Len(log) : log[i] \in LogEntry
    OBVIOUS
  <2>2. \A i \in 1 .. Len(log) : log[i].command \in Command
    BY <2>1 DEF LogEntry
  <2> QED
    BY <2>2
<1>2. \A i \in 1 .. Len(applied) : applied[i] = commands[i]
  BY <1>1
<1> HIDE DEF commands
<1>3. SubSeq(applied, 1, Len(applied)) = SubSeq(commands, 1, Len(applied))
  BY <1>1, <1>2
<1> QED
  BY <1>1, <1>3 DEF IsPrefix, commands

\* Logs that agree up to an entry have the same start.
LEMMA SameStart ==
    ASSUME NEW a \in Seq(LogEntry), NEW b \in Seq(LogEntry), NEW i \in Nat, SameUpTo(a, b, i)
    PROVE  SubSeq(a, 1, i) = SubSeq(b, 1, i)
BY DEF SameUpTo

\* AppliedExact of every execution, whatever calls are lost, late or repeated, whoever
\* rejects them and whoever is elected: a server that was not itself told to commit
\* what it had rejected has applied what its log and every leader's start with.
THEOREM AppliedExactCorrect == RFSpec => []AppliedExact
<1>1. RaftInv => AppliedExact
  <2> SUFFICES ASSUME RaftInv, NEW s \in Server \ misled
               PROVE  /\ Len(raft[s].applied) = raft[s].commit
                      /\ IsPrefix(raft[s].applied,
                            [i \in DOMAIN raft[s].log |-> raft[s].log[i].command])
                      /\ IsPrefix(raft[s].applied,
                            [i \in DOMAIN LeaderLog |-> LeaderLog[i].command])
    BY DEF AppliedExact, LeaderLog
  <2>1. /\ LeaderLog \in Seq(LogEntry) /\ raft[s].log \in Seq(LogEntry)
        /\ raft[s].applied \in Seq(Command)
        /\ Sound(raft[s]) /\ SameUpTo(raft[s].log, LeaderLog, raft[s].commit)
    BY RaftFacts DEF ServerState
  <2>2. /\ raft[s].commit = Len(raft[s].applied) /\ raft[s].commit <= Len(raft[s].log)
        /\ \A i \in 1 .. raft[s].commit : raft[s].applied[i] = raft[s].log[i].command
    BY <2>1 DEF Sound
  <2>3. /\ raft[s].commit <= Len(LeaderLog)
        /\ \A i \in 1 .. raft[s].commit : raft[s].applied[i] = LeaderLog[i].command
    BY <2>1, <2>2 DEF SameUpTo
  <2> QED
    BY <2>1, <2>2, <2>3, AppliedPrefix
<1> QED
  BY <1>1, RaftInvInit, RaftInvStep, PTL DEF RFSpec

\* LogMatching and LeaderCompleteness of every execution: what rejecting servers apply
\* does not touch the logs, nor what client_request() has answered for.
THEOREM LogsCorrect == RFSpec => [](LogMatching /\ LeaderCompleteness)
<1>1. RaftInv => LogMatching /\ LeaderCompleteness
  <2> SUFFICES ASSUME RaftInv  PROVE LogMatching /\ LeaderCompleteness
    OBVIOUS
  <2>1. /\ \A s \in Server : raft[s].log \in Seq(LogEntry)
        /\ acked \in Seq(LogEntry) /\ LeaderLog \in Seq(LogEntry)
        /\ Len(acked) \in Nat /\ Len(acked) <= Len(LeaderLog)
    BY RaftFacts
  <2>2. ASSUME NEW s \in Server, NEW t \in Server,
               NEW i \in DOMAIN raft[s].log \cap DOMAIN raft[t].log,
               raft[s].log[i].term = raft[t].log[i].term
        PROVE  SubSeq(raft[s].log, 1, i) = SubSeq(raft[t].log, 1, i)
    <3>1. i \in Nat
      BY <2>1
    <3>2. SameUpTo(raft[s].log, raft[t].log, i)
      BY <2>2, <3>1 DEF RaftInv, LogsMatch
    <3> QED
      BY <2>1, <3>1, <3>2, SameStart
  <2>3. SubSeq(acked, 1, Len(acked)) = SubSeq(LeaderLog, 1, Len(acked))
    BY <2>1, SameStart DEF RaftInv
  <2>4. LeaderCompleteness
    BY <2>1, <2>3 DEF LeaderCompleteness, IsPrefix, LeaderLog
  <2> QED
    BY <2>2, <2>4 DEF LogMatching
<1> QED
  BY <1>1, RaftInvInit, RaftInvStep, PTL DEF RFSpec

\* ReplicationExact: of clocks and logs together, each of its own executions.
THEOREM ReplicationExactCorrect == VCSpec /\ RFSpec => []ReplicationExact
<1>1. CausalityExact /\ LogMatching /\ LeaderCompleteness /\ AppliedExact => ReplicationExact
  BY DEF ReplicationExact
<1> QED
  BY <1>1, CausalityExactCorrect, AppliedExactCorrect, LogsCorrect, PTL
================================================================================
