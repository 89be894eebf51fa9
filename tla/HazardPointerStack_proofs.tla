------------------------- MODULE HazardPointerStack_proofs -------------------------
(***************************************************************************)
(* What holds of HazardPointers and HazardPointerStack for any number of   *)
(* threads, records, addresses and calls: no two threads share a record    *)
(* and a search finds one, the unreclaimed nodes are bounded, the stack    *)
(* uses the domain as the domain expects, no held node is freed, and the   *)
(* stack is linearizable.                                                  *)
(***************************************************************************)
EXTENDS HazardPointerStack

-----------------------------------------------------------------------------
(* The inductive invariant of the domain *)

\* The domain is the first one its threads meet.
FreshDomain == \A t \in Thread : OldId[t] = NoId

Scanning(t) == hpc[t] \in {"scan_use", "scan_slot", "sweep"}

\* The records in use are those the threads own, one each.
RecordsOwned ==
    /\ \A i \in Ids : in_use[i] <=> \E t \in Thread : tid[t] = i
    /\ \A t, u \in Thread : tid[t] = tid[u] /\ tid[t] # NoId => t = u

DomainLocals ==
    \A t \in Thread :
        /\ hpc[t] \in {"acquire", "scan_use", "scan_slot"} => idx[t] \in Ids
        /\ hpc[t] \in {"acquire", "exceeded"} => tid[t] = NoId
        /\ Scanning(t) \/ hpc[t] \in {"release_slots", "release_id"} => tid[t] # NoId

DInv == HPTypeOK /\ RecordsOwned /\ DomainLocals

\* How far a thread has come along the records: the one it owns, or the one it
\* looks at in its search.
Position ==
    [t \in Thread |-> IF tid[t] # NoId THEN tid[t]
                      ELSE IF hpc[t] = "acquire" THEN idx[t]
                      ELSE IF hpc[t] = "exceeded" THEN MaxThreads + 1 ELSE 0]

From(p, i) == {t \in Thread : p[t] >= i}

\* From every record on there are at most as many threads as records; past the
\* last one there is none.
Sparse(p) ==
    \A i \in 1..(MaxThreads + 1) : Cardinality(From(p, i)) <= MaxThreads + 1 - i

Uncrowded == Sparse(Position)

\* What a scan has collected, and what the last scan has left.
Modest(pos, i, found, list) ==
    /\ IsFiniteSet(found)
    /\ pos \in {"scan_use", "scan_slot"} => Cardinality(found) <= i - 1
    /\ pos = "sweep" => Cardinality(found) <= MaxThreads
    /\ \/ Cardinality(list) <= ReclaimThreshold
       \/ Cardinality(list) <= MaxThreads + 1
    /\ pos \in {"scan_use", "scan_slot", "sweep"}
          \/ Cardinality(list) <= ReclaimThreshold - 1 \/ Cardinality(list) <= MaxThreads

GarbageInv ==
    \A t \in Thread : Modest(hpc[t], idx[t], hazards[t], retired[t])

-----------------------------------------------------------------------------
(* The inductive invariant of the stack *)

\* n is in t's hands: in a push() that has not linked it, or in a pop() that
\* has unlinked it and not called retire().
Mine(t, n) ==
    \/ pc[t] = "push_cas" /\ new_node[t] = n
    \/ pc[t] \in {"pop_take", "pop_retire"} /\ old_head[t] = n

InStack(n) ==
    /\ n \in Node
    /\ n \notin free
    /\ \A t \in Thread : n \notin retired[t] /\ ~Mine(t, n)

Listed == {n \in Node : InStack(n)}

\* Where a thread is in the stack's functions and in the domain's.
Locals ==
    \A t \in Thread :
        /\ pc[t] = "push_cas" => new_node[t] \in Node
        /\ pc[t] \in {"pop_publish", "pop_validate", "pop_next", "pop_cas",
                      "pop_take", "pop_retire"} => old_head[t] \in Node
        /\ pc[t] \in {"pop_validate", "pop_next", "pop_cas", "pop_cleared",
                      "pop_take", "pop_retire"} => tid[t] # NoId /\ hpc[t] = "out"
        /\ hpc[t] \in {"acquire", "exceeded"} => pc[t] = "pop_publish"
        /\ Scanning(t) => pc[t] \in {"return", "release"}
        /\ hpc[t] \in {"release_slots", "release_id"} => pc[t] = "release"
        /\ releasing[t] => pc[t] = "release"

OneHolder ==
    /\ \A t \in Thread : free \intersect retired[t] = {}
    /\ \A t, u \in Thread : t # u => retired[t] \intersect retired[u] = {}
    /\ \A t \in Thread, n \in Node : Mine(t, n) =>
          /\ n \notin free
          /\ \A u \in Thread : n \notin retired[u] /\ (Mine(u, n) => u = t)

ListShape ==
    /\ head # None => InStack(head)
    /\ \A n \in Node : InStack(n) /\ next[n] # None =>
          /\ InStack(next[n])
          /\ next[n] # head
          /\ \A m \in Node : InStack(m) /\ next[m] = next[n] => m = n

\* A hazard pointer is in its slot until the exchange.
SlotHeld ==
    \A t \in Thread : pc[t] \in {"pop_validate", "pop_next", "pop_cas"}
        => slot[tid[t]] = old_head[t]

\* A scan that may delete n has seen the hazard pointer in record i, or will.
ScanSees(u, i, n) ==
    /\ hpc[u] \in {"scan_use", "scan_slot"} => i >= idx[u] \/ n \in hazards[u]
    /\ hpc[u] = "sweep" => n \in hazards[u]

\* What pop() holds between the validation and its exchange.
HeldSafe ==
    \A t \in Thread : pc[t] \in {"pop_next", "pop_cas"} =>
        /\ old_head[t] \notin free
        /\ pc[t] = "pop_cas" => nxt[t] = next[old_head[t]]
        /\ \A u \in Thread :
              /\ ~(pc[u] = "push_cas" /\ new_node[u] = old_head[t])
              /\ old_head[t] \in retired[u] => ScanSees(u, tid[t], old_head[t])

HSInv ==
    HSTypeOK /\ DInv /\ Locals /\ OneHolder /\ ListShape /\ SlotHeld /\ HeldSafe
USE ReclaimThresholdPositive, MaxThreadsPositive, OldIdType, NoneIsNoNode DEF NoId, Ids

-----------------------------------------------------------------------------
(* Every thread has a record of its own *)

LEMMA DInvInit == FreshDomain /\ HPInit => DInv
<1> SUFFICES ASSUME FreshDomain, HPInit PROVE DInv
  OBVIOUS
<1> USE DEF HPInit, FreshDomain
<1>1. HPTypeOK
  BY DEF HPTypeOK, Pointer
<1>2. \A t \in Thread : tid[t] = 0
  OBVIOUS
<1>3. RecordsOwned
  BY <1>2 DEF RecordsOwned
<1>4. DomainLocals
  BY DEF DomainLocals, Scanning
<1> QED
  BY <1>1, <1>3, <1>4 DEF DInv

\* The steps that leave the records and their owners alone.
SameRecords == in_use' = in_use /\ tid' = tid

LEMMA SameOwners == DInv /\ SameRecords => RecordsOwned'
BY DEF DInv, SameRecords, RecordsOwned

LEMMA AcquireStep ==
    ASSUME DInv, NEW t \in Thread, AcquireEnter(t) \/ AcquireTry(t) PROVE DInv'
<1> USE DEF recordVars, hazardScanVars
<1>0. HPTypeOK /\ RecordsOwned /\ DomainLocals
  BY DEF DInv
<1>1. CASE AcquireEnter(t)
  <2>1. HPTypeOK'
    BY <1>0, <1>1 DEF AcquireEnter, HPTypeOK
  <2>2. RecordsOwned'
    BY <1>1, SameOwners DEF AcquireEnter, SameRecords
  <2>3. DomainLocals'
    BY <1>0, <1>1 DEF AcquireEnter, HPTypeOK, DomainLocals, Scanning
  <2> QED
    BY <2>1, <2>2, <2>3 DEF DInv
<1>2. CASE AcquireWin(t)
  <2>0. idx[t] \in Ids /\ ~in_use[idx[t]] /\ tid[t] = 0
    BY <1>0, <1>2 DEF AcquireWin, DomainLocals
  <2>1. HPTypeOK'
    BY <1>0, <1>2, <2>0 DEF AcquireWin, HPTypeOK
  <2>2. /\ \A i \in Ids : in_use'[i] <=> in_use[i] \/ i = idx[t]
        /\ \A u \in Thread : tid'[u] = IF u = t THEN idx[t] ELSE tid[u]
    BY <1>0, <1>2, <2>0 DEF AcquireWin, HPTypeOK
  <2>3. RecordsOwned'
    <3>1. ASSUME NEW i \in Ids, in_use'[i] PROVE \E u \in Thread : tid'[u] = i
      <4>1. CASE i = idx[t]
        BY <2>2, <4>1
      <4>2. CASE i # idx[t]
        <5>1. PICK u \in Thread : tid[u] = i
          BY <1>0, <2>2, <3>1, <4>2 DEF RecordsOwned
        <5> QED
          BY <2>0, <2>2, <5>1
      <4> QED
        BY <4>1, <4>2
    <3>2. ASSUME NEW i \in Ids, NEW u \in Thread, tid'[u] = i PROVE in_use'[i]
      BY <1>0, <2>0, <2>2, <3>2 DEF RecordsOwned
    <3>3. ASSUME NEW u \in Thread, tid[u] = idx[t] PROVE FALSE
      BY <1>0, <2>0, <3>3 DEF RecordsOwned
    <3>4. ASSUME NEW u \in Thread, NEW w \in Thread, tid'[u] = tid'[w], tid'[u] # 0
          PROVE  u = w
      BY <1>0, <2>2, <3>3, <3>4 DEF RecordsOwned
    <3> QED
      BY <3>1, <3>2, <3>4 DEF RecordsOwned
  <2>4. DomainLocals'
    BY <1>0, <1>2, <2>0, <2>2 DEF AcquireWin, HPTypeOK, DomainLocals, Scanning
  <2> QED
    BY <2>1, <2>3, <2>4 DEF DInv
<1>3. CASE AcquireLose(t)
  <2>0. idx[t] \in Ids
    BY <1>0, <1>3 DEF AcquireLose, DomainLocals
  <2>a. \/ idx[t] < MaxThreads /\ idx' = [idx EXCEPT ![t] = idx[t] + 1] /\ hpc' = hpc
        \/ idx' = idx /\ hpc' = [hpc EXCEPT ![t] = "exceeded"]
    BY <1>3 DEF AcquireLose
  <2>b. idx' \in [Thread -> 0..MaxThreads]
    <3>1. idx \in [Thread -> 0..MaxThreads]
      BY <1>0 DEF HPTypeOK
    <3>2. idx[t] < MaxThreads => idx[t] + 1 \in 0..MaxThreads
      BY <2>0
    <3> QED
      BY <2>a, <3>1, <3>2
  <2>1. HPTypeOK'
    BY <1>0, <1>3, <2>a, <2>b DEF AcquireLose, HPTypeOK
  <2>2. RecordsOwned'
    BY <1>3, SameOwners DEF AcquireLose, SameRecords
  <2>3. DomainLocals'
    BY <1>0, <1>3, <2>0, <2>a DEF AcquireLose, HPTypeOK, DomainLocals, Scanning
  <2> QED
    BY <2>1, <2>2, <2>3 DEF DInv
<1> QED
  BY <1>1, <1>2, <1>3 DEF AcquireTry

LEMMA ReleaseStep ==
    ASSUME DInv, NEW t \in Thread, ReleaseSlots(t) \/ ReleaseId(t) PROVE DInv'
<1> USE DEF recordVars, hazardScanVars
<1>0. HPTypeOK /\ RecordsOwned /\ DomainLocals
  BY DEF DInv
<1>1. CASE ReleaseSlots(t)
  <2>1. HPTypeOK'
    BY <1>0, <1>1 DEF ReleaseSlots, HPTypeOK, Pointer, DomainLocals
  <2>2. RecordsOwned'
    BY <1>1, SameOwners DEF ReleaseSlots, SameRecords
  <2>3. DomainLocals'
    BY <1>0, <1>1 DEF ReleaseSlots, HPTypeOK, DomainLocals, Scanning
  <2> QED
    BY <2>1, <2>2, <2>3 DEF DInv
<1>2. CASE ReleaseId(t)
  <2>0. tid[t] \in Ids
    BY <1>0, <1>2 DEF ReleaseId, DomainLocals, HPTypeOK
  <2>1. HPTypeOK'
    BY <1>0, <1>2, <2>0 DEF ReleaseId, HPTypeOK
  <2>2. /\ \A i \in Ids : in_use'[i] <=> in_use[i] /\ i # tid[t]
        /\ \A u \in Thread : tid'[u] = IF u = t THEN 0 ELSE tid[u]
    BY <1>0, <1>2, <2>0 DEF ReleaseId, HPTypeOK
  <2>3. RecordsOwned'
    <3>1. ASSUME NEW i \in Ids PROVE in_use'[i] <=> \E u \in Thread : tid'[u] = i
      <4>1. \A u \in Thread : tid[u] = tid[t] => u = t
        BY <1>0, <2>0 DEF RecordsOwned
      <4>2. in_use[i] <=> \E u \in Thread : tid[u] = i
        BY <1>0 DEF RecordsOwned
      <4>3. ASSUME NEW u \in Thread PROVE tid'[u] = i <=> tid[u] = i /\ u # t
        BY <2>2, <4>1
      <4> QED
        BY <2>2, <4>1, <4>2, <4>3
    <3>2. ASSUME NEW u \in Thread, NEW w \in Thread, tid'[u] = tid'[w], tid'[u] # 0
          PROVE  u = w
      BY <1>0, <2>2, <3>2 DEF RecordsOwned
    <3> QED
      BY <3>1, <3>2 DEF RecordsOwned
  <2>4. DomainLocals'
    BY <1>0, <1>2, <2>2 DEF ReleaseId, HPTypeOK, DomainLocals, Scanning
  <2> QED
    BY <2>1, <2>3, <2>4 DEF DInv
<1> QED
  BY <1>1, <1>2

LEMMA PublishStep ==
    ASSUME DInv, NEW t \in Thread, NEW p \in Pointer, Publish(t, p) PROVE DInv'
<1> USE DEF recordVars, hazardScanVars
<1>1. HPTypeOK'
  BY DEF DInv, Publish, HPTypeOK
<1>2. RecordsOwned'
  BY SameOwners DEF Publish, SameRecords
<1>3. DomainLocals'
  BY DEF DInv, Publish, DomainLocals, Scanning
<1> QED
  BY <1>1, <1>2, <1>3 DEF DInv

LEMMA RetireStep ==
    ASSUME DInv, NEW t \in Thread, NEW n \in Node, Retire(t, n) PROVE DInv'
<1> USE DEF recordVars, hazardScanVars
<1>0. HPTypeOK /\ DomainLocals
  BY DEF DInv
<1>1. /\ \/ hpc' = hpc /\ idx' = idx
         \/ /\ idx' = [idx EXCEPT ![t] = 1]
            /\ \/ hpc' = [hpc EXCEPT ![t] = "scan_use"]
               \/ hpc' = [hpc EXCEPT ![t] = "out"]
      /\ hazards' = hazards \/ hazards' = [hazards EXCEPT ![t] = {}]
  BY DEF Retire, BeginHazardScan
<1>a. idx' \in [Thread -> 0..MaxThreads]
  <2>1. idx' = idx \/ idx' = [idx EXCEPT ![t] = 1]
    BY <1>1
  <2>2. idx \in [Thread -> 0..MaxThreads] /\ 1 \in 0..MaxThreads
    BY <1>0 DEF HPTypeOK
  <2> QED
    BY <2>1, <2>2
<1>b. retired' \in [Thread -> SUBSET Node] /\ hazards' \in [Thread -> SUBSET Node]
  <2>1. retired' = [retired EXCEPT ![t] = @ \union {n}]
    BY DEF Retire
  <2>2. retired \in [Thread -> SUBSET Node] /\ hazards \in [Thread -> SUBSET Node]
    BY <1>0 DEF HPTypeOK
  <2>3. retired' \in [Thread -> SUBSET Node]
    BY <2>1, <2>2
  <2>4. hazards' \in [Thread -> SUBSET Node]
    BY <1>1, <2>2
  <2> QED
    BY <2>3, <2>4
<1>2. HPTypeOK'
  BY <1>0, <1>1, <1>a, <1>b DEF Retire, HPTypeOK
<1>3. RecordsOwned'
  BY SameOwners DEF Retire, SameRecords
<1>4. DomainLocals'
  BY <1>0, <1>1 DEF Retire, HPTypeOK, DomainLocals, Scanning
<1> QED
  BY <1>2, <1>3, <1>4 DEF DInv

LEMMA ReleaseEnterStep ==
    ASSUME DInv, NEW t \in Thread, ReleaseEnter(t) PROVE DInv'
<1> USE DEF recordVars, hazardScanVars
<1>0. HPTypeOK /\ DomainLocals
  BY DEF DInv
<1>1. /\ hpc' = [hpc EXCEPT ![t] = "scan_use"] \/ hpc' = [hpc EXCEPT ![t] = "release_slots"]
      /\ idx' = [idx EXCEPT ![t] = 1] /\ hazards' = [hazards EXCEPT ![t] = {}]
  BY DEF ReleaseEnter, BeginHazardScan
<1>a. idx' \in [Thread -> 0..MaxThreads]
  BY <1>0, <1>1 DEF HPTypeOK
<1>2. HPTypeOK'
  BY <1>0, <1>1, <1>a DEF ReleaseEnter, HPTypeOK
<1>3. RecordsOwned'
  BY SameOwners DEF ReleaseEnter, SameRecords
<1>4. DomainLocals'
  BY <1>0, <1>1 DEF ReleaseEnter, HPTypeOK, DomainLocals, Scanning
<1> QED
  BY <1>2, <1>3, <1>4 DEF DInv

LEMMA ScanStep ==
    ASSUME DInv, NEW t \in Thread, ScanUse(t) \/ ScanSlot(t) \/ SweepEnd(t) PROVE DInv'
<1> USE DEF recordVars, hazardScanVars
<1>0. HPTypeOK /\ DomainLocals
  BY DEF DInv
<1>1. RecordsOwned'
  BY SameOwners DEF ScanUse, ScanSlot, SweepEnd, SameRecords
<1>a. ASSUME NextRecord(t), idx[t] \in Ids
      PROVE  /\ idx' \in [Thread -> 0..MaxThreads]
             /\ \/ /\ idx[t] < MaxThreads /\ idx' = [idx EXCEPT ![t] = idx[t] + 1]
                   /\ hpc' = [hpc EXCEPT ![t] = "scan_use"]
                \/ /\ idx' = [idx EXCEPT ![t] = 0]
                   /\ hpc' = [hpc EXCEPT ![t] = "sweep"]
  <2>1. \/ /\ idx[t] < MaxThreads /\ idx' = [idx EXCEPT ![t] = idx[t] + 1]
           /\ hpc' = [hpc EXCEPT ![t] = "scan_use"]
        \/ /\ idx' = [idx EXCEPT ![t] = 0]
           /\ hpc' = [hpc EXCEPT ![t] = "sweep"]
    BY <1>a DEF NextRecord
  <2>2. idx[t] < MaxThreads => idx[t] + 1 \in 0..MaxThreads
    BY <1>a
  <2>3. idx \in [Thread -> 0..MaxThreads] /\ 0 \in 0..MaxThreads
    BY <1>0 DEF HPTypeOK
  <2>4. idx' \in [Thread -> 0..MaxThreads]
    BY <2>1, <2>2, <2>3
  <2> QED
    BY <2>1, <2>4
<1>2. CASE ScanUse(t)
  <2>0. idx[t] \in Ids
    BY <1>0, <1>2 DEF ScanUse, DomainLocals
  <2>1. HPTypeOK'
    BY <1>0, <1>2, <1>a, <2>0 DEF ScanUse, HPTypeOK
  <2>2. DomainLocals'
    BY <1>0, <1>2, <1>a, <2>0 DEF ScanUse, HPTypeOK, DomainLocals, Scanning
  <2> QED
    BY <1>1, <2>1, <2>2 DEF DInv
<1>3. CASE ScanSlot(t)
  <2>0. idx[t] \in Ids /\ slot[idx[t]] \in Pointer
    BY <1>0, <1>3 DEF ScanSlot, HPTypeOK, DomainLocals
  <2>a. hazards' \in [Thread -> SUBSET Node]
    BY <1>0, <1>3, <2>0 DEF ScanSlot, HPTypeOK, Pointer
  <2>1. HPTypeOK'
    BY <1>0, <1>3, <1>a, <2>0, <2>a DEF ScanSlot, HPTypeOK
  <2>2. DomainLocals'
    BY <1>0, <1>3, <1>a, <2>0 DEF ScanSlot, HPTypeOK, DomainLocals, Scanning
  <2> QED
    BY <1>1, <2>1, <2>2 DEF DInv
<1>4. CASE SweepEnd(t)
  <2>1. HPTypeOK'
    BY <1>0, <1>4 DEF SweepEnd, HPTypeOK
  <2>2. DomainLocals'
    BY <1>0, <1>4 DEF SweepEnd, HPTypeOK, DomainLocals, Scanning
  <2> QED
    BY <1>1, <2>1, <2>2 DEF DInv
<1> QED
  BY <1>2, <1>3, <1>4

LEMMA SweepStep ==
    ASSUME DInv, NEW t \in Thread, NEW n \in Node, Sweep(t, n) PROVE DInv'
<1> USE DEF recordVars, hazardScanVars
<1>1. HPTypeOK'
  BY DEF DInv, Sweep, HPTypeOK
<1>2. RecordsOwned'
  BY SameOwners DEF Sweep, SameRecords
<1>3. DomainLocals'
  BY DEF DInv, Sweep, DomainLocals, Scanning
<1> QED
  BY <1>1, <1>2, <1>3 DEF DInv

LEMMA DInvStep == DInv /\ [HPNext]_hpVars => DInv'
<1> SUFFICES ASSUME DInv, [HPNext]_hpVars PROVE DInv'
  OBVIOUS
<1>1. ASSUME NEW t \in Thread, Clear(t) PROVE DInv'
  BY <1>1, PublishStep DEF Clear, Pointer
<1>2. ASSUME NEW t \in Thread, NEW n \in Node, Publish(t, n) PROVE DInv'
  BY <1>2, PublishStep DEF Pointer
<1>3. CASE UNCHANGED hpVars
  BY <1>3 DEF hpVars, recordVars, hazardScanVars, DInv, HPTypeOK, RecordsOwned,
              DomainLocals, Scanning
<1> QED
  BY <1>1, <1>2, <1>3, AcquireStep, ReleaseStep, ReleaseEnterStep, ScanStep, RetireStep,
     SweepStep DEF HPNext, HPStep

LEMMA DInvCorrect == ASSUME FreshDomain PROVE HPSpec => []DInv
<1>1. HPInit => DInv
  BY FreshDomain, DInvInit
<1>2. DInv /\ [HPNext]_hpVars => DInv'
  BY DInvStep
<1> QED
  BY <1>1, <1>2, PTL DEF HPSpec

-----------------------------------------------------------------------------
(* No search for a record fails *)

EnoughRecords == IsFiniteSet(Thread) /\ Cardinality(Thread) <= MaxThreads

LEMMA CrowdFacts ==
    ASSUME EnoughRecords, NEW S \in SUBSET Thread
    PROVE  IsFiniteSet(S) /\ Cardinality(S) \in Nat /\ Cardinality(S) <= MaxThreads
<1>1. IsFiniteSet(S) /\ Cardinality(S) <= Cardinality(Thread) /\ Cardinality(Thread) \in Nat
  BY FS_Subset, FS_CardinalityType DEF EnoughRecords
<1>2. Cardinality(S) \in Nat
  BY <1>1, FS_CardinalityType
<1> QED
  BY <1>1, <1>2 DEF EnoughRecords


\* Threads that go back, or start anew, crowd nobody.
LEMMA GoingBack ==
    ASSUME EnoughRecords, NEW p \in [Thread -> Nat], Sparse(p), NEW q \in [Thread -> Nat],
           \A t \in Thread : q[t] <= p[t] \/ q[t] = 1
    PROVE  Sparse(q)
<1> SUFFICES ASSUME NEW i \in 1..(MaxThreads + 1)
             PROVE  Cardinality(From(q, i)) <= MaxThreads + 1 - i
  BY DEF Sparse
<1>0. From(p, i) \in SUBSET Thread /\ From(q, i) \in SUBSET Thread /\ i \in Nat
  BY DEF From
<1>1. CASE i = 1
  BY <1>0, <1>1, CrowdFacts
<1>2. CASE i > 1
  <2>1. From(q, i) \subseteq From(p, i)
    <3> SUFFICES ASSUME NEW t \in From(q, i) PROVE t \in From(p, i)
      OBVIOUS
    <3>1. t \in Thread /\ q[t] \in Nat /\ p[t] \in Nat /\ q[t] >= i
      BY DEF From
    <3>2. p[t] >= i
      BY <1>0, <1>2, <3>1
    <3> QED
      BY <3>1, <3>2 DEF From
  <2>2. Cardinality(From(q, i)) <= Cardinality(From(p, i))
    BY <1>0, <2>1, CrowdFacts, FS_Subset
  <2>3. Cardinality(From(p, i)) <= MaxThreads + 1 - i
    BY DEF Sparse
  <2>4. Cardinality(From(p, i)) \in Nat /\ Cardinality(From(q, i)) \in Nat
    BY <1>0, CrowdFacts
  <2> QED
    BY <1>0, <2>2, <2>3, <2>4
<1> QED
  BY <1>0, <1>1, <1>2

\* A search goes on from a record that another thread owns: of those that are at
\* that record or beyond, at least two were not beyond it.
LEMMA GoingOn ==
    ASSUME EnoughRecords, NEW p \in [Thread -> Nat], Sparse(p),
           NEW t \in Thread, NEW u \in Thread, t # u, p[t] \in Ids, p[u] = p[t]
    PROVE  Sparse([p EXCEPT ![t] = p[t] + 1])
<1> DEFINE q == [p EXCEPT ![t] = p[t] + 1]
           j == p[t]
<1>0. /\ q \in [Thread -> Nat] /\ q[t] = j + 1 /\ \A v \in Thread : v # t => q[v] = p[v]
      /\ j \in Nat /\ j >= 1 /\ j <= MaxThreads
  OBVIOUS
<1> SUFFICES ASSUME NEW i \in 1..(MaxThreads + 1)
             PROVE  Cardinality(From(q, i)) <= MaxThreads + 1 - i
  BY DEF Sparse
<1>1. Cardinality(From(p, i)) <= MaxThreads + 1 - i
  BY DEF Sparse
<1> HIDE DEF q, j
<1>2. CASE i # j + 1
  <2>1. From(q, i) = From(p, i)
    <3>1. \A v \in Thread : p[v] \in Nat
      OBVIOUS
    <3>2. p[t] = j /\ i \in Nat
      BY DEF j
    <3>3. \A v \in Thread : q[v] >= i <=> p[v] >= i
      BY <1>0, <1>2, <3>1, <3>2
    <3> QED
      BY <3>3 DEF From
  <2> QED
    BY <1>1, <2>1
<1>3. CASE i = j + 1
  <2> DEFINE rest == From(p, j) \ {t, u}
  <2>1. From(q, i) \subseteq rest \union {t}
    <3> SUFFICES ASSUME NEW v \in From(q, i) PROVE v \in rest \union {t}
      OBVIOUS
    <3>1. v \in Thread /\ q[v] >= j + 1 /\ p[v] \in Nat /\ p[u] = j
      BY <1>3 DEF From, j
    <3>2. v # t => p[v] >= j /\ v # u
      BY <1>0, <3>1
    <3> QED
      BY <3>1, <3>2 DEF From
  <2>2. /\ From(p, j) \in SUBSET Thread /\ t \in From(p, j) /\ u \in From(p, j)
        /\ rest \in SUBSET Thread /\ rest \union {t} \in SUBSET Thread
        /\ From(q, i) \in SUBSET Thread
    BY <1>0 DEF From, j
  <2>3. Cardinality(From(p, j)) <= MaxThreads + 1 - j
    BY <1>0 DEF Sparse
  <2>4. /\ IsFiniteSet(From(p, j)) /\ Cardinality(From(p, j)) \in Nat
        /\ Cardinality(rest) \in Nat /\ IsFiniteSet(rest)
        /\ Cardinality(rest \union {t}) \in Nat /\ IsFiniteSet(rest \union {t})
        /\ Cardinality(From(q, i)) \in Nat
    BY <2>2, CrowdFacts
  <2>5. Cardinality(From(q, i)) <= Cardinality(rest \union {t})
    BY <2>1, <2>4, FS_Subset
  <2>6. Cardinality(rest \union {t}) = Cardinality(rest) + 1
    BY <2>4, FS_AddElement
  <2>7. Cardinality(From(p, j)) = Cardinality(rest) + 2
    <3>1. /\ IsFiniteSet(From(p, j) \ {t})
          /\ Cardinality(From(p, j) \ {t}) = Cardinality(From(p, j)) - 1
      BY <2>2, <2>4, FS_RemoveElement
    <3>2. Cardinality((From(p, j) \ {t}) \ {u}) = Cardinality(From(p, j) \ {t}) - 1
      BY <2>2, <3>1, FS_RemoveElement
    <3>3. (From(p, j) \ {t}) \ {u} = rest
      OBVIOUS
    <3> QED
      BY <2>4, <3>1, <3>2, <3>3
  <2> HIDE DEF rest
  <2> QED
    BY <1>0, <1>3, <2>3, <2>4, <2>5, <2>6, <2>7
<1>4. Cardinality(From(q, i)) <= MaxThreads + 1 - i
  BY <1>2, <1>3
<1> QED
  BY <1>4 DEF q

LEMMA PositionType == DInv => Position \in [Thread -> Nat]
BY DEF DInv, HPTypeOK, Position

LEMMA UncrowdedStep ==
    EnoughRecords /\ DInv /\ DInv' /\ Uncrowded /\ [HPNext]_hpVars => Uncrowded'
<1> SUFFICES ASSUME EnoughRecords, DInv, DInv', Uncrowded, [HPNext]_hpVars
             PROVE  Uncrowded'
  OBVIOUS
<1>0. /\ HPTypeOK /\ HPTypeOK' /\ Position \in [Thread -> Nat] /\ Position' \in [Thread -> Nat]
  <2>1. HPTypeOK' => Position' \in [Thread -> Nat]
    BY DEF HPTypeOK, Position
  <2> QED
    BY <2>1, PositionType DEF DInv
<1>1. ASSUME \A t \in Thread : Position'[t] <= Position[t] \/ Position'[t] = 1
      PROVE  Uncrowded'
  BY <1>0, <1>1, GoingBack DEF Uncrowded
<1>2. ASSUME NEW t \in Thread, AcquireLose(t), idx[t] < MaxThreads \/ idx[t] = MaxThreads
      PROVE  Uncrowded'
  <2>1. /\ tid[t] = 0 /\ idx[t] \in Ids /\ in_use[idx[t]] /\ hpc[t] = "acquire"
    BY <1>2 DEF DInv, DomainLocals, AcquireLose
  <2>2. PICK u \in Thread : tid[u] = idx[t]
    BY <2>1 DEF DInv, RecordsOwned
  <2>3. u # t /\ Position[u] = idx[t] /\ Position[t] = idx[t]
    BY <2>1, <2>2 DEF Position
  <2>4. Position'[t] = idx[t] + 1
    <3>1. tid'[t] = 0
      BY <1>2, <2>1 DEF AcquireLose
    <3>2. CASE idx[t] < MaxThreads
      BY <1>0, <1>2, <2>1, <3>1, <3>2 DEF AcquireLose, Position, HPTypeOK
    <3>3. CASE idx[t] = MaxThreads
      BY <1>0, <1>2, <2>1, <3>1, <3>3 DEF AcquireLose, Position, HPTypeOK
    <3> QED
      BY <1>2, <3>2, <3>3
  <2>5. \A v \in Thread : v # t => Position'[v] = Position[v]
    BY <1>0, <1>2 DEF AcquireLose, Position, HPTypeOK
  <2>6. Position' = [Position EXCEPT ![t] = Position[t] + 1]
    BY <1>0, <2>3, <2>4, <2>5
  <2> QED
    BY <1>0, <2>1, <2>3, <2>6, GoingOn DEF Uncrowded
<1>3. ASSUME NEW t \in Thread, AcquireEnter(t) PROVE Uncrowded'
  <2>1. \A v \in Thread : Position'[v] = IF v = t THEN 1 ELSE Position[v]
    BY <1>0, <1>3 DEF AcquireEnter, Position, HPTypeOK
  <2> QED
    BY <1>0, <1>1, <2>1
<1>4. ASSUME NEW t \in Thread, AcquireWin(t) PROVE Uncrowded'
  <2>1. tid[t] = 0 /\ hpc[t] = "acquire" /\ idx[t] \in Ids
    BY <1>4 DEF DInv, DomainLocals, AcquireWin
  <2>2. \A v \in Thread : Position'[v] = Position[v]
    BY <1>0, <1>4, <2>1 DEF AcquireWin, Position, HPTypeOK
  <2> QED
    BY <1>0, <1>1, <2>2
<1>5. ASSUME NEW t \in Thread, ReleaseId(t) PROVE Uncrowded'
  <2>1. /\ tid'[t] = 0 /\ hpc'[t] = "out" /\ idx' = idx
        /\ \A v \in Thread : v # t => tid'[v] = tid[v] /\ hpc'[v] = hpc[v]
    BY <1>0, <1>5 DEF ReleaseId, HPTypeOK, hazardScanVars
  <2>2. Position'[t] = 0 /\ \A v \in Thread : v # t => Position'[v] = Position[v]
    BY <2>1 DEF Position
  <2> QED
    BY <1>0, <1>1, <2>2
<1>6. ASSUME NEW t \in Thread, tid[t] # 0, tid' = tid,
             \A v \in Thread : v # t => hpc'[v] = hpc[v] /\ idx'[v] = idx[v]
      PROVE  Uncrowded'
  <2>1. \A v \in Thread : Position'[v] = Position[v]
    BY <1>6 DEF Position
  <2> QED
    BY <1>0, <1>1, <2>1
<1>7. ASSUME NEW t \in Thread, NEW n \in Pointer,
             \/ Publish(t, n) \/ Retire(t, n) \/ Sweep(t, n) \/ ReleaseEnter(t)
             \/ ReleaseSlots(t) \/ ScanUse(t) \/ ScanSlot(t) \/ SweepEnd(t)
      PROVE  Uncrowded'
  <2>1. tid[t] # 0 /\ tid' = tid
    BY <1>7 DEF DInv, DomainLocals, Scanning, Publish, Retire, Sweep, ReleaseEnter, ReleaseSlots,
                ScanUse, ScanSlot, SweepEnd
  <2>2. \A v \in Thread : v # t => hpc'[v] = hpc[v] /\ idx'[v] = idx[v]
    <3>1. CASE Publish(t, n) \/ Retire(t, n) \/ Sweep(t, n)
      BY <1>0, <3>1 DEF HPTypeOK, Publish, Retire, Sweep, BeginHazardScan, hazardScanVars
    <3>2. CASE ReleaseEnter(t) \/ ReleaseSlots(t)
      BY <1>0, <3>2 DEF HPTypeOK, ReleaseEnter, ReleaseSlots, BeginHazardScan, hazardScanVars
    <3>3. CASE ScanUse(t)
      BY <1>0, <3>3 DEF HPTypeOK, ScanUse, NextRecord, hazardScanVars
    <3>4. CASE ScanSlot(t)
      BY <1>0, <3>4 DEF HPTypeOK, ScanSlot, NextRecord, hazardScanVars
    <3>5. CASE SweepEnd(t)
      BY <1>0, <3>5 DEF HPTypeOK, SweepEnd, hazardScanVars
    <3> QED
      BY <1>7, <3>1, <3>2, <3>3, <3>4, <3>5
  <2> QED
    BY <1>6, <2>1, <2>2
<1>8. CASE UNCHANGED hpVars
  BY <1>8 DEF hpVars, hazardScanVars, Uncrowded, Position
<1>9. ASSUME NEW t \in Thread, AcquireLose(t) PROVE Uncrowded'
  <2>1. idx[t] \in Ids
    BY <1>9 DEF DInv, DomainLocals, AcquireLose
  <2> QED
    BY <1>2, <1>9, <2>1
<1> QED
  BY <1>3, <1>4, <1>5, <1>7, <1>8, <1>9 DEF HPNext, HPStep, AcquireTry, Clear, Pointer

LEMMA UncrowdedInit == EnoughRecords /\ FreshDomain /\ HPInit => Uncrowded
<1> SUFFICES ASSUME EnoughRecords, FreshDomain, HPInit,
                    NEW i \in 1..(MaxThreads + 1)
             PROVE  Cardinality(From(Position, i)) <= MaxThreads + 1 - i
  BY DEF Uncrowded, Sparse
<1>1. \A t \in Thread : Position[t] = 0
  BY DEF HPInit, FreshDomain, Position
<1>2. From(Position, i) = {}
  BY <1>1 DEF From
<1> QED
  BY <1>2, FS_EmptySet

\* Every thread that asks for a record finds one, and no two threads have the
\* same, whoever releases and acquires meanwhile.
THEOREM RecordsAssignedCorrect ==
    ASSUME FreshDomain, EnoughRecords PROVE HPSpec => []RecordsAssigned
<1>1. HPInit => Uncrowded
  BY FreshDomain, EnoughRecords, UncrowdedInit
<1>2. DInv /\ DInv' /\ Uncrowded /\ [HPNext]_hpVars => Uncrowded'
  BY EnoughRecords, UncrowdedStep
<1>3. DInv /\ Uncrowded => RecordsAssigned
  <2> SUFFICES ASSUME DInv, Uncrowded, NEW t \in Thread, hpc[t] = "exceeded" PROVE FALSE
    BY DEF DInv, RecordsOwned, RecordsAssigned, RecordsSuffice, RecordsDistinct
  <2>1. tid[t] = 0 /\ Position[t] = MaxThreads + 1
    BY DEF DInv, DomainLocals, Position
  <2>2. /\ From(Position, MaxThreads + 1) \in SUBSET Thread
        /\ t \in From(Position, MaxThreads + 1)
    BY <2>1 DEF From
  <2>3. Cardinality(From(Position, MaxThreads + 1)) <= MaxThreads + 1 - (MaxThreads + 1)
    BY DEF Uncrowded, Sparse
  <2>4. Cardinality(From(Position, MaxThreads + 1)) = 0
    BY <2>2, <2>3, CrowdFacts, EnoughRecords
  <2> QED
    BY <2>2, <2>4, CrowdFacts, FS_EmptySet, EnoughRecords
<1> QED
  BY <1>1, <1>2, <1>3, FreshDomain, DInvCorrect, PTL DEF HPSpec

-----------------------------------------------------------------------------
(* The retired lists stay short *)

LEMMA ListsFinite ==
    ASSUME NEW S \in SUBSET Node PROVE IsFiniteSet(S) /\ Cardinality(S) \in Nat
BY FiniteAddresses, FS_Subset, FS_CardinalityType

LEMMA GarbageInit == HPInit => GarbageInv
BY FS_EmptySet DEF HPInit, GarbageInv, Modest

LEMMA GarbageStep == DInv /\ GarbageInv /\ [HPNext]_hpVars => GarbageInv'
<1> SUFFICES ASSUME DInv, GarbageInv, [HPNext]_hpVars, NEW u \in Thread
             PROVE  Modest(hpc'[u], idx'[u], hazards'[u], retired'[u])
  BY DEF GarbageInv
<1>0. HPTypeOK /\ DomainLocals /\ Modest(hpc[u], idx[u], hazards[u], retired[u])
  BY DEF DInv, GarbageInv
<1>n. /\ Cardinality(retired[u]) \in Nat /\ Cardinality(hazards[u]) \in Nat
      /\ IsFiniteSet(retired[u]) /\ retired[u] \in SUBSET Node /\ idx[u] \in 0..MaxThreads
  <2>1. retired[u] \in SUBSET Node /\ hazards[u] \in SUBSET Node /\ idx[u] \in 0..MaxThreads
    BY <1>0 DEF HPTypeOK
  <2> QED
    BY <2>1, ListsFinite
<1> USE DEF recordVars, hazardScanVars
<1>1. ASSUME retired'[u] = retired[u], hazards'[u] = hazards[u],
             hpc[u] \notin {"scan_use", "scan_slot", "sweep"},
             hpc'[u] \notin {"scan_use", "scan_slot", "sweep"}
      PROVE  Modest(hpc'[u], idx'[u], hazards'[u], retired'[u])
  BY <1>0, <1>1 DEF Modest
<1>2. ASSUME retired'[u] = retired[u], hazards'[u] = hazards[u], hpc'[u] = hpc[u],
             idx'[u] = idx[u]
      PROVE  Modest(hpc'[u], idx'[u], hazards'[u], retired'[u])
  BY <1>0, <1>2 DEF Modest
<1>3. ASSUME NEW t \in Thread, NEW n \in Pointer,
             \/ AcquireEnter(t) \/ AcquireTry(t) \/ ReleaseSlots(t) \/ ReleaseId(t)
             \/ Publish(t, n)
      PROVE  Modest(hpc'[u], idx'[u], hazards'[u], retired'[u])
  <2>1. retired' = retired /\ hazards' = hazards
    BY <1>3 DEF AcquireEnter, AcquireTry, AcquireWin, AcquireLose, ReleaseSlots, ReleaseId, Publish
  <2>2. u # t => hpc'[u] = hpc[u] /\ idx'[u] = idx[u]
    BY <1>0, <1>3 DEF AcquireEnter, AcquireTry, AcquireWin, AcquireLose, ReleaseSlots, ReleaseId,
                      Publish, HPTypeOK
  <2>3. /\ hpc[t] \notin {"scan_use", "scan_slot", "sweep"}
        /\ hpc'[t] \notin {"scan_use", "scan_slot", "sweep"}
    BY <1>0, <1>3 DEF AcquireEnter, AcquireTry, AcquireWin, AcquireLose, ReleaseSlots, ReleaseId,
                      Publish, HPTypeOK
  <2> QED
    BY <1>1, <1>2, <2>1, <2>2, <2>3
<1>4. ASSUME NEW t \in Thread, ReleaseEnter(t)
      PROVE  Modest(hpc'[u], idx'[u], hazards'[u], retired'[u])
  <2>1. retired' = retired
    BY <1>4 DEF ReleaseEnter
  <2>2. CASE u # t
    BY <1>0, <1>2, <1>4, <2>1, <2>2 DEF ReleaseEnter, BeginHazardScan, HPTypeOK
  <2>3. CASE u = t
    <3>1. /\ idx'[u] = 1 /\ hazards'[u] = {} /\ hpc[u] = "out"
          /\ hpc'[u] = IF retired[u] = {} THEN "release_slots" ELSE "scan_use"
      BY <1>0, <1>4, <2>1, <2>3 DEF ReleaseEnter, BeginHazardScan, HPTypeOK
    <3> QED
      BY <1>0, <1>n, <2>1, <3>1, FS_EmptySet DEF Modest
  <2> QED
    BY <2>2, <2>3
<1>5. ASSUME NEW t \in Thread, NEW n \in Node, Retire(t, n)
      PROVE  Modest(hpc'[u], idx'[u], hazards'[u], retired'[u])
  <2>1. CASE u # t
    BY <1>0, <1>2, <1>5, <2>1 DEF Retire, BeginHazardScan, HPTypeOK
  <2>2. CASE u = t
    <3>1. hpc[u] = "out" /\ retired'[u] = retired[u] \union {n}
      BY <1>0, <1>5, <2>2 DEF Retire, HPTypeOK
    <3>2. /\ Cardinality(retired'[u]) \in Nat
          /\ Cardinality(retired'[u]) <= Cardinality(retired[u]) + 1
      <4>1. \/ Cardinality(retired[u] \union {n}) = Cardinality(retired[u])
            \/ Cardinality(retired[u] \union {n}) = Cardinality(retired[u]) + 1
        BY <1>n, FS_AddElement
      <4> QED
        BY <1>n, <3>1, <4>1
    <3>3. CASE Cardinality(retired'[u]) >= ReclaimThreshold
      <4>1. /\ idx'[u] = 1 /\ hazards'[u] = {}
            /\ hpc'[u] = IF retired'[u] = {} THEN "out" ELSE "scan_use"
        BY <1>0, <1>5, <2>2, <3>3 DEF Retire, BeginHazardScan, HPTypeOK
      <4>2. retired'[u] # {}
        BY <3>1
      <4> QED
        BY <1>0, <1>n, <3>1, <3>2, <4>1, <4>2, FS_EmptySet DEF Modest
    <3>4. CASE ~(Cardinality(retired'[u]) >= ReclaimThreshold)
      <4>1. hpc'[u] = "out" /\ hazards'[u] = hazards[u]
        BY <1>5, <2>2, <3>1, <3>4 DEF Retire
      <4> QED
        BY <1>0, <3>2, <3>4, <4>1 DEF Modest
    <3> QED
      BY <3>3, <3>4
  <2> QED
    BY <2>1, <2>2
<1>6. ASSUME NEW t \in Thread, ScanUse(t) \/ ScanSlot(t)
      PROVE  Modest(hpc'[u], idx'[u], hazards'[u], retired'[u])
  <2>1. CASE u # t
    BY <1>0, <1>2, <1>6, <2>1 DEF ScanUse, ScanSlot, NextRecord, HPTypeOK
  <2>2. CASE u = t
    <3>1. /\ retired' = retired /\ Cardinality(hazards[u]) <= idx[u] - 1 /\ IsFiniteSet(hazards[u])
          /\ idx[u] >= 1 /\ idx[u] \in Ids
      BY <1>0, <1>6, <2>2 DEF ScanUse, ScanSlot, Modest, DomainLocals
    <3>2. ASSUME NextRecord(t)
          PROVE  \/ hpc'[u] = "scan_use" /\ idx'[u] = idx[u] + 1
                 \/ hpc'[u] = "sweep" /\ idx[u] = MaxThreads
      BY <1>0, <2>2, <3>1, <3>2 DEF NextRecord, HPTypeOK
    <3>3. CASE ScanUse(t)
      <4>1. hazards'[u] = hazards[u]
        BY <3>3 DEF ScanUse
      <4>2. \/ hpc'[u] = "scan_slot" /\ idx'[u] = idx[u]
            \/ NextRecord(t)
        BY <1>0, <2>2, <3>3 DEF ScanUse, HPTypeOK
      <4> QED
        BY <1>0, <1>n, <3>1, <3>2, <4>1, <4>2 DEF Modest
    <3>4. CASE ScanSlot(t)
      <4>1. PICK p : hazards'[u] = hazards[u] \union ({p} \ {None})
        BY <1>0, <2>2, <3>4 DEF ScanSlot, HPTypeOK
      <4>2. /\ IsFiniteSet(hazards'[u])
            /\ Cardinality(hazards'[u]) <= Cardinality(hazards[u]) + 1
            /\ Cardinality(hazards'[u]) \in Nat
        <5>1. hazards'[u] = hazards[u] \/ hazards'[u] = hazards[u] \union {p}
          BY <4>1
        <5>2. /\ IsFiniteSet(hazards[u] \union {p})
              /\ \/ Cardinality(hazards[u] \union {p}) = Cardinality(hazards[u])
                 \/ Cardinality(hazards[u] \union {p}) = Cardinality(hazards[u]) + 1
          BY <3>1, FS_AddElement
        <5>3. CASE hazards'[u] = hazards[u]
          BY <1>n, <3>1, <5>3
        <5>4. CASE hazards'[u] = hazards[u] \union {p}
          <6>1. IsFiniteSet(hazards'[u])
            BY <5>2, <5>4
          <6>2. \/ Cardinality(hazards'[u]) = Cardinality(hazards[u])
                \/ Cardinality(hazards'[u]) = Cardinality(hazards[u]) + 1
            BY <5>2, <5>4
          <6> QED
            BY <1>n, <6>1, <6>2
        <5> QED
          BY <5>1, <5>3, <5>4
      <4>3. NextRecord(t)
        BY <3>4 DEF ScanSlot
      <4> QED
        BY <1>0, <1>n, <3>1, <3>2, <4>2, <4>3 DEF Modest
    <3> QED
      BY <1>6, <3>3, <3>4
  <2> QED
    BY <2>1, <2>2
<1>7. ASSUME NEW t \in Thread, NEW n \in Node, Sweep(t, n)
      PROVE  Modest(hpc'[u], idx'[u], hazards'[u], retired'[u])
  <2>1. CASE u # t
    BY <1>0, <1>2, <1>7, <2>1 DEF Sweep, HPTypeOK
  <2>2. CASE u = t
    <3>1. /\ retired'[u] = retired[u] \ {n} /\ hpc'[u] = "sweep" /\ hpc[u] = "sweep"
          /\ hazards'[u] = hazards[u]
      BY <1>0, <1>7, <2>2 DEF Sweep, HPTypeOK
    <3>2. /\ Cardinality(retired'[u]) \in Nat
          /\ Cardinality(retired'[u]) <= Cardinality(retired[u])
      BY <1>n, <3>1, FS_Subset, ListsFinite
    <3> QED
      BY <1>0, <1>n, <3>1, <3>2 DEF Modest
  <2> QED
    BY <2>1, <2>2
<1>8. ASSUME NEW t \in Thread, SweepEnd(t)
      PROVE  Modest(hpc'[u], idx'[u], hazards'[u], retired'[u])
  <2>1. CASE u # t
    BY <1>0, <1>2, <1>8, <2>1 DEF SweepEnd, HPTypeOK
  <2>2. CASE u = t
    <3>1. /\ retired[u] \subseteq hazards[u] /\ retired'[u] = retired[u] /\ hazards'[u] = {}
          /\ hpc[u] = "sweep" /\ hpc'[u] \in {"release_slots", "out"}
      BY <1>0, <1>8, <2>2 DEF SweepEnd, HPTypeOK
    <3>2. Cardinality(retired[u]) <= Cardinality(hazards[u]) /\ Cardinality(hazards[u]) <= MaxThreads
      BY <1>0, <3>1, FS_Subset DEF Modest
    <3> QED
      BY <1>n, <3>1, <3>2, FS_EmptySet DEF Modest
  <2> QED
    BY <2>1, <2>2
<1>9. CASE UNCHANGED hpVars
  BY <1>2, <1>9 DEF hpVars
<1> QED
  BY <1>3, <1>4, <1>5, <1>6, <1>7, <1>8, <1>9 DEF HPNext, HPStep, Clear, Pointer

\* Each list is bounded by the threshold, or by the records and one more node,
\* however long a reader stalls with its hazard pointer published.
THEOREM BoundedGarbageCorrect == ASSUME FreshDomain PROVE HPSpec => []BoundedGarbage
<1>1. HPInit => GarbageInv
  BY GarbageInit
<1>2. DInv /\ GarbageInv /\ [HPNext]_hpVars => GarbageInv'
  BY GarbageStep
<1>3. GarbageInv => BoundedGarbage
  BY DEF GarbageInv, Modest, BoundedGarbage
<1> QED
  BY <1>1, <1>2, <1>3, FreshDomain, DInvCorrect, PTL DEF HPSpec
-----------------------------------------------------------------------------
(* Every step of the stack is a step of its domain, or none *)

LEMMA StepsDomain ==
    HSTypeOK /\ Locals /\ OneHolder /\ [HSNext]_hsVars => [HPNext]_hpVars
<1> SUFFICES ASSUME HSTypeOK, Locals, OneHolder, [HSNext]_hsVars PROVE [HPNext]_hpVars
  OBVIOUS
<1>1. ASSUME NEW t \in Thread, PushStep(t) PROVE UNCHANGED hpVars
  BY <1>1 DEF PushStep, PushAlloc, PushCAS, PushRetry
<1>2. ASSUME NEW t \in Thread, PopStep(t) PROVE [HPNext]_hpVars
  <2>1. PopPublish(t) => HPNext
    BY DEF PopPublish, Locals, HPNext, HPStep
  <2>2. PopRetire(t) => HPNext
    <3>1. PopRetire(t) => old_head[t] \in Node /\ Mine(t, old_head[t])
      BY DEF PopRetire, Goto, Locals, Mine
    <3>2. PopRetire(t) => \A u \in Thread : old_head[t] \notin retired[u]
      BY <3>1 DEF OneHolder
    <3> QED
      BY <3>1, <3>2 DEF PopRetire, HPNext, HPStep
  <2>3. PopRetry(t) \/ PopTake(t) => HPNext
    BY DEF PopRetry, PopTake, HPNext, HPStep
  <2> QED
    BY <1>2, <2>1, <2>2, <2>3
    DEF PopStep, PopCall, PopLoad, PopValidate, PopInvalid, PopNext, PopCAS, PopFail
<1>3. ASSUME NEW t \in Thread, DomainStep(t) PROVE [HPNext]_hpVars
  BY <1>3 DEF DomainStep, Scan, Delete, ReleaseCall, Release, Return, HPNext, HPStep
<1>4. Terminated \/ UNCHANGED hsVars => UNCHANGED hpVars
  BY DEF Terminated, hsVars
<1> QED
  BY <1>1, <1>2, <1>3, <1>4 DEF HSNext

-----------------------------------------------------------------------------
(* The invariant is preserved *)

LEMMA HSInvInit == FreshDomain /\ HSInit => HSInv
<1> SUFFICES ASSUME FreshDomain, HSInit PROVE HSInv
  OBVIOUS
<1> USE DEF HSInit, StackInit
<1>1. DInv
  BY DInvInit
<1>2. HSTypeOK
  BY <1>1, MaxCallsNat DEF DInv, HSTypeOK, Pointer
<1>3. Locals
  BY DEF HPInit, Locals, Scanning
<1>4. SlotHeld /\ HeldSafe
  BY DEF SlotHeld, HeldSafe
<1>5. OneHolder /\ ListShape
  BY DEF HPInit, OneHolder, ListShape, Mine, InStack
<1> QED
  BY <1>1, <1>2, <1>3, <1>4, <1>5 DEF HSInv

LEMMA ListUnmoved ==
    ASSUME HSTypeOK, ListShape, head' = head, next' = next,
           \A m : InStack(m)' <=> InStack(m)
    PROVE  ListShape'
BY DEF HSTypeOK, ListShape

LEMMA PushAllocStep ==
    ASSUME HSInv, DInv', NEW t \in Thread, NEW v \in Value, NEW n \in Node, PushAlloc(t, v, n) PROVE HSInv'
<1> USE DEF HSInv, heapVars, localVars, Pointer
<1>0. UNCHANGED hpVars
  BY DEF PushAlloc
<1>1. /\ in_use' = in_use /\ slot' = slot /\ tid' = tid /\ retired' = retired /\ hpc' = hpc
      /\ idx' = idx /\ hazards' = hazards /\ releasing' = releasing
  BY <1>0 DEF hpVars, recordVars, hazardScanVars
<1>2. HSTypeOK'
  BY <1>0, MaxCallsNat DEF PushAlloc, Call, HSTypeOK, DInv
<1>3. Locals'
  BY <1>1 DEF PushAlloc, Call, HSTypeOK, Locals, Scanning
<1>4. OneHolder'
  BY <1>1 DEF PushAlloc, Call, HSTypeOK, Locals, OneHolder, Mine
<1>5. ListShape'
  <2>1. \A m \in Node : InStack(m)' <=> InStack(m)
    BY <1>1 DEF PushAlloc, Call, HSTypeOK, InStack, Mine
  <2>2. \A m \in Node : InStack(m) => next'[m] = next[m]
    BY DEF PushAlloc, Call, HSTypeOK, InStack
  <2>3. head' = head /\ head \in Pointer
    BY DEF PushAlloc, Call, HSTypeOK
  <2> HIDE DEF HSInv
  <2> QED
    BY <2>1, <2>2, <2>3 DEF ListShape, HSInv, HSTypeOK
<1>6. SlotHeld'
  BY <1>1 DEF PushAlloc, Call, HSTypeOK, SlotHeld
<1>7. HeldSafe'
  BY <1>1 DEF PushAlloc, Call, HSTypeOK, Locals, OneHolder, ListShape, HeldSafe, InStack, Mine, ScanSees
<1> QED
  BY <1>2, <1>3, <1>4, <1>5, <1>6, <1>7

LEMMA PushCASStep ==
    ASSUME HSInv, DInv', NEW t \in Thread, PushCAS(t) PROVE HSInv'
<1> USE DEF HSInv, heapVars, localVars, Pointer
<1>0. UNCHANGED hpVars
  BY DEF PushCAS
<1>1. /\ in_use' = in_use /\ slot' = slot /\ tid' = tid /\ retired' = retired /\ hpc' = hpc
      /\ idx' = idx /\ hazards' = hazards /\ releasing' = releasing
  BY <1>0 DEF hpVars, recordVars, hazardScanVars
<1>2. HSTypeOK'
  BY <1>0 DEF PushCAS, Goto, HSTypeOK, DInv
<1>3. Locals'
  BY <1>1 DEF PushCAS, Goto, HSTypeOK, Locals, Scanning
<1>4. OneHolder'
  BY <1>1 DEF PushCAS, Goto, HSTypeOK, Locals, OneHolder, Mine
<1>5. ListShape'
  BY <1>1 DEF PushCAS, Goto, HSTypeOK, Locals, OneHolder, ListShape, HeldSafe, InStack, Mine
<1>6. SlotHeld'
  BY <1>1 DEF PushCAS, Goto, HSTypeOK, SlotHeld
<1>7. HeldSafe'
  BY <1>1 DEF PushCAS, Goto, HSTypeOK, Locals, OneHolder, ListShape, HeldSafe, InStack, Mine, ScanSees
<1> QED
  BY <1>2, <1>3, <1>4, <1>5, <1>6, <1>7

LEMMA PushRetryStep ==
    ASSUME HSInv, DInv', NEW t \in Thread, PushRetry(t) PROVE HSInv'
<1> USE DEF HSInv, heapVars, localVars, Pointer
<1>0. UNCHANGED hpVars
  BY DEF PushRetry
<1>1. /\ in_use' = in_use /\ slot' = slot /\ tid' = tid /\ retired' = retired /\ hpc' = hpc
      /\ idx' = idx /\ hazards' = hazards /\ releasing' = releasing
  BY <1>0 DEF hpVars, recordVars, hazardScanVars
<1>2. HSTypeOK'
  BY <1>0 DEF PushRetry, HSTypeOK, DInv
<1>3. Locals'
  BY <1>1 DEF PushRetry, HSTypeOK, Locals, Scanning
<1>4. OneHolder'
  BY <1>1 DEF PushRetry, HSTypeOK, Locals, OneHolder, Mine
<1>5. ListShape'
  BY <1>1 DEF PushRetry, HSTypeOK, Locals, OneHolder, ListShape, HeldSafe, InStack, Mine
<1>6. SlotHeld'
  BY <1>1 DEF PushRetry, HSTypeOK, SlotHeld
<1>7. HeldSafe'
  BY <1>1 DEF PushRetry, HSTypeOK, Locals, OneHolder, ListShape, HeldSafe, InStack, Mine, ScanSees
<1> QED
  BY <1>2, <1>3, <1>4, <1>5, <1>6, <1>7

LEMMA PopCallStep ==
    ASSUME HSInv, DInv', NEW t \in Thread, PopCall(t) PROVE HSInv'
<1> USE DEF HSInv, heapVars, localVars, Pointer
<1>0. UNCHANGED hpVars
  BY DEF PopCall
<1>1. /\ in_use' = in_use /\ slot' = slot /\ tid' = tid /\ retired' = retired /\ hpc' = hpc
      /\ idx' = idx /\ hazards' = hazards /\ releasing' = releasing
  BY <1>0 DEF hpVars, recordVars, hazardScanVars
<1>2. HSTypeOK'
  BY <1>0, MaxCallsNat DEF PopCall, Call, HSTypeOK, DInv
<1>3. Locals'
  BY <1>1 DEF PopCall, Call, HSTypeOK, Locals, Scanning
<1>4. OneHolder'
  BY <1>1 DEF PopCall, Call, HSTypeOK, Locals, OneHolder, Mine
<1>5. ListShape'
  <2>1. \A m : InStack(m)' <=> InStack(m)
    BY <1>1 DEF PopCall, Call, HSTypeOK, InStack, Mine
  <2>2. head' = head /\ next' = next
    BY DEF PopCall, Call
  <2> QED
    BY <2>1, <2>2, ListUnmoved
<1>6. SlotHeld'
  BY <1>1 DEF PopCall, Call, HSTypeOK, SlotHeld
<1>7. HeldSafe'
  BY <1>1 DEF PopCall, Call, HSTypeOK, Locals, OneHolder, ListShape, HeldSafe, InStack, Mine, ScanSees
<1> QED
  BY <1>2, <1>3, <1>4, <1>5, <1>6, <1>7

LEMMA PopLoadStep ==
    ASSUME HSInv, DInv', NEW t \in Thread, PopLoad(t) PROVE HSInv'
<1> USE DEF HSInv, heapVars, localVars, Pointer
<1>0. UNCHANGED hpVars
  BY DEF PopLoad
<1>1. /\ in_use' = in_use /\ slot' = slot /\ tid' = tid /\ retired' = retired /\ hpc' = hpc
      /\ idx' = idx /\ hazards' = hazards /\ releasing' = releasing
  BY <1>0 DEF hpVars, recordVars, hazardScanVars
<1>2. HSTypeOK'
  BY <1>0 DEF PopLoad, Goto, HSTypeOK, DInv
<1>3. Locals'
  BY <1>1 DEF PopLoad, Goto, HSTypeOK, Locals, Scanning
<1>4. OneHolder'
  BY <1>1 DEF PopLoad, Goto, HSTypeOK, Locals, OneHolder, Mine
<1>5. ListShape'
  <2>1. \A m : InStack(m)' <=> InStack(m)
    BY <1>1 DEF PopLoad, Goto, HSTypeOK, InStack, Mine
  <2>2. head' = head /\ next' = next
    BY DEF PopLoad, Goto
  <2> QED
    BY <2>1, <2>2, ListUnmoved
<1>6. SlotHeld'
  BY <1>1 DEF PopLoad, Goto, HSTypeOK, SlotHeld
<1>7. HeldSafe'
  BY <1>1 DEF PopLoad, Goto, HSTypeOK, Locals, OneHolder, ListShape, HeldSafe, InStack, Mine, ScanSees
<1> QED
  BY <1>2, <1>3, <1>4, <1>5, <1>6, <1>7

LEMMA PopValidateStep ==
    ASSUME HSInv, DInv', NEW t \in Thread, PopValidate(t) PROVE HSInv'
<1> USE DEF HSInv, heapVars, localVars, Pointer
<1>0. UNCHANGED hpVars
  BY DEF PopValidate
<1>1. /\ in_use' = in_use /\ slot' = slot /\ tid' = tid /\ retired' = retired /\ hpc' = hpc
      /\ idx' = idx /\ hazards' = hazards /\ releasing' = releasing
  BY <1>0 DEF hpVars, recordVars, hazardScanVars
<1>2. HSTypeOK'
  BY <1>0 DEF PopValidate, Goto, HSTypeOK, DInv
<1>3. Locals'
  BY <1>1 DEF PopValidate, Goto, HSTypeOK, Locals, Scanning
<1>4. OneHolder'
  BY <1>1 DEF PopValidate, Goto, HSTypeOK, Locals, OneHolder, Mine
<1>5. ListShape'
  <2>1. \A m : InStack(m)' <=> InStack(m)
    BY <1>1 DEF PopValidate, Goto, HSTypeOK, InStack, Mine
  <2>2. head' = head /\ next' = next
    BY DEF PopValidate, Goto
  <2> QED
    BY <2>1, <2>2, ListUnmoved
<1>6. SlotHeld'
  BY <1>1 DEF PopValidate, Goto, HSTypeOK, SlotHeld
<1>7. HeldSafe'
  BY <1>1 DEF PopValidate, Goto, HSTypeOK, Locals, OneHolder, ListShape, HeldSafe, InStack, Mine, ScanSees
<1> QED
  BY <1>2, <1>3, <1>4, <1>5, <1>6, <1>7

LEMMA PopInvalidStep ==
    ASSUME HSInv, DInv', NEW t \in Thread, PopInvalid(t) PROVE HSInv'
<1> USE DEF HSInv, heapVars, localVars, Pointer
<1>0. UNCHANGED hpVars
  BY DEF PopInvalid
<1>1. /\ in_use' = in_use /\ slot' = slot /\ tid' = tid /\ retired' = retired /\ hpc' = hpc
      /\ idx' = idx /\ hazards' = hazards /\ releasing' = releasing
  BY <1>0 DEF hpVars, recordVars, hazardScanVars
<1>2. HSTypeOK'
  BY <1>0 DEF PopInvalid, Goto, HSTypeOK, DInv
<1>3. Locals'
  BY <1>1 DEF PopInvalid, Goto, HSTypeOK, Locals, Scanning
<1>4. OneHolder'
  BY <1>1 DEF PopInvalid, Goto, HSTypeOK, Locals, OneHolder, Mine
<1>5. ListShape'
  <2>1. \A m : InStack(m)' <=> InStack(m)
    BY <1>1 DEF PopInvalid, Goto, HSTypeOK, InStack, Mine
  <2>2. head' = head /\ next' = next
    BY DEF PopInvalid, Goto
  <2> QED
    BY <2>1, <2>2, ListUnmoved
<1>6. SlotHeld'
  BY <1>1 DEF PopInvalid, Goto, HSTypeOK, SlotHeld
<1>7. HeldSafe'
  BY <1>1 DEF PopInvalid, Goto, HSTypeOK, Locals, OneHolder, ListShape, HeldSafe, InStack, Mine, ScanSees
<1> QED
  BY <1>2, <1>3, <1>4, <1>5, <1>6, <1>7

LEMMA PopNextStep ==
    ASSUME HSInv, DInv', NEW t \in Thread, PopNext(t) PROVE HSInv'
<1> USE DEF HSInv, heapVars, localVars, Pointer
<1>0. UNCHANGED hpVars
  BY DEF PopNext
<1>1. /\ in_use' = in_use /\ slot' = slot /\ tid' = tid /\ retired' = retired /\ hpc' = hpc
      /\ idx' = idx /\ hazards' = hazards /\ releasing' = releasing
  BY <1>0 DEF hpVars, recordVars, hazardScanVars
<1>2. HSTypeOK'
  BY <1>0 DEF PopNext, Goto, HSTypeOK, DInv, Locals
<1>3. Locals'
  BY <1>1 DEF PopNext, Goto, HSTypeOK, Locals, Scanning
<1>4. OneHolder'
  BY <1>1 DEF PopNext, Goto, HSTypeOK, Locals, OneHolder, Mine
<1>5. ListShape'
  <2>1. \A m : InStack(m)' <=> InStack(m)
    BY <1>1 DEF PopNext, Goto, HSTypeOK, InStack, Mine
  <2>2. head' = head /\ next' = next
    BY DEF PopNext, Goto
  <2> QED
    BY <2>1, <2>2, ListUnmoved
<1>6. SlotHeld'
  BY <1>1 DEF PopNext, Goto, HSTypeOK, SlotHeld
<1>7. HeldSafe'
  BY <1>1 DEF PopNext, Goto, HSTypeOK, Locals, OneHolder, ListShape, HeldSafe, InStack, Mine, ScanSees
<1> QED
  BY <1>2, <1>3, <1>4, <1>5, <1>6, <1>7

LEMMA PopCASStep ==
    ASSUME HSInv, DInv', NEW t \in Thread, PopCAS(t) PROVE HSInv'
<1> USE DEF HSInv, heapVars, localVars, Pointer
<1>0. UNCHANGED hpVars
  BY DEF PopCAS
<1>1. /\ in_use' = in_use /\ slot' = slot /\ tid' = tid /\ retired' = retired /\ hpc' = hpc
      /\ idx' = idx /\ hazards' = hazards /\ releasing' = releasing
  BY <1>0 DEF hpVars, recordVars, hazardScanVars
<1>2. HSTypeOK'
  BY <1>0 DEF PopCAS, Goto, HSTypeOK, DInv
<1>3. Locals'
  BY <1>1 DEF PopCAS, Goto, HSTypeOK, Locals, Scanning
<1>4. OneHolder'
  <2>1. InStack(head) /\ head = old_head[t]
    BY DEF PopCAS, Goto, Locals, ListShape
  <2>2. \A u \in Thread, n \in Node : Mine(u, n)' <=> Mine(u, n) \/ (u = t /\ n = head)
    BY <2>1 DEF PopCAS, Goto, HSTypeOK, Mine
  <2> QED
    BY <1>1, <2>1, <2>2 DEF PopCAS, OneHolder, InStack
<1>5. ListShape'
  <2>1. InStack(head) /\ head = old_head[t] /\ head' = next[head]
    BY DEF PopCAS, Goto, Locals, ListShape, HeldSafe
  <2>2. \A n : InStack(n)' <=> InStack(n) /\ n # head
    BY <1>1, <2>1 DEF PopCAS, Goto, HSTypeOK, InStack, Mine
  <2>3. next' = next
    BY DEF PopCAS
  <2> QED
    BY <2>1, <2>2, <2>3 DEF ListShape, InStack
<1>6. SlotHeld'
  BY <1>1 DEF PopCAS, Goto, HSTypeOK, SlotHeld
<1>7. HeldSafe'
  BY <1>1 DEF PopCAS, Goto, HSTypeOK, Locals, OneHolder, ListShape, HeldSafe, InStack, Mine, ScanSees
<1> QED
  BY <1>2, <1>3, <1>4, <1>5, <1>6, <1>7

LEMMA PopFailStep ==
    ASSUME HSInv, DInv', NEW t \in Thread, PopFail(t) PROVE HSInv'
<1> USE DEF HSInv, heapVars, localVars, Pointer
<1>0. UNCHANGED hpVars
  BY DEF PopFail
<1>1. /\ in_use' = in_use /\ slot' = slot /\ tid' = tid /\ retired' = retired /\ hpc' = hpc
      /\ idx' = idx /\ hazards' = hazards /\ releasing' = releasing
  BY <1>0 DEF hpVars, recordVars, hazardScanVars
<1>2. HSTypeOK'
  BY <1>0 DEF PopFail, Goto, HSTypeOK, DInv
<1>3. Locals'
  BY <1>1 DEF PopFail, Goto, HSTypeOK, Locals, Scanning
<1>4. OneHolder'
  BY <1>1 DEF PopFail, Goto, HSTypeOK, Locals, OneHolder, Mine
<1>5. ListShape'
  <2>1. \A m : InStack(m)' <=> InStack(m)
    BY <1>1 DEF PopFail, Goto, HSTypeOK, InStack, Mine
  <2>2. head' = head /\ next' = next
    BY DEF PopFail, Goto
  <2> QED
    BY <2>1, <2>2, ListUnmoved
<1>6. SlotHeld'
  BY <1>1 DEF PopFail, Goto, HSTypeOK, SlotHeld
<1>7. HeldSafe'
  BY <1>1 DEF PopFail, Goto, HSTypeOK, Locals, OneHolder, ListShape, HeldSafe, InStack, Mine, ScanSees
<1> QED
  BY <1>2, <1>3, <1>4, <1>5, <1>6, <1>7

LEMMA AcquireKeeps ==
    ASSUME HSInv, DInv', NEW t \in Thread, pc[t] = "pop_publish", AcquireEnter(t) \/ AcquireTry(t),
           UNCHANGED <<head, heapVars, pc, localVars>>
    PROVE  HSInv'
<1> USE DEF HSInv, heapVars, localVars, recordVars, hazardScanVars
<1>0. HPTypeOK /\ RecordsOwned /\ DomainLocals /\ HPTypeOK'
  BY DEF DInv
<1>1. /\ releasing' = releasing
      /\ head' = head /\ next' = next /\ data' = data /\ free' = free
      /\ new_node' = new_node /\ old_head' = old_head /\ nxt' = nxt /\ pc' = pc
      /\ retired' = retired /\ slot' = slot /\ hazards' = hazards
      /\ hpc[t] \in {"out", "acquire"} /\ hpc'[t] \in {"out", "acquire", "exceeded"}
      /\ \A u \in Thread : u # t => tid'[u] = tid[u] /\ hpc'[u] = hpc[u] /\ idx'[u] = idx[u]
  BY <1>0 DEF AcquireEnter, AcquireTry, AcquireWin, AcquireLose, HPTypeOK
<1>2. HSTypeOK'
  BY <1>0, <1>1 DEF HSTypeOK
<1>3. Locals'
  BY <1>0, <1>1 DEF Locals, Scanning, HSTypeOK
<1>4. OneHolder'
  BY <1>0, <1>1 DEF OneHolder, Mine, HSTypeOK
<1>5. ListShape'
  <2>1. \A m : InStack(m)' <=> InStack(m)
    BY <1>0, <1>1 DEF InStack, Mine, HSTypeOK
  <2> QED
    BY <1>1, <2>1, ListUnmoved
<1>6. SlotHeld'
  BY <1>0, <1>1 DEF SlotHeld
<1>7. HeldSafe'
  BY <1>0, <1>1 DEF HeldSafe, ScanSees, HSTypeOK, Locals, RecordsOwned, HPTypeOK
<1> QED
  BY <1>2, <1>3, <1>4, <1>5, <1>6, <1>7

LEMMA PublishKeeps ==
    ASSUME HSInv, DInv', NEW t \in Thread, pc[t] = "pop_publish", Publish(t, old_head[t]),
           pc' = [pc EXCEPT ![t] = "pop_validate"], UNCHANGED <<head, heapVars, localVars>>
    PROVE  HSInv'
<1> USE DEF HSInv, heapVars, localVars, recordVars, hazardScanVars
<1>0. HPTypeOK /\ RecordsOwned /\ DomainLocals /\ HPTypeOK'
  BY DEF DInv
<1>1. /\ releasing' = releasing
      /\ head' = head /\ next' = next /\ data' = data /\ free' = free
      /\ new_node' = new_node /\ old_head' = old_head /\ nxt' = nxt
      /\ retired' = retired /\ hazards' = hazards /\ tid' = tid /\ hpc' = hpc /\ idx' = idx
      /\ hpc[t] = "out" /\ tid[t] \in Ids /\ slot' = [slot EXCEPT ![tid[t]] = old_head[t]]
      /\ pc' = [pc EXCEPT ![t] = "pop_validate"]
  BY <1>0 DEF Publish, HPTypeOK
<1>2. HSTypeOK'
  BY <1>0, <1>1 DEF HSTypeOK
<1>3. Locals'
  BY <1>0, <1>1 DEF Locals, Scanning, HSTypeOK
<1>4. OneHolder'
  BY <1>0, <1>1 DEF OneHolder, Mine, HSTypeOK
<1>5. ListShape'
  <2>1. \A m : InStack(m)' <=> InStack(m)
    BY <1>0, <1>1 DEF InStack, Mine, HSTypeOK
  <2> QED
    BY <1>1, <2>1, ListUnmoved
<1>6. SlotHeld'
  BY <1>0, <1>1 DEF SlotHeld, HSTypeOK, HPTypeOK, Locals, RecordsOwned
<1>7. HeldSafe'
  BY <1>0, <1>1 DEF HeldSafe, ScanSees, HSTypeOK, Locals, RecordsOwned, HPTypeOK
<1> QED
  BY <1>2, <1>3, <1>4, <1>5, <1>6, <1>7

LEMMA ClearKeeps ==
    ASSUME HSInv, DInv', NEW t \in Thread, \/ Goto(t, "pop_cleared", "pop_load")
           \/ Goto(t, "pop_take", "pop_retire"),
           Clear(t), UNCHANGED <<head, heapVars, localVars>>
    PROVE  HSInv'
<1> USE DEF HSInv, heapVars, localVars, recordVars, hazardScanVars
<1>0. HPTypeOK /\ RecordsOwned /\ DomainLocals /\ HPTypeOK'
  BY DEF DInv
<1>1. /\ releasing' = releasing
      /\ head' = head /\ next' = next /\ data' = data /\ free' = free
      /\ new_node' = new_node /\ old_head' = old_head /\ nxt' = nxt
      /\ retired' = retired /\ hazards' = hazards /\ tid' = tid /\ hpc' = hpc /\ idx' = idx
      /\ hpc[t] = "out" /\ tid[t] \in Ids /\ slot' = [slot EXCEPT ![tid[t]] = None]
      /\ \/ pc[t] = "pop_cleared" /\ pc' = [pc EXCEPT ![t] = "pop_load"]
         \/ pc[t] = "pop_take" /\ pc' = [pc EXCEPT ![t] = "pop_retire"]
  BY <1>0 DEF Clear, Publish, Goto, HPTypeOK
<1>2. HSTypeOK'
  BY <1>0, <1>1 DEF HSTypeOK
<1>3. Locals'
  BY <1>0, <1>1 DEF Locals, Scanning, HSTypeOK
<1>4. OneHolder'
  BY <1>0, <1>1 DEF OneHolder, Mine, HSTypeOK
<1>5. ListShape'
  <2>1. \A m : InStack(m)' <=> InStack(m)
    BY <1>0, <1>1 DEF InStack, Mine, HSTypeOK
  <2> QED
    BY <1>1, <2>1, ListUnmoved
<1>6. SlotHeld'
  BY <1>0, <1>1 DEF SlotHeld, HSTypeOK, HPTypeOK, Locals, RecordsOwned
<1>7. HeldSafe'
  BY <1>0, <1>1 DEF HeldSafe, ScanSees, HSTypeOK
<1> QED
  BY <1>2, <1>3, <1>4, <1>5, <1>6, <1>7

LEMMA ReleaseKeeps ==
    ASSUME HSInv, DInv', NEW t \in Thread, 
           ReleaseSlots(t) \/ ReleaseId(t), UNCHANGED <<head, heapVars, pc, localVars>>
    PROVE  HSInv'
<1> USE DEF HSInv, heapVars, localVars, recordVars, hazardScanVars
<1>0. HPTypeOK /\ RecordsOwned /\ DomainLocals /\ HPTypeOK'
  BY DEF DInv
<1>1. /\ \A u \in Thread : releasing'[u] => releasing[u]
      /\ head' = head /\ next' = next /\ data' = data /\ free' = free
      /\ new_node' = new_node /\ old_head' = old_head /\ nxt' = nxt /\ pc' = pc
      /\ retired' = retired /\ hazards' = hazards /\ idx' = idx
      /\ hpc[t] \in {"release_slots", "release_id"} /\ hpc'[t] \in {"release_id", "out"}
      /\ tid[t] \in Ids /\ slot' \in {slot, [slot EXCEPT ![tid[t]] = None]}
      /\ \A u \in Thread : u # t => tid'[u] = tid[u] /\ hpc'[u] = hpc[u]
  BY <1>0 DEF ReleaseSlots, ReleaseId, DomainLocals, HPTypeOK
<1>2. HSTypeOK'
  BY <1>0, <1>1 DEF HSTypeOK
<1>3. Locals'
  BY <1>0, <1>1 DEF Locals, Scanning, HSTypeOK
<1>4. OneHolder'
  BY <1>0, <1>1 DEF OneHolder, Mine, HSTypeOK
<1>5. ListShape'
  <2>1. \A m : InStack(m)' <=> InStack(m)
    BY <1>0, <1>1 DEF InStack, Mine, HSTypeOK
  <2> QED
    BY <1>1, <2>1, ListUnmoved
<1>6. SlotHeld'
  <2>1. pc[t] = "release"
    BY <1>1 DEF Locals
  <2>2. ASSUME NEW u \in Thread, pc[u] \in {"pop_validate", "pop_next", "pop_cas"}
        PROVE  slot'[tid'[u]] = old_head[u]
    <3>1. u # t /\ tid[u] # NoId /\ tid[u] # tid[t]
      BY <1>0, <2>1, <2>2 DEF Locals, RecordsOwned
    <3>2. slot'[tid[u]] = slot[tid[u]]
      BY <1>0, <1>1, <3>1 DEF HPTypeOK
    <3> QED
      BY <1>1, <2>2, <3>1, <3>2 DEF SlotHeld
  <2> QED
    BY <1>1, <2>2 DEF SlotHeld
<1>7. HeldSafe'
  <2>1. pc[t] = "release"
    BY <1>1 DEF Locals
  <2> QED
    BY <1>1, <2>1 DEF HeldSafe, ScanSees, HSTypeOK
<1> QED
  BY <1>2, <1>3, <1>4, <1>5, <1>6, <1>7

LEMMA ReturnKeeps ==
    ASSUME HSInv, DInv', NEW t \in Thread, Return(t)
    PROVE  HSInv'
<1> USE DEF HSInv, heapVars, localVars, recordVars, hazardScanVars
<1>0. HPTypeOK /\ RecordsOwned /\ DomainLocals /\ HPTypeOK'
  BY DEF DInv
<1>1. /\ releasing' = releasing /\ (pc[t] = "release" => ~releasing[t])
      /\ head' = head /\ next' = next /\ data' = data /\ free' = free
      /\ new_node' = new_node /\ old_head' = old_head /\ nxt' = nxt
      /\ slot' = slot /\ retired' = retired /\ hazards' = hazards /\ idx' = idx /\ tid' = tid /\ hpc' = hpc
      /\ hpc[t] = "out" /\ pc[t] \in {"return", "release"} /\ pc' = [pc EXCEPT ![t] = "idle"]
  BY <1>0 DEF Return, Goto, hpVars
<1>2. HSTypeOK'
  BY <1>0, <1>1 DEF HSTypeOK, Return
<1>3. Locals'
  BY <1>0, <1>1 DEF Locals, Scanning, HSTypeOK
<1>4. OneHolder'
  BY <1>0, <1>1 DEF OneHolder, Mine, HSTypeOK
<1>5. ListShape'
  <2>1. \A m : InStack(m)' <=> InStack(m)
    BY <1>0, <1>1 DEF InStack, Mine, HSTypeOK
  <2> QED
    BY <1>1, <2>1, ListUnmoved
<1>6. SlotHeld'
  BY <1>0, <1>1 DEF SlotHeld, HSTypeOK, HPTypeOK, Locals, RecordsOwned
<1>7. HeldSafe'
  BY <1>0, <1>1 DEF HeldSafe, ScanSees, HSTypeOK, Locals, RecordsOwned, HPTypeOK
<1> QED
  BY <1>2, <1>3, <1>4, <1>5, <1>6, <1>7

LEMMA ReleaseCallKeeps ==
    ASSUME HSInv, DInv', NEW t \in Thread, ReleaseCall(t)
    PROVE  HSInv'
<1> USE DEF HSInv, heapVars, localVars, recordVars, hazardScanVars
<1>0. HPTypeOK /\ RecordsOwned /\ DomainLocals /\ HPTypeOK'
  BY DEF DInv
<1>1. /\ releasing' = [releasing EXCEPT ![t] = TRUE]
      /\ head' = head /\ next' = next /\ data' = data /\ free' = free
      /\ new_node' = new_node /\ old_head' = old_head /\ nxt' = nxt
      /\ slot' = slot /\ retired' = retired /\ tid' = tid
      /\ hpc[t] = "out" /\ pc[t] = "idle" /\ pc' = [pc EXCEPT ![t] = "release"]
      /\ idx' = [idx EXCEPT ![t] = 1] /\ tid[t] \in Ids
      /\ hazards' = [hazards EXCEPT ![t] = {}]
      /\ hpc' \in {[hpc EXCEPT ![t] = "scan_use"], [hpc EXCEPT ![t] = "release_slots"]}
  BY <1>0 DEF ReleaseCall, Call, ReleaseEnter, BeginHazardScan, HPTypeOK
<1>2. HSTypeOK'
  BY <1>0, <1>1, MaxCallsNat DEF HSTypeOK, ReleaseCall, Call
<1>3. Locals'
  BY <1>0, <1>1 DEF Locals, Scanning, HSTypeOK, HPTypeOK
<1>4. OneHolder'
  BY <1>0, <1>1 DEF OneHolder, Mine, HSTypeOK
<1>5. ListShape'
  <2>1. \A m : InStack(m)' <=> InStack(m)
    BY <1>0, <1>1 DEF InStack, Mine, HSTypeOK
  <2> QED
    BY <1>1, <2>1, ListUnmoved
<1>6. SlotHeld'
  BY <1>0, <1>1 DEF SlotHeld, HSTypeOK, HPTypeOK, Locals, RecordsOwned
<1>7. HeldSafe'
  BY <1>0, <1>1 DEF HeldSafe, ScanSees, HSTypeOK, Locals, RecordsOwned, HPTypeOK
<1> QED
  BY <1>2, <1>3, <1>4, <1>5, <1>6, <1>7

LEMMA ScanUseKeeps ==
    ASSUME HSInv, DInv', NEW t \in Thread, ScanUse(t), UNCHANGED <<head, heapVars, pc, localVars>>
    PROVE  HSInv'
<1> USE DEF HSInv, heapVars, localVars, recordVars, hazardScanVars
<1>0. HPTypeOK /\ RecordsOwned /\ DomainLocals /\ HPTypeOK'
  BY DEF DInv
<1>1. /\ releasing' = releasing
      /\ head' = head /\ next' = next /\ data' = data /\ free' = free
      /\ new_node' = new_node /\ old_head' = old_head /\ nxt' = nxt /\ pc' = pc
      /\ slot' = slot /\ retired' = retired /\ tid' = tid /\ hazards' = hazards
      /\ hpc[t] = "scan_use" /\ idx[t] \in Ids
      /\ \A u \in Thread : u # t => hpc'[u] = hpc[u] /\ idx'[u] = idx[u]
      /\ \/ hpc'[t] = "scan_slot" /\ idx'[t] = idx[t]
         \/ hpc'[t] = "scan_use" /\ idx'[t] = idx[t] + 1 /\ ~in_use[idx[t]]
         \/ hpc'[t] = "sweep" /\ idx[t] = MaxThreads /\ ~in_use[idx[t]]
  BY <1>0 DEF ScanUse, NextRecord, DomainLocals, HPTypeOK
<1>2. HSTypeOK'
  BY <1>0, <1>1 DEF HSTypeOK
<1>3. Locals'
  BY <1>0, <1>1 DEF Locals, Scanning, HSTypeOK
<1>4. OneHolder'
  BY <1>0, <1>1 DEF OneHolder, Mine, HSTypeOK
<1>5. ListShape'
  <2>1. \A m : InStack(m)' <=> InStack(m)
    BY <1>0, <1>1 DEF InStack, Mine, HSTypeOK
  <2> QED
    BY <1>1, <2>1, ListUnmoved
<1>6. SlotHeld'
  BY <1>0, <1>1 DEF SlotHeld, HSTypeOK, HPTypeOK, Locals, RecordsOwned
<1>7. HeldSafe'
  BY <1>0, <1>1 DEF HeldSafe, ScanSees, HSTypeOK, Locals, RecordsOwned, HPTypeOK
<1> QED
  BY <1>2, <1>3, <1>4, <1>5, <1>6, <1>7

LEMMA ScanSlotKeeps ==
    ASSUME HSInv, DInv', NEW t \in Thread, ScanSlot(t), UNCHANGED <<head, heapVars, pc, localVars>>
    PROVE  HSInv'
<1> USE DEF HSInv, heapVars, localVars, recordVars, hazardScanVars
<1>0. HPTypeOK /\ RecordsOwned /\ DomainLocals /\ HPTypeOK'
  BY DEF DInv
<1>1. /\ releasing' = releasing
      /\ head' = head /\ next' = next /\ data' = data /\ free' = free
      /\ new_node' = new_node /\ old_head' = old_head /\ nxt' = nxt /\ pc' = pc
      /\ slot' = slot /\ retired' = retired /\ tid' = tid
      /\ hazards' = [hazards EXCEPT ![t] = @ \union ({slot[idx[t]]} \ {None})]
      /\ hpc[t] = "scan_slot" /\ idx[t] \in Ids
      /\ \A u \in Thread : u # t => hpc'[u] = hpc[u] /\ idx'[u] = idx[u]
      /\ \/ hpc'[t] = "scan_use" /\ idx'[t] = idx[t] + 1
         \/ hpc'[t] = "sweep" /\ idx[t] = MaxThreads
  BY <1>0 DEF ScanSlot, NextRecord, DomainLocals, HPTypeOK
<1>2. HSTypeOK'
  BY <1>0, <1>1 DEF HSTypeOK
<1>3. Locals'
  BY <1>0, <1>1 DEF Locals, Scanning, HSTypeOK
<1>4. OneHolder'
  BY <1>0, <1>1 DEF OneHolder, Mine, HSTypeOK
<1>5. ListShape'
  <2>1. \A m : InStack(m)' <=> InStack(m)
    BY <1>0, <1>1 DEF InStack, Mine, HSTypeOK
  <2> QED
    BY <1>1, <2>1, ListUnmoved
<1>6. SlotHeld'
  BY <1>0, <1>1 DEF SlotHeld, HSTypeOK, HPTypeOK, Locals, RecordsOwned
<1>7. HeldSafe'
  <2>1. ASSUME NEW u \in Thread, pc[u] \in {"pop_next", "pop_cas"}, old_head[u] \in retired[t]
        PROVE  ScanSees(t, tid[u], old_head[u])'
    <3>1. tid[u] \in Ids /\ old_head[u] # None /\ slot[tid[u]] = old_head[u]
      BY <1>0, <2>1, NoneIsNoNode DEF Locals, SlotHeld, HPTypeOK
    <3>2. tid[u] >= idx[t] \/ old_head[u] \in hazards[t]
      BY <1>1, <2>1 DEF HeldSafe, ScanSees
    <3>3. hazards'[t] = hazards[t] \union ({slot[idx[t]]} \ {None})
      BY <1>0, <1>1 DEF HPTypeOK
    <3>4. tid[u] = idx[t] => old_head[u] \in hazards'[t]
      BY <3>1, <3>3
    <3> QED
      BY <1>1, <3>1, <3>2, <3>3, <3>4 DEF ScanSees
  <2>2. ASSUME NEW u \in Thread, NEW w \in Thread, w # t, pc[u] \in {"pop_next", "pop_cas"},
               old_head[u] \in retired[w]
        PROVE  ScanSees(w, tid[u], old_head[u])'
    <3>1. hazards'[w] = hazards[w] /\ hpc'[w] = hpc[w] /\ idx'[w] = idx[w]
      BY <1>0, <1>1, <2>2 DEF HPTypeOK
    <3> QED
      BY <1>1, <2>2, <3>1 DEF HeldSafe, ScanSees
  <2> QED
    BY <1>1, <2>1, <2>2 DEF HeldSafe
<1> QED
  BY <1>2, <1>3, <1>4, <1>5, <1>6, <1>7

LEMMA SweepEndKeeps ==
    ASSUME HSInv, DInv', NEW t \in Thread, SweepEnd(t), UNCHANGED <<head, heapVars, pc, localVars>>
    PROVE  HSInv'
<1> USE DEF HSInv, heapVars, localVars, recordVars, hazardScanVars
<1>0. HPTypeOK /\ RecordsOwned /\ DomainLocals /\ HPTypeOK'
  BY DEF DInv
<1>1. /\ head' = head /\ next' = next /\ data' = data /\ free' = free
      /\ new_node' = new_node /\ old_head' = old_head /\ nxt' = nxt /\ pc' = pc
      /\ slot' = slot /\ retired' = retired /\ tid' = tid /\ idx' = idx
      /\ hazards' = [hazards EXCEPT ![t] = {}]
      /\ hpc[t] = "sweep" /\ releasing' = releasing
      /\ \/ hpc' = [hpc EXCEPT ![t] = "release_slots"] /\ releasing[t]
         \/ hpc' = [hpc EXCEPT ![t] = "out"] /\ ~releasing[t]
  BY <1>0 DEF SweepEnd, HPTypeOK
<1>2. HSTypeOK'
  BY <1>0, <1>1 DEF HSTypeOK
<1>3. Locals'
  BY <1>0, <1>1 DEF Locals, Scanning, HSTypeOK, HPTypeOK
<1>4. OneHolder'
  BY <1>0, <1>1 DEF OneHolder, Mine, HSTypeOK
<1>5. ListShape'
  <2>1. \A m : InStack(m)' <=> InStack(m)
    BY <1>0, <1>1 DEF InStack, Mine, HSTypeOK
  <2> QED
    BY <1>1, <2>1, ListUnmoved
<1>6. SlotHeld'
  BY <1>0, <1>1 DEF SlotHeld, HSTypeOK, HPTypeOK, Locals, RecordsOwned
<1>7. HeldSafe'
  BY <1>0, <1>1 DEF HeldSafe, ScanSees, HSTypeOK, Locals, RecordsOwned, HPTypeOK
<1> QED
  BY <1>2, <1>3, <1>4, <1>5, <1>6, <1>7

LEMMA PopRetireStep ==
    ASSUME HSInv, DInv', NEW t \in Thread, PopRetire(t) PROVE HSInv'
<1> USE DEF HSInv, heapVars, localVars, recordVars, hazardScanVars
<1>0. HPTypeOK /\ RecordsOwned /\ DomainLocals /\ HPTypeOK'
  BY DEF DInv
<1>1. /\ head' = head /\ next' = next /\ data' = data /\ free' = free
      /\ new_node' = new_node /\ old_head' = old_head /\ nxt' = nxt /\ calls' = calls
      /\ slot' = slot /\ tid' = tid /\ releasing' = releasing
      /\ hpc[t] = "out" /\ pc[t] = "pop_retire" /\ pc' = [pc EXCEPT ![t] = "return"]
      /\ retired' = [retired EXCEPT ![t] = @ \union {old_head[t]}]
      /\ \A u \in Thread : u # t =>
            hpc'[u] = hpc[u] /\ idx'[u] = idx[u] /\ hazards'[u] = hazards[u]
      /\ hpc'[t] = "out" \/ (hpc'[t] = "scan_use" /\ idx'[t] = 1)
      /\ result' = [result EXCEPT ![t] = data[old_head[t]]]
  BY <1>0 DEF PopRetire, Retire, BeginHazardScan, Goto, HPTypeOK
<1>2. old_head[t] \in Node /\ Mine(t, old_head[t]) /\ tid[t] # NoId
  BY <1>1 DEF Locals, Mine
<1>3. /\ \A u \in Thread : retired'[u] = IF u = t THEN retired[u] \union {old_head[t]} ELSE retired[u]
      /\ \A u \in Thread, n \in Node : Mine(u, n)' <=> Mine(u, n) /\ u # t
  <2>1. \A u \in Thread : retired'[u] = IF u = t THEN retired[u] \union {old_head[t]} ELSE retired[u]
    BY <1>0, <1>1 DEF HPTypeOK
  <2>2. \A u \in Thread, n \in Node : Mine(u, n)' <=> Mine(u, n) /\ u # t
    BY <1>1 DEF Mine, HSTypeOK
  <2> QED
    BY <2>1, <2>2
<1>4. HSTypeOK'
  BY <1>0, <1>1, <1>2 DEF HSTypeOK
<1>5. Locals'
  BY <1>0, <1>1 DEF Locals, Scanning, HSTypeOK
<1>6. OneHolder'
  BY <1>1, <1>2, <1>3 DEF OneHolder
<1>7. ListShape'
  <2>1. \A n \in Node : Mine(t, n) => n = old_head[t]
    BY <1>1 DEF Mine
  <2>2. \A m : InStack(m)' <=> InStack(m)
    BY <1>1, <1>2, <1>3, <2>1 DEF InStack
  <2> QED
    BY <1>1, <2>2, ListUnmoved
<1>8. SlotHeld'
  BY <1>1 DEF SlotHeld, HSTypeOK
<1>9. HeldSafe'
  <2>1. \A u \in Thread : pc'[u] \in {"pop_next", "pop_cas"} => u # t /\ pc[u] = pc'[u] /\ tid[u] \in Ids
    BY <1>0, <1>1 DEF HSTypeOK, HPTypeOK, Locals
  <2>2. ASSUME NEW u \in Thread, tid[u] \in Ids, old_head[u] \in retired'[t]
        PROVE  ScanSees(t, tid[u], old_head[u])'
    BY <1>1, <2>2 DEF ScanSees
  <2>3. ASSUME NEW u \in Thread, pc[u] \in {"pop_next", "pop_cas"}, NEW w \in Thread, w # t,
               old_head[u] \in retired'[w]
        PROVE  ScanSees(w, tid[u], old_head[u])'
    BY <1>1, <1>3, <2>3 DEF ScanSees, HeldSafe
  <2>4. \A u \in Thread : pc'[u] = "push_cas" => pc[u] = "push_cas"
    BY <1>1 DEF HSTypeOK
  <2> QED
    BY <1>1, <2>1, <2>2, <2>3, <2>4 DEF HeldSafe
<1> QED
  BY <1>4, <1>5, <1>6, <1>7, <1>8, <1>9

LEMMA DeleteKeeps ==
    ASSUME HSInv, DInv', NEW t \in Thread, NEW n \in Node, Sweep(t, n),
           free' = free \union {n}, UNCHANGED <<head, next, data, pc, localVars>>
    PROVE  HSInv'
<1> USE DEF HSInv, localVars, recordVars, hazardScanVars
<1>0. HPTypeOK /\ RecordsOwned /\ DomainLocals /\ HPTypeOK'
  BY DEF DInv
<1>1. /\ head' = head /\ next' = next /\ data' = data /\ pc' = pc
      /\ new_node' = new_node /\ old_head' = old_head /\ nxt' = nxt
      /\ slot' = slot /\ tid' = tid /\ releasing' = releasing /\ hpc' = hpc
      /\ idx' = idx /\ hazards' = hazards /\ calls' = calls /\ result' = result
      /\ hpc[t] = "sweep" /\ n \in retired[t] /\ n \notin hazards[t]
      /\ \A u \in Thread : retired'[u] = IF u = t THEN retired[u] \ {n} ELSE retired[u]
  BY <1>0 DEF Sweep, HPTypeOK
<1>2. \A u \in Thread : ~Mine(u, n) /\ (n \in retired[u] => u = t)
  BY <1>1 DEF OneHolder
<1>3. HSTypeOK'
  BY <1>0, <1>1 DEF HSTypeOK
<1>4. Locals'
  BY <1>1 DEF Locals, Scanning
<1>5. \A u \in Thread, m \in Node : Mine(u, m)' <=> Mine(u, m)
  BY <1>1 DEF Mine
<1>6. OneHolder'
  <2>a. \A m : m \in free' <=> m \in free \/ m = n
    OBVIOUS
  <2>b. \A u \in Thread : \A m \in retired'[u] : m \in retired[u] /\ m # n
    BY <1>1, <1>2
  <2>c. \A u \in Thread : \A m \in retired[u] : m \notin free
    BY DEF OneHolder
  <2>1. \A u \in Thread : free' \intersect retired'[u] = {}
    BY <2>a, <2>b, <2>c
  <2>2. \A u, w \in Thread : u # w => retired'[u] \intersect retired'[w] = {}
    <3>1. \A u, w \in Thread : u # w => retired[u] \intersect retired[w] = {}
      BY DEF OneHolder
    <3> QED
      BY <2>b, <3>1
  <2>3. ASSUME NEW u \in Thread, NEW m \in Node, Mine(u, m)
        PROVE  m \notin free' /\ \A w \in Thread : m \notin retired'[w] /\ (Mine(w, m) => w = u)
    <3>1. m \notin free /\ m # n /\ \A w \in Thread : m \notin retired[w] /\ (Mine(w, m) => w = u)
      BY <1>2, <2>3 DEF OneHolder
    <3> QED
      BY <2>a, <2>b, <3>1
  <2> QED
    BY <1>5, <2>1, <2>2, <2>3 DEF OneHolder
<1>7. ListShape'
  <2>1. \A m : InStack(m)' <=> InStack(m)
    BY <1>1, <1>2, <1>5 DEF InStack
  <2> QED
    BY <1>1, <2>1, ListUnmoved
<1>8. SlotHeld'
  BY <1>1 DEF SlotHeld
<1>9. HeldSafe'
  <2>1. ASSUME NEW u \in Thread, pc[u] \in {"pop_next", "pop_cas"} PROVE old_head[u] # n
    BY <1>1, <2>1 DEF HeldSafe, ScanSees
  <2>2. ASSUME NEW u \in Thread, pc[u] \in {"pop_next", "pop_cas"}, NEW w \in Thread,
               old_head[u] \in retired'[w]
        PROVE  ScanSees(w, tid[u], old_head[u])'
    BY <1>1, <2>2 DEF ScanSees, HeldSafe
  <2> QED
    BY <1>1, <2>1, <2>2 DEF HeldSafe
<1> QED
  BY <1>3, <1>4, <1>6, <1>7, <1>8, <1>9

LEMMA HSInvStep == HSInv /\ [HSNext]_hsVars => HSInv'
<1> SUFFICES ASSUME HSInv, [HSNext]_hsVars PROVE HSInv'
  OBVIOUS
<1>0. DInv'
  <2>1. HSTypeOK /\ Locals /\ OneHolder /\ DInv
    BY DEF HSInv
  <2> QED
    BY <2>1, StepsDomain, DInvStep
<1>1. ASSUME NEW t \in Thread, PopPublish(t) PROVE HSInv'
  <2>1. CASE Publish(t, old_head[t]) /\ pc' = [pc EXCEPT ![t] = "pop_validate"]
    BY <1>0, <1>1, <2>1, PublishKeeps DEF PopPublish
  <2>2. CASE (AcquireEnter(t) \/ AcquireTry(t)) /\ UNCHANGED pc
    BY <1>0, <1>1, <2>2, AcquireKeeps DEF PopPublish
  <2> QED
    BY <1>1, <2>1, <2>2 DEF PopPublish
<1>2. ASSUME NEW t \in Thread, PopRetry(t) \/ PopTake(t) PROVE HSInv'
  BY <1>0, <1>2, ClearKeeps DEF PopRetry, PopTake
<1>3. ASSUME NEW t \in Thread, Scan(t) PROVE HSInv'
  BY <1>0, <1>3, ScanUseKeeps, ScanSlotKeeps, SweepEndKeeps DEF Scan
<1>4. ASSUME NEW t \in Thread, Delete(t) PROVE HSInv'
  BY <1>0, <1>4, DeleteKeeps DEF Delete
<1>5. ASSUME NEW t \in Thread, Release(t) PROVE HSInv'
  BY <1>0, <1>5, ReleaseKeeps DEF Release
<1>6. CASE UNCHANGED hsVars
  BY <1>0, <1>6 DEF hsVars, heapVars, localVars, hpVars, recordVars, hazardScanVars, HSInv, DInv,
     HSTypeOK, Locals, Scanning, OneHolder, ListShape, InStack, Mine, SlotHeld, HeldSafe, ScanSees
<1>7. ASSUME NEW t \in Thread, PushStep(t) PROVE HSInv'
  BY <1>0, <1>7, PushAllocStep, PushCASStep, PushRetryStep DEF PushStep
<1>8. ASSUME NEW t \in Thread, PopStep(t) PROVE HSInv'
  BY <1>0, <1>1, <1>2, <1>8, PopCallStep, PopLoadStep, PopValidateStep, PopInvalidStep,
     PopNextStep, PopCASStep, PopFailStep, PopRetireStep DEF PopStep
<1>9. ASSUME NEW t \in Thread, DomainStep(t) PROVE HSInv'
  BY <1>0, <1>3, <1>4, <1>5, <1>9, ReleaseCallKeeps, ReturnKeeps DEF DomainStep
<1> QED
  BY <1>6, <1>7, <1>8, <1>9 DEF HSNext, Terminated

LEMMA HSInvCorrect == ASSUME FreshDomain PROVE HSSpec => []HSInv
<1>1. HSInit => HSInv
  BY FreshDomain, HSInvInit
<1> QED
  BY <1>1, HSInvStep, PTL DEF HSSpec

\* The variables of the stack and of its domain keep their types.
THEOREM HSTypeCorrect == ASSUME FreshDomain PROVE HSSpec => []HSTypeOK
<1>1. HSInv => HSTypeOK
  BY DEF HSInv
<1> QED
  BY <1>1, HSInvCorrect, FreshDomain, PTL

\* No pop() reads a node that a scan has deleted, whatever the scans and the
\* records that are given back and taken again meanwhile.
THEOREM NoUseAfterFreeCorrect == ASSUME FreshDomain PROVE HSSpec => []NoUseAfterFree
<1>1. HSInv => NoUseAfterFree
  BY DEF HSInv, NoUseAfterFree, HeldSafe, OneHolder, Mine, Locals
<1> QED
  BY <1>1, HSInvCorrect, FreshDomain, PTL

\* The exchange of pop() never installs a stale successor.
THEOREM NoABACorrect == ASSUME FreshDomain PROVE HSSpec => []NoABA
<1>1. HSInv => NoABA
  BY DEF HSInv, NoABA, HeldSafe
<1> QED
  BY <1>1, HSInvCorrect, FreshDomain, PTL

\* The stack uses its domain within the domain's own specification, so what is
\* proved of the domain under its most general client holds here too.
THEOREM ImplementsDomain == ASSUME FreshDomain PROVE HSSpec => HPSpec
<1>1. HSInit => HPInit
  BY DEF HSInit
<1>2. HSInv /\ [HSNext]_hsVars => [HPNext]_hpVars
  BY StepsDomain DEF HSInv
<1> QED
  BY <1>1, <1>2, FreshDomain, HSInvCorrect, PTL DEF HSSpec, HPSpec

-----------------------------------------------------------------------------
(* The stack as a list *)

StackList == IsList(Chain, head, next, Listed)

\* What the steps that neither link nor unlink a node leave alone.
Kept ==
    /\ head' = head
    /\ Listed' = Listed
    /\ \A n \in Listed : next'[n] = next[n] /\ data'[n] = data[n]

LEMMA StackMoves ==
    HSInv /\ [HSNext]_hsVars => Kept \/ \E t \in Thread : PushCAS(t) \/ PopCAS(t)
<1> SUFFICES ASSUME HSInv, [HSNext]_hsVars
             PROVE  Kept \/ \E t \in Thread : PushCAS(t) \/ PopCAS(t)
  OBVIOUS
<1>a. HSTypeOK /\ HPTypeOK
  BY DEF HSInv, HSTypeOK
<1>b. UNCHANGED hpVars => retired' = retired
  BY DEF hpVars
<1> USE DEF heapVars, localVars
<1>1. ASSUME NEW t \in Thread, NEW v \in Value, NEW n \in Node, PushAlloc(t, v, n)
      PROVE  Kept
  <2>1. retired' = retired
    BY <1>b, <1>1 DEF PushAlloc
  <2>2. \A m \in Node : InStack(m)' <=> InStack(m)
    BY <1>a, <1>1, <2>1 DEF PushAlloc, Call, HSTypeOK, InStack, Mine
  <2>3. \A m \in Node : InStack(m) => next'[m] = next[m] /\ data'[m] = data[m]
    BY <1>a, <1>1 DEF PushAlloc, HSTypeOK, InStack
  <2> QED
    BY <1>1, <2>2, <2>3 DEF Kept, Listed, PushAlloc
<1>2. ASSUME NEW t \in Thread, PushRetry(t) PROVE Kept
  <2>1. retired' = retired
    BY <1>b, <1>2 DEF PushRetry
  <2>2. \A m \in Node : InStack(m)' <=> InStack(m)
    BY <1>2, <2>1 DEF PushRetry, InStack, Mine
  <2>3. \A m \in Node : InStack(m) => next'[m] = next[m] /\ data'[m] = data[m]
    BY <1>a, <1>2 DEF PushRetry, HSTypeOK, InStack, Mine
  <2> QED
    BY <1>2, <2>2, <2>3 DEF Kept, Listed, PushRetry
<1>3. ASSUME NEW t \in Thread,
             \/ PopCall(t) \/ PopLoad(t) \/ PopPublish(t) \/ PopValidate(t) \/ PopInvalid(t)
             \/ PopNext(t) \/ PopFail(t) \/ PopRetry(t) \/ PopTake(t)
             \/ Scan(t) \/ ReleaseCall(t) \/ Release(t) \/ Return(t)
      PROVE  Kept
  <2>1. retired' = retired
    <3>1. CASE \/ PopCall(t) \/ PopLoad(t) \/ PopValidate(t) \/ PopInvalid(t) \/ PopNext(t)
               \/ PopFail(t) \/ Return(t)
      BY <1>b, <3>1 DEF PopCall, PopLoad, PopValidate, PopInvalid, PopNext, PopFail, Return
    <3>2. CASE PopPublish(t) \/ PopRetry(t) \/ PopTake(t)
      BY <3>2 DEF PopPublish, PopRetry, PopTake, Clear, Publish, AcquireEnter, AcquireTry,
                  AcquireWin, AcquireLose
    <3>3. CASE Scan(t) \/ ReleaseCall(t) \/ Release(t)
      BY <3>3 DEF Scan, ScanUse, ScanSlot, SweepEnd, ReleaseCall, ReleaseEnter, Release,
                  ReleaseSlots, ReleaseId
    <3> QED
      BY <1>3, <3>1, <3>2, <3>3
  <2>2. head' = head /\ next' = next /\ data' = data /\ free' = free
    BY <1>3 DEF PopCall, PopLoad, PopPublish, PopValidate, PopInvalid, PopNext, PopFail,
                PopRetry, PopTake, Scan, ReleaseCall, Release, Return
  <2>3. \A u \in Thread, m \in Node : Mine(u, m)' <=> Mine(u, m)
    BY <1>a, <1>3 DEF PopCall, PopLoad, PopPublish, PopValidate, PopInvalid, PopNext, PopFail,
                PopRetry, PopTake, Scan, ReleaseCall, Release, Return, Call, Goto, Mine, HSTypeOK
  <2>4. \A m \in Node : InStack(m)' <=> InStack(m)
    BY <2>1, <2>2, <2>3 DEF InStack
  <2> QED
    BY <2>2, <2>4 DEF Kept, Listed
<1>4. ASSUME NEW t \in Thread, PopRetire(t) PROVE Kept
  <2>1. old_head[t] \in Node
    BY <1>4 DEF PopRetire, Goto, HSInv, Locals
  <2>2. \A u \in Thread : retired'[u] = IF u = t THEN retired[u] \union {old_head[t]}
                                                ELSE retired[u]
    BY <1>a, <1>4 DEF PopRetire, Retire, HPTypeOK
  <2>3. Mine(t, old_head[t]) /\ \A m \in Node : Mine(t, m) => m = old_head[t]
    BY <1>4 DEF PopRetire, Goto, Mine
  <2>4. \A u \in Thread, m \in Node : Mine(u, m)' <=> Mine(u, m) /\ u # t
    BY <1>a, <1>4 DEF PopRetire, Goto, Mine, HSTypeOK
  <2>5. \A m \in Node : InStack(m)' <=> InStack(m)
    BY <1>4, <2>1, <2>2, <2>3, <2>4 DEF PopRetire, InStack
  <2> QED
    BY <1>4, <2>5 DEF Kept, Listed, PopRetire
<1>5. ASSUME NEW t \in Thread, NEW n \in Node, Sweep(t, n), free' = free \union {n},
             UNCHANGED <<head, next, data, pc, localVars>>
      PROVE  Kept
  <2>1. /\ n \in retired[t]
        /\ \A u \in Thread : retired'[u] = IF u = t THEN retired[u] \ {n} ELSE retired[u]
    BY <1>a, <1>5 DEF Sweep, HPTypeOK
  <2>2. \A m \in Node : InStack(m)' <=> InStack(m)
    BY <1>5, <2>1 DEF InStack, Mine
  <2> QED
    BY <1>5, <2>2 DEF Kept, Listed
<1>6. CASE UNCHANGED hsVars
  <2>1. retired' = retired
    BY <1>b, <1>6 DEF hsVars
  <2>2. \A m \in Node : InStack(m)' <=> InStack(m)
    BY <1>6, <2>1 DEF InStack, Mine, hsVars
  <2> QED
    BY <1>6, <2>2 DEF Kept, Listed, hsVars
<1> QED
  BY <1>1, <1>2, <1>3, <1>4, <1>5, <1>6
  DEF HSNext, PushStep, PopStep, DomainStep, Delete, Terminated

\* What the two exchanges do to the stack.
LEMMA PushMoves ==
    ASSUME HSInv, NEW t \in Thread, PushCAS(t)
    PROVE  /\ new_node[t] \in Node /\ new_node[t] \notin Listed
           /\ next[new_node[t]] = head /\ head' = new_node[t]
           /\ Listed' = Listed \union {new_node[t]}
           /\ next' = next /\ data' = data
<1> USE DEF heapVars, localVars
<1>1. /\ new_node[t] \in Node /\ next[new_node[t]] = head /\ head' = new_node[t]
      /\ next' = next /\ data' = data /\ free' = free /\ retired' = retired
  BY DEF PushCAS, Goto, HSInv, Locals, hpVars
<1>2. Mine(t, new_node[t])
  BY DEF PushCAS, Goto, Mine
<1>3. \A u \in Thread, m \in Node :
         Mine(u, m)' <=> Mine(u, m) /\ ~(u = t /\ m = new_node[t])
  BY DEF PushCAS, Goto, Mine, HSInv, HSTypeOK
<1>4. \A m \in Node : InStack(m)' <=> InStack(m) \/ m = new_node[t]
  BY <1>1, <1>2, <1>3 DEF InStack, HSInv, OneHolder
<1>5. ~InStack(new_node[t])
  BY <1>2 DEF InStack
<1> QED
  BY <1>1, <1>4, <1>5 DEF Listed

LEMMA PopMoves ==
    ASSUME HSInv, NEW t \in Thread, PopCAS(t)
    PROVE  /\ head \in Listed /\ old_head[t] = head /\ head' = next[head]
           /\ Listed' = Listed \ {head}
           /\ next' = next /\ data' = data
<1> USE DEF heapVars, localVars
<1>1. /\ InStack(head) /\ head = old_head[t] /\ head' = next[head]
      /\ next' = next /\ data' = data /\ free' = free /\ retired' = retired
  BY DEF PopCAS, Goto, HSInv, Locals, ListShape, HeldSafe, hpVars
<1>2. \A u \in Thread, m \in Node : Mine(u, m)' <=> Mine(u, m) \/ (u = t /\ m = head)
  BY <1>1 DEF PopCAS, Goto, Mine, HSInv, HSTypeOK
<1>3. \A m \in Node : InStack(m)' <=> InStack(m) /\ m # head
  BY <1>1, <1>2 DEF InStack
<1> QED
  BY <1>1, <1>3 DEF Listed, InStack

\* Every step keeps the chain, puts a node in front or takes off the first.
ChainMoves ==
    \/ Kept /\ Chain' = Chain
    \/ \E t \in Thread : PushCAS(t) /\ Chain' = <<new_node[t]>> \o Chain
    \/ \E t \in Thread :
          /\ PopCAS(t) /\ Len(Chain) > 0 /\ Chain[1] = head /\ Chain' = Tail(Chain)

LEMMA ChainStep ==
    HSInv /\ StackList /\ [HSNext]_hsVars => StackList' /\ ChainMoves
<1> SUFFICES ASSUME HSInv, StackList, [HSNext]_hsVars PROVE StackList' /\ ChainMoves
  OBVIOUS
<1>0. \A s : IsList(s, head', next', Listed') => s = Chain' /\ StackList'
  <2> TAKE s
  <2> HAVE IsList(s, head', next', Listed')
  <2>1. NodesFrom(head', next') = s
    BY WalkFindsList
  <2> QED
    BY <2>1 DEF StackList, Chain
<1>1. CASE Kept
  <2>1. IsList(Chain, head, next', Listed)
    BY <1>1, SameNodes DEF Kept, StackList
  <2> QED
    BY <1>0, <1>1, <2>1 DEF Kept, ChainMoves
<1>2. ASSUME NEW t \in Thread, PushCAS(t) PROVE StackList' /\ ChainMoves
  <2>1. PICK n \in Node :
           /\ n = new_node[t] /\ n \notin Listed /\ next[n] = head /\ head' = n
           /\ Listed' = Listed \union {n} /\ next' = next
    BY <1>2, PushMoves
  <2>2. IsList(<<n>> \o Chain, n, next, Listed \union {n})
    BY <2>1, ListPush DEF StackList
  <2>3. <<n>> \o Chain = Chain' /\ StackList'
    BY <1>0, <2>1, <2>2
  <2> QED
    BY <1>2, <2>1, <2>3 DEF ChainMoves
<1>3. ASSUME NEW t \in Thread, PopCAS(t) PROVE StackList' /\ ChainMoves
  <2>1. /\ head \in Listed /\ head' = next[head] /\ Listed' = Listed \ {head}
        /\ next' = next
    BY <1>3, PopMoves
  <2>2. head # None
    BY <2>1 DEF Listed
  <2>3. /\ Len(Chain) > 0 /\ head = Chain[1]
        /\ IsList(Tail(Chain), next[head], next, Listed \ {head})
    BY <2>2, ListTail DEF StackList
  <2> QED
    BY <1>0, <1>3, <2>1, <2>3 DEF ChainMoves
<1> QED
  BY <1>1, <1>2, <1>3, StackMoves

LEMMA StackListInit == HSInit => StackList
<1> SUFFICES ASSUME HSInit PROVE StackList
  OBVIOUS
<1>1. head = None /\ Listed = {}
  BY DEF HSInit, StackInit, Listed, InStack
<1>2. IsList(<< >>, head, next, Listed)
  BY <1>1 DEF IsList
<1> QED
  BY <1>2, WalkFindsList DEF StackList, Chain

LEMMA StackListCorrect == ASSUME FreshDomain PROVE HSSpec => [](HSInv /\ StackList)
<1>1. HSInit => StackList
  BY StackListInit
<1>2. HSInv /\ StackList /\ [HSNext]_hsVars => StackList'
  BY ChainStep
<1> QED
  BY <1>1, <1>2, FreshDomain, HSInvCorrect, PTL DEF HSSpec

-----------------------------------------------------------------------------
(* Every address has one owner *)

LEMMA DisjointUnion ==
    ASSUME NEW S, NEW T, IsFiniteSet(S), IsFiniteSet(T), S \intersect T = {}
    PROVE  IsFiniteSet(S \union T) /\ Cardinality(S \union T) = Cardinality(S) + Cardinality(T)
<1>1. Cardinality(S) \in Nat /\ Cardinality(T) \in Nat /\ Cardinality(S \intersect T) = 0
  BY FS_CardinalityType, FS_EmptySet
<1>2. /\ IsFiniteSet(S \union T)
      /\ Cardinality(S \union T)
            = Cardinality(S) + Cardinality(T) - Cardinality(S \intersect T)
  BY FS_Union
<1> QED
  BY <1>1, <1>2

LEMMA OwnersCounted == HSInv /\ StackList => OneOwner
<1> SUFFICES ASSUME HSInv, StackList PROVE OneOwner
  OBVIOUS
<1> DEFINE handed == {t \in Thread : InHand(t) # {}}
           lists == UNION {{<<t, n>> : n \in retired[t]} : t \in Thread}
           inHand == {n \in Node : \E t \in Thread : Mine(t, n)}
           inLists == {n \in Node : \E t \in Thread : n \in retired[t]}
<1>0. \A t \in Thread : retired[t] \subseteq Node
  BY DEF HSInv, HSTypeOK, HPTypeOK
<1>1. /\ free \in SUBSET Node /\ inLists \in SUBSET Node
      /\ inHand \in SUBSET Node /\ Listed \in SUBSET Node
  BY DEF HSInv, HSTypeOK, Listed
<1>2. /\ IsFiniteSet(free) /\ IsFiniteSet(inLists)
      /\ IsFiniteSet(inHand) /\ IsFiniteSet(Listed)
  BY <1>1, FiniteAddresses, FS_Subset
<1>3. \A t \in Thread : \A n : n \in InHand(t) <=> n \in Node /\ Mine(t, n)
  BY DEF InHand, Mine, HSInv, Locals
<1>4. Linked = Listed /\ Cardinality(Listed) = Len(Chain)
  BY ListCounts DEF StackList, Linked
<1>5. UNION {InHand(t) : t \in handed} = inHand
  <2>1. \A n : n \in UNION {InHand(t) : t \in handed}
                  <=> \E t \in Thread : n \in InHand(t)
    OBVIOUS
  <2> QED
    BY <1>3, <2>1
<1>6. Cardinality(handed) = Cardinality(inHand)
  <2> DEFINE holder == [n \in inHand |-> CHOOSE t \in Thread : Mine(t, n)]
  <2>1. \A n \in inHand : holder[n] \in Thread /\ Mine(holder[n], n)
    OBVIOUS
  <2>2. \A t \in handed : \E n \in inHand : Mine(t, n)
    BY <1>3
  <2>3. \A t \in Thread : \A m, n : Mine(t, m) /\ Mine(t, n) => m = n
    BY DEF Mine
  <2>4. \A n \in Node : \A t, u \in Thread : Mine(t, n) /\ Mine(u, n) => t = u
    BY DEF HSInv, OneHolder
  <2>5. \A n \in inHand : holder[n] \in handed
    BY <1>3, <2>1
  <2>6. \A m, n \in inHand : holder[m] = holder[n] => m = n
    BY <2>1, <2>3
  <2>7. \A t \in handed : \E n \in inHand : holder[n] = t
    BY <2>1, <2>2, <2>4
  <2>8. holder \in [inHand -> handed]
    BY <2>5
  <2> HIDE DEF holder, handed, inHand
  <2>9. holder \in Bijection(inHand, handed)
    BY <2>6, <2>7, <2>8 DEF Bijection, Injection, Surjection, IsInjective
  <2> QED
    BY <1>2, <2>9, FS_Bijection DEF ExistsBijection
<1>7. \A p : p \in lists <=> \E t \in Thread : \E n \in retired[t] : p = <<t, n>>
  OBVIOUS
<1>8. {p[2] : p \in lists} = inLists
  <2>1. \A n : n \in {p[2] : p \in lists} <=> \E p \in lists : n = p[2]
    OBVIOUS
  <2>2. ASSUME NEW p \in lists PROVE p[2] \in inLists
    <3>0. PICK t \in Thread : \E n \in retired[t] : p = <<t, n>>
      BY <1>7
    <3>1. PICK n \in retired[t] : p = <<t, n>>
      BY <3>0
    <3> QED
      BY <1>0, <3>1
  <2>3. ASSUME NEW n \in inLists PROVE \E p \in lists : n = p[2]
    <3>1. PICK t \in Thread : n \in retired[t]
      OBVIOUS
    <3>2. <<t, n>> \in lists /\ n = <<t, n>>[2]
      BY <3>1
    <3> QED
      BY <3>2
  <2> HIDE DEF lists, inLists
  <2> QED
    BY <2>1, <2>2, <2>3
<1>9. Cardinality(lists) = Cardinality(inLists)
  <2> DEFINE place == [n \in inLists |-> <<CHOOSE t \in Thread : n \in retired[t], n>>]
  <2>1. ASSUME NEW n \in inLists
        PROVE  place[n] \in lists /\ place[n][2] = n
    <3>1. PICK t : t = CHOOSE u \in Thread : n \in retired[u]
      OBVIOUS
    <3>2. t \in Thread /\ n \in retired[t]
      BY <3>1
    <3>3. place[n] = <<t, n>>
      BY <3>1
    <3> QED
      BY <1>7, <3>2, <3>3
  <2>2. ASSUME NEW p \in lists PROVE \E n \in inLists : place[n] = p
    <3>0. PICK t \in Thread : \E n \in retired[t] : p = <<t, n>>
      BY <1>7
    <3>1. PICK n \in retired[t] : p = <<t, n>>
      BY <3>0
    <3>2. n \in inLists /\ \A u \in Thread : n \in retired[u] => u = t
      BY <1>0, <3>1 DEF HSInv, OneHolder
    <3>3. (CHOOSE u \in Thread : n \in retired[u]) = t
      BY <3>1, <3>2
    <3> QED
      BY <3>1, <3>2, <3>3
  <2> HIDE DEF place, lists, inLists
  <2>3. place \in [inLists -> lists]
    <3>1. place = [n \in inLists |-> place[n]]
      BY DEF place
    <3> QED
      BY <2>1, <3>1
  <2>4. place \in Bijection(inLists, lists)
    BY <2>1, <2>2, <2>3 DEF Bijection, Injection, Surjection, IsInjective
  <2> QED
    BY <1>2, <2>4, FS_Bijection DEF ExistsBijection
<1>10. free \union Listed \union inLists \union inHand = Node
  BY <1>1 DEF Listed, InStack
<1>11. /\ free \intersect Listed = {}
       /\ (free \union Listed) \intersect inLists = {}
       /\ (free \union Listed \union inLists) \intersect inHand = {}
  BY DEF Listed, InStack, HSInv, OneHolder
<1>12. Cardinality(free) + Cardinality(Listed) + Cardinality(inLists)
          + Cardinality(inHand) = Cardinality(Node)
  <2> HIDE DEF inHand, inLists
  <2>1. /\ IsFiniteSet(free \union Listed)
        /\ Cardinality(free \union Listed) = Cardinality(free) + Cardinality(Listed)
    BY <1>2, <1>11, DisjointUnion
  <2>2. /\ IsFiniteSet(free \union Listed \union inLists)
        /\ Cardinality(free \union Listed \union inLists)
              = Cardinality(free \union Listed) + Cardinality(inLists)
    BY <1>2, <1>11, <2>1, DisjointUnion
  <2>3. Cardinality(free \union Listed \union inLists \union inHand)
              = Cardinality(free \union Listed \union inLists) + Cardinality(inHand)
    BY <1>2, <1>11, <2>2, DisjointUnion
  <2> QED
    BY <1>10, <2>1, <2>2, <2>3
<1> HIDE DEF handed, lists, inHand, inLists
<1> QED
  BY <1>4, <1>5, <1>6, <1>8, <1>9, <1>10, <1>12 DEF OneOwner, handed, lists

\* No address leaks and none has two owners, and the stack is never a circle,
\* for any number of threads, records, addresses and calls.
THEOREM HSConsistentCorrect == ASSUME FreshDomain PROVE HSSpec => []HSConsistent
<1>1. HSInv /\ StackList => HSConsistent
  BY OwnersCounted DEF HSInv, HSConsistent, NoABA, HeldSafe
<1> QED
  BY <1>1, FreshDomain, StackListCorrect, PTL

-----------------------------------------------------------------------------
(* The stack is linearizable *)

Stack == Values(Chain, data)

\* What pop() is to return: its payload is still to be read after the exchange.
Popped(t) == pc[t] \in {"pop_take", "pop_retire"}

Returned == [t \in Thread |-> IF Popped(t) THEN data[old_head[t]] ELSE result[t]]

\* The calls that are about to return keep their answer.
LEMMA ReturnedKept ==
    HSInv /\ [HSNext]_hsVars
        => \/ Returned' = Returned
           \/ \E t \in Thread : PopCAS(t)
           \/ \E t \in Thread : head = None /\ Returned' = [Returned EXCEPT ![t] = Empty]
<1> SUFFICES ASSUME HSInv, [HSNext]_hsVars
             PROVE  \/ Returned' = Returned
                    \/ \E t \in Thread : PopCAS(t)
                    \/ \E t \in Thread :
                          head = None /\ Returned' = [Returned EXCEPT ![t] = Empty]
  OBVIOUS
<1> USE DEF heapVars, localVars
<1>a. HSTypeOK
  BY DEF HSInv
<1>b. Returned' = [u \in Thread |-> Returned'[u]] /\ Returned = [u \in Thread |-> Returned[u]]
  BY DEF Returned
<1>1. ASSUME NEW t \in Thread, NEW v \in Value, NEW n \in Node, PushAlloc(t, v, n)
      PROVE  Returned' = Returned
  <2>1. \A u \in Thread : Popped(u)' <=> Popped(u)
    BY <1>a, <1>1 DEF PushAlloc, Call, HSTypeOK, Popped
  <2>2. \A u \in Thread : Popped(u) => old_head[u] \in Node /\ old_head[u] # n
    BY <1>1 DEF PushAlloc, HSInv, Locals, OneHolder, Mine, Popped
  <2>3. \A u \in Thread : Popped(u) => data'[old_head[u]] = data[old_head[u]]
    BY <1>a, <1>1, <2>2 DEF PushAlloc, HSTypeOK
  <2>4. \A u \in Thread : Returned'[u] = Returned[u]
    BY <1>1, <2>1, <2>3 DEF Returned, PushAlloc
  <2> QED
    BY <1>b, <2>4
<1>2. ASSUME NEW t \in Thread,
             \/ PushCAS(t) \/ PushRetry(t) \/ PopCall(t) \/ PopPublish(t) \/ PopValidate(t)
             \/ PopInvalid(t) \/ PopNext(t) \/ PopRetry(t) \/ PopTake(t)
             \/ Scan(t) \/ Delete(t) \/ ReleaseCall(t) \/ Release(t) \/ Return(t)
      PROVE  Returned' = Returned
  <2>1. \A u \in Thread : Popped(u)' <=> Popped(u)
    BY <1>a, <1>2 DEF PushCAS, PushRetry, PopCall, PopPublish, PopValidate, PopInvalid, PopNext,
          PopRetry, PopTake, Scan, Delete, ReleaseCall, Release, Return, Call, Goto, HSTypeOK,
          Popped
  <2>2. data' = data /\ old_head' = old_head /\ result' = result
    BY <1>2 DEF PushCAS, PushRetry, PopCall, PopPublish, PopValidate, PopInvalid, PopNext,
          PopRetry, PopTake, Scan, Delete, ReleaseCall, Release, Return
  <2>3. \A u \in Thread : Returned'[u] = Returned[u]
    BY <2>1, <2>2 DEF Returned
  <2> QED
    BY <1>b, <2>3
<1>3. ASSUME NEW t \in Thread, PopFail(t) PROVE Returned' = Returned
  <2>1. \A u \in Thread : (Popped(u)' <=> Popped(u)) /\ (Popped(u) => old_head'[u] = old_head[u])
    BY <1>a, <1>3 DEF PopFail, Goto, HSTypeOK, Popped
  <2>2. \A u \in Thread : Returned'[u] = Returned[u]
    BY <1>3, <2>1 DEF Returned, PopFail
  <2> QED
    BY <1>b, <2>2
<1>4. ASSUME NEW t \in Thread, PopLoad(t), head # None PROVE Returned' = Returned
  <2>1. \A u \in Thread : (Popped(u)' <=> Popped(u)) /\ (Popped(u) => old_head'[u] = old_head[u])
    BY <1>a, <1>4 DEF PopLoad, Goto, HSTypeOK, Popped
  <2>2. \A u \in Thread : Returned'[u] = Returned[u]
    BY <1>4, <2>1 DEF Returned, PopLoad
  <2> QED
    BY <1>b, <2>2
<1>5. ASSUME NEW t \in Thread, PopLoad(t), head = None
      PROVE  Returned' = [Returned EXCEPT ![t] = Empty]
  <2>1. \A u \in Thread :
           /\ Popped(u)' <=> Popped(u)
           /\ Popped(u) => u # t /\ old_head'[u] = old_head[u]
    BY <1>a, <1>5 DEF PopLoad, Goto, HSTypeOK, Popped
  <2>2. data' = data /\ result' = [result EXCEPT ![t] = Empty]
    BY <1>5 DEF PopLoad
  <2>3. \A u \in Thread : Returned'[u] = IF u = t THEN Empty ELSE Returned[u]
    BY <1>a, <2>1, <2>2 DEF Returned, HSTypeOK
  <2> QED
    BY <1>b, <2>3
<1>6. ASSUME NEW t \in Thread, PopRetire(t) PROVE Returned' = Returned
  <2>1. \A u \in Thread : u # t => (Popped(u)' <=> Popped(u)) /\ result'[u] = result[u]
    BY <1>a, <1>6 DEF PopRetire, Goto, HSTypeOK, Popped
  <2>2. Popped(t) /\ ~Popped(t)' /\ result'[t] = data[old_head[t]]
    BY <1>a, <1>6 DEF PopRetire, Goto, HSTypeOK, Popped
  <2>3. data' = data /\ old_head' = old_head
    BY <1>6 DEF PopRetire
  <2>4. \A u \in Thread : Returned'[u] = Returned[u]
    BY <2>1, <2>2, <2>3 DEF Returned
  <2> QED
    BY <1>b, <2>4
<1>7. CASE UNCHANGED hsVars
  BY <1>7 DEF Returned, Popped, hsVars
<1> QED
  BY <1>1, <1>2, <1>3, <1>4, <1>5, <1>6, <1>7
  DEF HSNext, PushStep, PopStep, DomainStep, Terminated

LEMMA StackSteps ==
    HSInv /\ StackList /\ [HSNext]_hsVars => [Abs!ASNext]_<<Stack, Returned>>
<1> SUFFICES ASSUME HSInv, StackList, [HSNext]_hsVars
             PROVE  [Abs!ASNext]_<<Stack, Returned>>
  OBVIOUS
<1>0. /\ Chain \in Seq(Node) /\ Len(Chain) \in Nat /\ data \in [Node -> Value]
      /\ \A i \in 1..Len(Chain) : Chain[i] \in Listed
      /\ head = None => Len(Chain) = 0
  BY DEF StackList, IsList, HSInv, HSTypeOK, Listed
<1>e. ASSUME head = None PROVE Stack = << >>
  <2>1. Chain = << >>
    BY <1>0, <1>e, EmptySeq
  <2> QED
    BY <2>1 DEF Stack, Values
<1> USE DEF Abs!ASNext, Abs!ASPopEmpty, Abs!ASPush, Abs!ASPop, Stack, Returned, Popped
<1>1. CASE Kept /\ Chain' = Chain
  <2>1. Stack' = Stack
    <3>1. \A i \in 1..Len(Chain) : data[Chain[i]] = data'[Chain[i]]
      BY <1>0, <1>1 DEF Kept
    <3>2. Values(Chain, data) = Values(Chain, data')
      BY <3>1, SameValues
    <3> QED
      BY <1>1, <3>2
  <2>2. CASE Returned' = Returned
    BY <2>1, <2>2
  <2>3. ASSUME NEW t \in Thread, head = None, Returned' = [Returned EXCEPT ![t] = Empty]
        PROVE  Abs!ASNext
    <3>1. Stack = << >>
      BY <1>e, <2>3
    <3>2. Abs!ASPopEmpty(t)
      BY <2>1, <2>3, <3>1
    <3> QED
      BY <3>2
  <2>4. ASSUME NEW t \in Thread, PopCAS(t) PROVE FALSE
    BY <1>1, <2>4, PopMoves DEF Kept, Listed
  <2> QED
    BY <2>2, <2>3, <2>4, ReturnedKept
<1>2. ASSUME NEW t \in Thread, PushCAS(t), Chain' = <<new_node[t]>> \o Chain
      PROVE  [Abs!ASNext]_<<Stack, Returned>>
  <2>1. new_node[t] \in Node /\ data' = data
    BY <1>2, PushMoves
  <2>2. Stack' = <<data[new_node[t]]>> \o Stack
    BY <1>0, <1>2, <2>1, ValuesPush
  <2>3. Returned' = Returned
    BY <1>2 DEF PushCAS, Goto, HSInv, HSTypeOK, heapVars, localVars
  <2>4. Abs!ASPush(data[new_node[t]]) /\ data[new_node[t]] \in Value
    BY <1>0, <2>1, <2>2, <2>3
  <2> QED
    BY <2>4
<1>3. ASSUME NEW t \in Thread, PopCAS(t), Len(Chain) > 0, Chain[1] = head,
             Chain' = Tail(Chain)
      PROVE  [Abs!ASNext]_<<Stack, Returned>>
  <2>1. old_head[t] = head /\ data' = data
    BY <1>3, PopMoves
  <2>2. Stack # << >> /\ Head(Stack) = data[head] /\ Stack' = Tail(Stack)
    <3>1. /\ Values(Chain, data) # << >> /\ Head(Values(Chain, data)) = data[Chain[1]]
          /\ Values(Tail(Chain), data) = Tail(Values(Chain, data))
      BY <1>0, <1>3, ValuesTail
    <3> QED
      BY <1>3, <2>1, <3>1
  <2>3. Returned' = [Returned EXCEPT ![t] = data[head]]
    <3>1. /\ pc'[t] = "pop_take" /\ \A u \in Thread : u # t => pc'[u] = pc[u]
          /\ old_head' = old_head /\ result' = result
      BY <1>3 DEF PopCAS, Goto, HSInv, HSTypeOK, localVars
    <3>2. \A u \in Thread : Returned'[u] = IF u = t THEN data[head] ELSE Returned[u]
      BY <2>1, <3>1
    <3>3. Returned' = [u \in Thread |-> Returned'[u]]
          /\ Returned = [u \in Thread |-> Returned[u]]
      OBVIOUS
    <3> QED
      BY <3>2, <3>3
  <2>4. Abs!ASPop(t)
    BY <2>2, <2>3
  <2> QED
    BY <2>4
<1> QED
  BY <1>1, <1>2, <1>3, ChainStep DEF ChainMoves

\* Every call of push() and pop() takes effect at one instant between its call
\* and its return, as on a stack that one thread uses, although pop() reads
\* its payload only after its hazard pointer is cleared.
THEOREM LinearizableCorrect == ASSUME FreshDomain PROVE HSSpec => Linearizable
<1>1. HSInit => Abs!ASInit
  <2> SUFFICES ASSUME HSInit PROVE Abs!ASInit
    OBVIOUS
  <2>1. head = None /\ StackList /\ Listed = {}
    BY StackListInit DEF HSInit, StackInit, Listed, InStack
  <2>2. Chain = << >>
    BY <2>1, EmptySeq DEF StackList, IsList
  <2>3. Stack = << >>
    BY <2>2 DEF Stack, Values
  <2>4. Returned = [t \in Thread |-> Empty]
    BY DEF HSInit, StackInit, Returned, Popped
  <2> QED
    BY <2>3, <2>4 DEF Abs!ASInit, Stack, Returned, Popped
<1>2. HSInv /\ StackList /\ [HSNext]_hsVars => [Abs!ASNext]_<<Stack, Returned>>
  BY StackSteps
<1> QED
  BY <1>1, <1>2, FreshDomain, StackListCorrect, PTL
  DEF HSSpec, Linearizable, Abs!ASSpec, Stack, Returned, Popped
=============================================================================
