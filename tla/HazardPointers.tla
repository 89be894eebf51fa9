---------------------------- MODULE HazardPointers ----------------------------
(***************************************************************************)
(* HazardPointerDomain of hazard_pointers_and_epoch_reclamation.cpp: a     *)
(* thread publishes the one pointer it is about to follow in its record's  *)
(* slot, keeps what it retires in a list of its own, and deletes from that *)
(* list what no record in use publishes.  The structures of the repository *)
(* publish in slot 0 only, so a record has one slot here.                  *)
(***************************************************************************)
EXTENDS LinkedNodes

CONSTANTS
    ReclaimThreshold,  \* RECLAIM_THRESHOLD: length of a list that is scanned (16)
    MaxThreads,    \* MAX_THREADS: records of the domain (32 in the code)
    OldId          \* each thread's my_thread_id_ when the domain is created:
                   \* NoId, or an id another domain gave it

NoId == 0
Ids == 1..MaxThreads

ASSUME ReclaimThresholdPositive == ReclaimThreshold \in Nat \ {0}
ASSUME MaxThreadsPositive == MaxThreads \in Nat \ {0}
ASSUME OldIdType == OldId \in [Thread -> Ids \union {NoId}]

VARIABLES
    in_use,      \* records_[i].in_use
    slot,        \* records_[i].slots[0]
    tid,         \* my_thread_id_
    retired,     \* my_retired_list_
    hpc,         \* where a thread is in the domain's functions
    idx,         \* the loop index over records_
    hazards,     \* active_hazards
    releasing    \* the scan in progress was called by release_thread_id()

recordVars == <<in_use, slot>>
hazardScanVars == <<idx, hazards>>
hpVars == <<recordVars, tid, retired, hpc, hazardScanVars, releasing>>

Pointer == Node \union {None}

HPTypeOK ==
    /\ in_use \in [Ids -> BOOLEAN]
    /\ slot \in [Ids -> Pointer]
    /\ tid \in [Thread -> Ids \union {NoId}]
    /\ retired \in [Thread -> SUBSET Node]
    /\ hpc \in [Thread -> {"out", "acquire", "exceeded", "scan_use", "scan_slot",
                           "sweep", "release_slots", "release_id"}]
    /\ idx \in [Thread -> 0..MaxThreads]
    /\ hazards \in [Thread -> SUBSET Node]
    /\ releasing \in [Thread -> BOOLEAN]

HPInit ==
    /\ in_use = [i \in Ids |-> FALSE]
    /\ slot = [i \in Ids |-> None]
    /\ tid = OldId
    /\ retired = [t \in Thread |-> {}]
    /\ hpc = [t \in Thread |-> "out"]
    /\ idx = [t \in Thread |-> 0]
    /\ hazards = [t \in Thread |-> {}]
    /\ releasing = [t \in Thread |-> FALSE]

-----------------------------------------------------------------------------
(* acquire_thread_id() and release_thread_id() *)

AcquireEnter(t) ==
    /\ hpc[t] = "out"
    /\ tid[t] = NoId
    /\ hpc' = [hpc EXCEPT ![t] = "acquire"]
    /\ idx' = [idx EXCEPT ![t] = 1]
    /\ UNCHANGED <<recordVars, tid, retired, hazards, releasing>>

\* One exchange of the search for a free record ...

\* Mutant: the record is taken whatever the exchange returned.
AcquireWinAlways(t) ==
    /\ hpc[t] = "acquire"
    /\ in_use' = [in_use EXCEPT ![idx[t]] = TRUE]
    /\ tid' = [tid EXCEPT ![t] = idx[t]]
    /\ hpc' = [hpc EXCEPT ![t] = "out"]
    /\ idx' = [idx EXCEPT ![t] = 0]
    /\ UNCHANGED <<slot, retired, hazards, releasing>>

\* ... takes the record,
AcquireWin(t) ==
    /\ hpc[t] = "acquire"
    /\ ~in_use[idx[t]]
    /\ in_use' = [in_use EXCEPT ![idx[t]] = TRUE]
    /\ tid' = [tid EXCEPT ![t] = idx[t]]
    /\ hpc' = [hpc EXCEPT ![t] = "out"]
    /\ idx' = [idx EXCEPT ![t] = 0]
    /\ UNCHANGED <<slot, retired, hazards, releasing>>

\* ... or goes on to the next one, and past the last one asserts false.
AcquireLose(t) ==
    /\ hpc[t] = "acquire"
    /\ in_use[idx[t]]
    /\ IF idx[t] < MaxThreads
         THEN /\ idx' = [idx EXCEPT ![t] = @ + 1]
              /\ UNCHANGED hpc
         ELSE /\ hpc' = [hpc EXCEPT ![t] = "exceeded"]
              /\ UNCHANGED idx
    /\ UNCHANGED <<recordVars, tid, retired, hazards, releasing>>

AcquireTry(t) == AcquireWin(t) \/ AcquireLose(t)

ReleaseSlots(t) ==
    /\ hpc[t] = "release_slots"
    /\ slot' = [slot EXCEPT ![tid[t]] = None]
    /\ hpc' = [hpc EXCEPT ![t] = "release_id"]
    /\ UNCHANGED <<in_use, tid, retired, hazardScanVars, releasing>>

ReleaseId(t) ==
    /\ hpc[t] = "release_id"
    /\ in_use' = [in_use EXCEPT ![tid[t]] = FALSE]
    /\ tid' = [tid EXCEPT ![t] = NoId]
    /\ releasing' = [releasing EXCEPT ![t] = FALSE]
    /\ hpc' = [hpc EXCEPT ![t] = "out"]
    /\ UNCHANGED <<slot, retired, hazardScanVars>>

-----------------------------------------------------------------------------
(* publish() and clear() *)

Publish(t, p) ==
    /\ hpc[t] = "out"
    /\ tid[t] # NoId
    /\ slot' = [slot EXCEPT ![tid[t]] = p]
    /\ UNCHANGED <<in_use, tid, retired, hpc, hazardScanVars, releasing>>

Clear(t) == Publish(t, None)

-----------------------------------------------------------------------------
(* retire() and scan_and_reclaim() *)

\* The entry of scan_and_reclaim(), which returns at once on an empty list.
BeginHazardScan(t, after) ==
    /\ idx' = [idx EXCEPT ![t] = 1]
    /\ hazards' = [hazards EXCEPT ![t] = {}]
    /\ hpc' = [hpc EXCEPT ![t] = IF retired'[t] = {} THEN after ELSE "scan_use"]

\* Mutant: only the call that reaches the threshold exactly scans.
RetireScansOnce(t, n) ==
    /\ hpc[t] = "out"
    /\ tid[t] # NoId
    /\ retired' = [retired EXCEPT ![t] = @ \union {n}]
    /\ IF Cardinality(retired'[t]) = ReclaimThreshold
         THEN BeginHazardScan(t, "out")
         ELSE UNCHANGED <<hazardScanVars, hpc>>
    /\ UNCHANGED <<recordVars, tid, releasing>>

Retire(t, n) ==
    /\ hpc[t] = "out"
    /\ tid[t] # NoId
    /\ retired' = [retired EXCEPT ![t] = @ \union {n}]
    /\ IF Cardinality(retired'[t]) >= ReclaimThreshold
         THEN BeginHazardScan(t, "out")
         ELSE UNCHANGED <<hazardScanVars, hpc>>
    /\ UNCHANGED <<recordVars, tid, releasing>>

ReleaseEnter(t) ==
    /\ hpc[t] = "out"
    /\ tid[t] # NoId
    /\ releasing' = [releasing EXCEPT ![t] = TRUE]
    /\ UNCHANGED <<recordVars, tid, retired>>
    /\ BeginHazardScan(t, "release_slots")

NextRecord(t) ==
    IF idx[t] < MaxThreads
      THEN /\ idx' = [idx EXCEPT ![t] = @ + 1]
           /\ hpc' = [hpc EXCEPT ![t] = "scan_use"]
      ELSE /\ idx' = [idx EXCEPT ![t] = 0]
           /\ hpc' = [hpc EXCEPT ![t] = "sweep"]

ScanUse(t) ==
    /\ hpc[t] = "scan_use"
    /\ IF in_use[idx[t]]
         THEN /\ hpc' = [hpc EXCEPT ![t] = "scan_slot"]
              /\ UNCHANGED idx
         ELSE NextRecord(t)
    /\ UNCHANGED <<recordVars, tid, retired, hazards, releasing>>

ScanSlot(t) ==
    /\ hpc[t] = "scan_slot"
    /\ hazards' = [hazards EXCEPT ![t] = @ \union ({slot[idx[t]]} \ {None})]
    /\ NextRecord(t)
    /\ UNCHANGED <<recordVars, tid, retired, releasing>>

\* The deletion of one entry that no hazard pointer protects.
Sweep(t, n) ==
    /\ hpc[t] = "sweep"
    /\ n \in retired[t] \ hazards[t]
    /\ retired' = [retired EXCEPT ![t] = @ \ {n}]
    /\ UNCHANGED <<recordVars, tid, hpc, hazardScanVars, releasing>>

SweepEnd(t) ==
    /\ hpc[t] = "sweep"
    /\ retired[t] \subseteq hazards[t]
    /\ hpc' = [hpc EXCEPT ![t] = IF releasing[t] THEN "release_slots" ELSE "out"]
    /\ hazards' = [hazards EXCEPT ![t] = {}]
    /\ UNCHANGED <<recordVars, tid, retired, idx, releasing>>

-----------------------------------------------------------------------------
(* The domain under its most general client: threads acquire records,      *)
(* publish, clear, retire and release in any order.                        *)

HPStep(t) ==
    \/ AcquireEnter(t) \/ AcquireTry(t)
    \/ ReleaseEnter(t) \/ ReleaseSlots(t) \/ ReleaseId(t)
    \/ ScanUse(t) \/ ScanSlot(t) \/ SweepEnd(t)
    \/ Clear(t)
    \/ \E n \in Node :
          \/ Publish(t, n)
          \/ (\A u \in Thread : n \notin retired[u]) /\ Retire(t, n)
          \/ Sweep(t, n)

HPNext == \E t \in Thread : HPStep(t)

HPSpec == HPInit /\ [][HPNext]_hpVars

-----------------------------------------------------------------------------
(* Properties of the domain *)

\* No more threads than records: no search for a free record comes back empty,
\* however the searches overlap with releases of records behind them.
RecordsSuffice == \A t \in Thread : hpc[t] # "exceeded"

\* Two threads never own the same record.
RecordsDistinct ==
    \A t, u \in Thread : (t # u /\ tid[t] # NoId) => tid[t] # tid[u]

\* Every thread that asks for a record gets one of its own.
RecordsAssigned == RecordsSuffice /\ RecordsDistinct

\* A thread's retired list stays within what one scan can leave protected (one
\* node for each record) and the node retired next, or within what may pile up
\* before a scan: stalled readers cost bounded memory.
BoundedGarbage ==
    \A t \in Thread :
        \/ Cardinality(retired[t]) <= ReclaimThreshold
        \/ Cardinality(retired[t]) <= MaxThreads + 1
=============================================================================
