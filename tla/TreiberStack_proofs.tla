------------------------- MODULE TreiberStack_proofs -------------------------
(***************************************************************************)
(* Proofs about EpochReclaimer and the TreiberStack over it, for any       *)
(* number of threads, addresses, epochs, values and calls.  First the      *)
(* reclaimer keeps the promise of GracePeriod.  Then, of the reclaimer     *)
(* using only that promise: pop() never touches a deleted node and never   *)
(* suffers from ABA, every address has one owner, and the stack is         *)
(* linearizable.                                                           *)
(*                                                                         *)
(* Two facts about the deployment are hypotheses of the theorems, and the  *)
(* runs with the other values show why: the threads pin epochs above 0,    *)
(* and no thread brings a record of an earlier reclaimer.                  *)
(***************************************************************************)
EXTENDS TreiberStack

SafeDeployment == StartEpoch > 0 /\ Stale = {}

-----------------------------------------------------------------------------
(* The inductive invariant *)

\* A record is on the list before its owner pins, and a thread that is
\* pinning is not yet active.
RecordsOnList ==
    \A t \in Thread :
        /\ active[t] \/ rpc[t] \in {"pin_store", "pin_activate"}
              => \E i \in 1..Len(thread_records) : thread_records[i] = t
        /\ rpc[t] \in {"pin_store", "pin_activate"} => ~active[t]

\* Every epoch a thread has read or recorded is one the reclaimer has had.
EpochsSeen ==
    /\ global_epoch > 0
    /\ \A t \in Thread :
        /\ rpc[t] = "pin_store" => reg[t] > 0 /\ reg[t] <= global_epoch
        /\ rpc[t] = "retire_lock" => reg[t] <= global_epoch
        /\ active[t] \/ rpc[t] = "pin_activate"
              => local_epoch[t] > 0 /\ local_epoch[t] <= global_epoch
        /\ active[t] => local_epoch[t] <= pinned_at[t] /\ pinned_at[t] <= global_epoch

\* A node is stamped with an epoch no older than the epoch of any thread
\* that was pinned when it was retired and still is.
RetiredAfterPins ==
    /\ \A n \in Node : \A t \in waits[n] : active[t]
    /\ \A u \in Thread : rpc[u] = "retire_lock" =>
          /\ arg[u] \in Node
          /\ \A t \in waits[arg[u]] : local_epoch[t] <= reg[u]
    /\ \A r \in retired_list : \A t \in waits[r.node] :
          local_epoch[t] <= r.retire_epoch

\* The lock holder is the one thread in a scan.
ScanLocked ==
    /\ \A t \in Thread : rpc[t] = "scan" <=> retire_mutex = t
    /\ cursor <= Len(thread_records)
    /\ retire_mutex # None => min_active > 0
    /\ looking => /\ any_active
                  /\ cursor > 0
                  /\ local_epoch[thread_records[cursor]] > 0

\* A thread the scan must take into account: a retired node waits for it, or
\* it was already active when the epoch last advanced.
MustCount(u) ==
    \/ \E r \in retired_list : u \in waits[r.node]
    \/ active[u] /\ pinned_at[u] < global_epoch

Counted(u) == any_active /\ min_active <= local_epoch[u]

\* The scan has taken into account whom it must among the records it passed.
ScanCovers ==
    retire_mutex # None =>
        \A i \in 1..Len(thread_records) :
            i > cursor /\ MustCount(thread_records[i]) => Counted(thread_records[i])

EpochHaltsAll ==
    \A t \in Thread : active[t] => global_epoch <= pinned_at[t] + 1

EInv ==
    /\ EBRTypeOK
    /\ RecordsOnList
    /\ EpochsSeen
    /\ RetiredAfterPins
    /\ ScanLocked
    /\ ScanCovers
    /\ GraceRespected
    /\ EpochHaltsAll

USE NoneIsNoNode, NoneIsNoThread, AdvanceThresholdPositive, StartEpochNat, StaleThreads

LEMMA EBRTypeInit == EBRInit => EBRTypeOK
<1> SUFFICES ASSUME EBRInit PROVE EBRTypeOK
  OBVIOUS
<1> USE DEF EBRInit
<1>1. thread_records \in Seq(Thread)
  OBVIOUS
<1>2. min_active \in Nat /\ cursor \in Nat /\ global_epoch \in Nat
  OBVIOUS
<1>3. retired_list \in SUBSET [node : Node, retire_epoch : Nat]
  OBVIOUS
<1>4. arg \in [Thread -> Node \union {None}] /\ retire_mutex \in Thread \union {None}
  OBVIOUS
<1>5. waits \in [Node -> SUBSET Thread] /\ to_free \in [Thread -> SUBSET Node]
  OBVIOUS
<1>6. local_epoch \in [Thread -> Nat] /\ reg \in [Thread -> Nat] /\ pinned_at \in [Thread -> Nat]
  OBVIOUS
<1>7. active \in [Thread -> BOOLEAN] /\ any_active \in BOOLEAN /\ looking \in BOOLEAN
  OBVIOUS
<1>8. rpc \in [Thread -> {"out", "pin_store", "pin_activate", "retire_lock", "scan", "free"}]
  OBVIOUS
<1> QED
  BY <1>1, <1>2, <1>3, <1>4, <1>5, <1>6, <1>7, <1>8 DEF EBRTypeOK

LEMMA EInvInit == SafeDeployment /\ EBRInit => EInv
<1> SUFFICES ASSUME SafeDeployment, EBRInit PROVE EInv
  OBVIOUS
<1> USE DEF EBRInit
<1>1. EBRTypeOK
  BY EBRTypeInit
<1>2. RecordsOnList /\ EpochsSeen
  BY DEF SafeDeployment, RecordsOnList, EpochsSeen
<1>3. RetiredAfterPins /\ GraceRespected /\ EpochHaltsAll
  BY DEF RetiredAfterPins, GraceRespected, EpochHaltsAll
<1>4. retire_mutex = None /\ cursor = 0 /\ Len(thread_records) = 0
  OBVIOUS
<1>5. ScanLocked
  BY <1>4 DEF ScanLocked
<1>6. ScanCovers
  BY <1>4 DEF ScanCovers
<1> QED
  BY <1>1, <1>2, <1>3, <1>5, <1>6 DEF EInv

LEMMA EInvStep == SafeDeployment /\ EInv /\ [EBRNext]_ebrVars => EInv'
<1> SUFFICES ASSUME SafeDeployment, EInv, [EBRNext]_ebrVars PROVE EInv'
  OBVIOUS
<1> USE DEF EInv, pinVars, scanVars, listVars, histVars
<1>0. /\ Len(thread_records) \in Nat
      /\ \A i \in 1..Len(thread_records) : thread_records[i] \in Thread
  BY DEF EBRTypeOK
<1>1. ASSUME NEW t \in Thread, Register(t) PROVE EInv'
  <2>1. EBRTypeOK'
    BY <1>1 DEF Register, EBRTypeOK
  <2>2. RecordsOnList'
    BY <1>1, <2>1 DEF Register, EBRTypeOK, RecordsOnList, Registered, SafeDeployment
  <2>3. EpochsSeen'
    BY <1>1, <2>1 DEF Register, EBRTypeOK, EpochsSeen, RecordsOnList, MayAdvance
  <2>4. RetiredAfterPins'
    BY <1>1, <2>1 DEF Register, EBRTypeOK, RetiredAfterPins, EpochsSeen, RecordsOnList, InReclaimer
  <2>5. ScanLocked'
    BY SMTT(30), <1>1, <2>1 DEF Register, EBRTypeOK, ScanLocked, EpochsSeen, RecordsOnList, SafeDeployment
  <2>6. ScanCovers'
    <3>1. \A u \in Thread : (MustCount(u)' <=> MustCount(u)) /\ (Counted(u)' <=> Counted(u))
      BY <1>1 DEF Register, MustCount, Counted
    <3>2. ~MustCount(t)
      <4>1. ~active[t] /\ (\A n \in Node : t \notin waits[n])
        BY <1>1 DEF Register, Registered, RecordsOnList, RetiredAfterPins
      <4> QED
        BY <4>1 DEF MustCount, EBRTypeOK
    <3>3. ASSUME NEW i \in 1..Len(thread_records')
          PROVE  thread_records'[i] = t
                   \/ (i \in 1..Len(thread_records) /\ thread_records'[i] = thread_records[i])
      <4>1. thread_records \in Seq(Thread) /\ thread_records' = Append(thread_records, t)
        BY <1>1 DEF Register, EBRTypeOK
      <4> QED
        BY <1>0, <4>1
    <3> QED
      BY <1>0, <1>1, <3>1, <3>2, <3>3 DEF Register, ScanCovers
  <2>7. GraceRespected'
    BY <1>1, <2>1 DEF Register, EBRTypeOK, GraceRespected, InReclaimer
  <2>8. EpochHaltsAll'
    BY <1>1, <2>1 DEF Register, EBRTypeOK, EpochHaltsAll, EpochsSeen
  <2> QED
    BY <2>1, <2>2, <2>3, <2>4, <2>5, <2>6, <2>7, <2>8
<1>2. ASSUME NEW t \in Thread, PinLoad(t) PROVE EInv'
  <2>1. EBRTypeOK'
    BY <1>2 DEF PinLoad, EBRTypeOK
  <2>2. RecordsOnList'
    BY SMTT(30), <1>2 DEF PinLoad, EBRTypeOK, RecordsOnList, Registered, SafeDeployment
  <2>3. EpochsSeen'
    BY <1>2, <2>1 DEF PinLoad, EBRTypeOK, EpochsSeen, RecordsOnList, MayAdvance
  <2>4. RetiredAfterPins'
    BY <1>2, <2>1 DEF PinLoad, EBRTypeOK, RetiredAfterPins, EpochsSeen, RecordsOnList, InReclaimer
  <2>5. ScanLocked'
    BY <1>2, <2>1 DEF PinLoad, EBRTypeOK, ScanLocked, EpochsSeen, RecordsOnList, SafeDeployment
  <2>6. ScanCovers'
    BY <1>2, <2>1 DEF PinLoad, EBRTypeOK, ScanCovers, ScanLocked, MustCount, Counted, RecordsOnList
  <2>7. GraceRespected'
    BY <1>2, <2>1 DEF PinLoad, EBRTypeOK, GraceRespected, InReclaimer
  <2>8. EpochHaltsAll'
    BY <1>2, <2>1 DEF PinLoad, EBRTypeOK, EpochHaltsAll, EpochsSeen
  <2> QED
    BY <2>1, <2>2, <2>3, <2>4, <2>5, <2>6, <2>7, <2>8
<1>3. ASSUME NEW t \in Thread, PinStore(t) PROVE EInv'
  <2>1. EBRTypeOK'
    BY <1>3 DEF PinStore, EBRTypeOK
  <2>2. RecordsOnList'
    BY <1>3, <2>1 DEF PinStore, EBRTypeOK, RecordsOnList, Registered, SafeDeployment
  <2>3. EpochsSeen'
    BY SMTT(30), <1>3, <2>1 DEF PinStore, EBRTypeOK, EpochsSeen, RecordsOnList, MayAdvance
  <2>4. RetiredAfterPins'
    <3>1. \A n \in Node : t \notin waits[n]
      BY <1>3 DEF PinStore, RecordsOnList, RetiredAfterPins
    <3> QED
      BY <1>3, <3>1 DEF PinStore, RetiredAfterPins, EBRTypeOK
  <2>5. ScanLocked'
    <3>1. /\ rpc' = [rpc EXCEPT ![t] = "pin_activate"] /\ rpc[t] = "pin_store"
          /\ UNCHANGED <<retire_mutex, cursor, thread_records, min_active, any_active,
                         looking>>
      BY <1>3 DEF PinStore, scanVars, listVars
    <3>2. \A u \in Thread : rpc'[u] = "scan" <=> rpc[u] = "scan"
      BY <3>1 DEF EBRTypeOK
    <3>3. \A u \in Thread : local_epoch[u] > 0 => local_epoch'[u] > 0
      BY <1>3 DEF PinStore, EBRTypeOK, EpochsSeen
    <3>4. looking => cursor \in 1..Len(thread_records)
      BY DEF ScanLocked, EBRTypeOK
    <3>5. looking => thread_records[cursor] \in Thread
      BY <3>4 DEF EBRTypeOK
    <3> QED
      BY <3>1, <3>2, <3>3, <3>5 DEF ScanLocked
  <2>6. ScanCovers'
    <3>1. \A u \in Thread : MustCount(u)' => MustCount(u)
      BY <1>3 DEF PinStore, EBRTypeOK, MustCount
    <3>2. \A u \in Thread : MustCount(u) /\ Counted(u) => Counted(u)'
      BY <1>3 DEF PinStore, EBRTypeOK, MustCount, Counted, RecordsOnList, RetiredAfterPins
    <3> QED
      BY <1>0, <1>3, <3>1, <3>2 DEF PinStore, ScanCovers
  <2>7. GraceRespected'
    BY <1>3, <2>1 DEF PinStore, EBRTypeOK, GraceRespected, InReclaimer
  <2>8. EpochHaltsAll'
    BY <1>3, <2>1 DEF PinStore, EBRTypeOK, EpochHaltsAll, EpochsSeen
  <2> QED
    BY <2>1, <2>2, <2>3, <2>4, <2>5, <2>6, <2>7, <2>8
<1>4. ASSUME NEW t \in Thread, PinActivate(t) PROVE EInv'
  <2>1. EBRTypeOK'
    BY <1>4 DEF PinActivate, EBRTypeOK
  <2>2. RecordsOnList'
    BY SMTT(30), <1>4, <2>1 DEF PinActivate, EBRTypeOK, RecordsOnList
  <2>3. EpochsSeen'
    BY <1>4, <2>1 DEF PinActivate, EBRTypeOK, EpochsSeen, RecordsOnList, MayAdvance
  <2>4. RetiredAfterPins'
    BY SMTT(30), <1>4, <2>1 DEF PinActivate, EBRTypeOK, RetiredAfterPins, EpochsSeen, RecordsOnList, InReclaimer
  <2>5. ScanLocked'
    BY <1>4, <2>1 DEF PinActivate, EBRTypeOK, ScanLocked, EpochsSeen, RecordsOnList, SafeDeployment
  <2>6. ScanCovers'
    <3>1. \A u \in Thread : MustCount(u)' => MustCount(u)
      BY <1>4 DEF PinActivate, EBRTypeOK, MustCount, EpochsSeen
    <3>2. \A u \in Thread : MustCount(u) /\ Counted(u) => Counted(u)'
      BY <1>4 DEF PinActivate, EBRTypeOK, MustCount, Counted
    <3> QED
      BY <1>0, <1>4, <3>1, <3>2 DEF PinActivate, ScanCovers
  <2>7. GraceRespected'
    BY <1>4, <2>1 DEF PinActivate, EBRTypeOK, GraceRespected, InReclaimer
  <2>8. EpochHaltsAll'
    BY <1>4, <2>1 DEF PinActivate, EBRTypeOK, EpochHaltsAll, EpochsSeen
  <2> QED
    BY <2>1, <2>2, <2>3, <2>4, <2>5, <2>6, <2>7, <2>8
<1>5. ASSUME NEW t \in Thread, Unpin(t) PROVE EInv'
  <2>1. EBRTypeOK'
    BY <1>5 DEF Unpin, EBRTypeOK
  <2>2. RecordsOnList'
    BY <1>5, <2>1 DEF Unpin, EBRTypeOK, RecordsOnList, Registered, SafeDeployment
  <2>3. EpochsSeen'
    BY <1>5, <2>1 DEF Unpin, EBRTypeOK, EpochsSeen, RecordsOnList, MayAdvance
  <2>4. RetiredAfterPins'
    BY <1>5, <2>1 DEF Unpin, EBRTypeOK, RetiredAfterPins, EpochsSeen, RecordsOnList, InReclaimer
  <2>5. ScanLocked'
    BY <1>5, <2>1 DEF Unpin, EBRTypeOK, ScanLocked, EpochsSeen, RecordsOnList, SafeDeployment
  <2>6. ScanCovers'
    <3>1. \A u \in Thread : MustCount(u)' => MustCount(u)
      BY <1>5 DEF Unpin, EBRTypeOK, MustCount
    <3>2. \A u \in Thread : MustCount(u) /\ Counted(u) => Counted(u)'
      BY <1>5 DEF Unpin, EBRTypeOK, MustCount, Counted
    <3> QED
      BY <1>0, <1>5, <3>1, <3>2 DEF Unpin, ScanCovers
  <2>7. GraceRespected'
    BY <1>5, <2>1 DEF Unpin, EBRTypeOK, GraceRespected, InReclaimer
  <2>8. EpochHaltsAll'
    BY <1>5, <2>1 DEF Unpin, EBRTypeOK, EpochHaltsAll, EpochsSeen
  <2> QED
    BY <2>1, <2>2, <2>3, <2>4, <2>5, <2>6, <2>7, <2>8
<1>6. ASSUME NEW t \in Thread, RetirePush(t) PROVE EInv'
  <2>1. EBRTypeOK'
    <3>1. [node |-> arg[t], retire_epoch |-> reg[t]]
               \in [node : Node, retire_epoch : Nat]
      BY <1>6 DEF RetirePush, EBRTypeOK, RetiredAfterPins
    <3>2. CASE BeginScan(t)
      BY <1>0, <1>6, <3>1, <3>2 DEF RetirePush, BeginScan, EBRTypeOK
    <3>3. CASE ~BeginScan(t)
      BY <1>0, <1>6, <3>1, <3>3 DEF RetirePush, EBRTypeOK
    <3> QED
      BY <3>2, <3>3
  <2>2. RecordsOnList'
    <3>1. UNCHANGED <<active, thread_records>>
      BY <1>6 DEF RetirePush, pinVars
    <3>2. rpc[t] = "retire_lock" /\ rpc' \in [Thread -> {"out", "pin_store",
             "pin_activate", "retire_lock", "scan", "free"}]
      BY <1>6, <2>1 DEF RetirePush, EBRTypeOK
    <3>3. rpc' = [rpc EXCEPT ![t] = "out"] \/ rpc' = [rpc EXCEPT ![t] = "scan"]
      BY <1>6 DEF RetirePush, BeginScan
    <3>4. \A u \in Thread : rpc'[u] \in {"pin_store", "pin_activate"}
                              => rpc[u] \in {"pin_store", "pin_activate"}
      BY <3>3 DEF EBRTypeOK
    <3> QED
      BY <3>1, <3>4 DEF RecordsOnList
  <2>3. EpochsSeen'
    BY <1>6, <2>1 DEF RetirePush, EBRTypeOK, BeginScan, EpochsSeen, RecordsOnList, MayAdvance
  <2>4. RetiredAfterPins'
    <3>1. \A u \in Thread : rpc'[u] = "retire_lock" => rpc[u] = "retire_lock"
      BY <1>6 DEF RetirePush, BeginScan, EBRTypeOK
    <3>2. ASSUME NEW r \in retired_list', NEW u \in waits'[r.node]
          PROVE  local_epoch'[u] <= r.retire_epoch
      BY <1>6, <3>2 DEF RetirePush, RetiredAfterPins, EBRTypeOK
    <3> QED
      BY <1>6, <3>1, <3>2 DEF RetirePush, RetiredAfterPins, EBRTypeOK
  <2>5. ScanLocked'
    <3>1. CASE BeginScan(t)
      <4>1. retire_mutex = None /\ retire_mutex' = t /\ t # None
        BY <1>6, <3>1 DEF RetirePush, BeginScan
      <4>2. \A u \in Thread : rpc'[u] = "scan" <=> u = t
        BY <1>6, <3>1, <4>1 DEF RetirePush, BeginScan, EBRTypeOK, ScanLocked
      <4>3. cursor' <= Len(thread_records') /\ min_active' > 0 /\ ~looking'
        BY <1>0, <1>6, <3>1 DEF RetirePush, BeginScan, EpochsSeen
      <4> QED
        BY <4>1, <4>2, <4>3 DEF ScanLocked
    <3>2. CASE ~BeginScan(t)
      BY <1>6, <2>1, <3>2 DEF RetirePush, EBRTypeOK, ScanLocked
    <3> QED
      BY <3>1, <3>2
  <2>6. ScanCovers'
    BY <1>6, <2>1 DEF RetirePush, EBRTypeOK, BeginScan, ScanCovers, ScanLocked, MustCount, Counted, RecordsOnList
  <2>7. GraceRespected'
    BY <1>6, <2>1 DEF RetirePush, EBRTypeOK, BeginScan, GraceRespected, InReclaimer
  <2>8. EpochHaltsAll'
    BY <1>6, <2>1 DEF RetirePush, EBRTypeOK, BeginScan, EpochHaltsAll, EpochsSeen
  <2> QED
    BY <2>1, <2>2, <2>3, <2>4, <2>5, <2>6, <2>7, <2>8
<1>7. ASSUME NEW t \in Thread, TryAdvance(t) PROVE EInv'
  <2>1. EBRTypeOK'
    BY <1>0, <1>7 DEF TryAdvance, BeginScan, EBRTypeOK
  <2>2. RecordsOnList'
    BY <1>7, <2>1 DEF TryAdvance, EBRTypeOK, BeginScan, RecordsOnList, Registered, SafeDeployment
  <2>3. EpochsSeen'
    BY <1>7, <2>1 DEF TryAdvance, EBRTypeOK, BeginScan, EpochsSeen, RecordsOnList, MayAdvance
  <2>4. RetiredAfterPins'
    BY <1>7, <2>1 DEF TryAdvance, EBRTypeOK, BeginScan, RetiredAfterPins, EpochsSeen, RecordsOnList, InReclaimer
  <2>5. ScanLocked'
    BY <1>7, <2>1 DEF TryAdvance, EBRTypeOK, BeginScan, ScanLocked, EpochsSeen, RecordsOnList, SafeDeployment
  <2>6. ScanCovers'
    BY <1>7, <2>1 DEF TryAdvance, EBRTypeOK, BeginScan, ScanCovers, ScanLocked, MustCount, Counted, RecordsOnList
  <2>7. GraceRespected'
    BY <1>7, <2>1 DEF TryAdvance, EBRTypeOK, BeginScan, GraceRespected, InReclaimer
  <2>8. EpochHaltsAll'
    BY <1>7, <2>1 DEF TryAdvance, EBRTypeOK, BeginScan, EpochHaltsAll, EpochsSeen
  <2> QED
    BY <2>1, <2>2, <2>3, <2>4, <2>5, <2>6, <2>7, <2>8
<1>8. ASSUME NEW t \in Thread, ScanActive(t) PROVE EInv'
  <2>1. EBRTypeOK'
    <3>1. CASE active[thread_records[cursor]]
      BY <1>8, <3>1 DEF ScanActive, EBRTypeOK
    <3>2. CASE ~active[thread_records[cursor]]
      <4>1. cursor' = cursor - 1 /\ cursor > 0
        BY <1>8, <3>2 DEF ScanActive
      <4>2. cursor' \in Nat
        BY <4>1 DEF EBRTypeOK
      <4> QED
        BY <1>8, <3>2, <4>2 DEF ScanActive, EBRTypeOK
    <3> QED
      BY <3>1, <3>2
  <2>2. RecordsOnList'
    BY <1>8, <2>1 DEF ScanActive, EBRTypeOK, RecordsOnList, Registered, SafeDeployment
  <2>3. EpochsSeen'
    BY <1>8, <2>1 DEF ScanActive, EBRTypeOK, EpochsSeen, RecordsOnList, MayAdvance
  <2>4. RetiredAfterPins'
    BY <1>8, <2>1 DEF ScanActive, EBRTypeOK, RetiredAfterPins, EpochsSeen, RecordsOnList, InReclaimer
  <2>5. ScanLocked'
    <3>1. thread_records[cursor] \in Thread
      BY <1>0, <1>8 DEF ScanActive, EBRTypeOK, ScanLocked
    <3>2. CASE active[thread_records[cursor]]
      BY <1>8, <3>1, <3>2 DEF ScanActive, ScanLocked, EpochsSeen
    <3>3. CASE ~active[thread_records[cursor]]
      BY SMTT(30), <1>0, <1>8, <3>3 DEF ScanActive, ScanLocked, EBRTypeOK
    <3> QED
      BY <3>2, <3>3
  <2>6. ScanCovers'
    <3>1. \A u \in Thread : MustCount(u)' => MustCount(u)
      BY <1>8 DEF ScanActive, EBRTypeOK, MustCount
    <3>2. \A u \in Thread : Counted(u) => Counted(u)'
      BY <1>8 DEF ScanActive, EBRTypeOK, Counted
    <3>3. ~active[thread_records[cursor]] => ~MustCount(thread_records[cursor])
      BY <1>0, <1>8 DEF ScanActive, ScanLocked, EBRTypeOK, MustCount, RetiredAfterPins
    <3>4. cursor' = cursor \/ (cursor' = cursor - 1 /\ ~active[thread_records[cursor]])
      BY <1>8 DEF ScanActive
    <3>5. retire_mutex # None /\ cursor \in Nat /\ thread_records' = thread_records
      BY <1>8 DEF ScanActive, EBRTypeOK
    <3> QED
      BY <1>0, <3>1, <3>2, <3>3, <3>4, <3>5 DEF ScanCovers
  <2>7. GraceRespected'
    BY <1>8, <2>1 DEF ScanActive, EBRTypeOK, GraceRespected, InReclaimer
  <2>8. EpochHaltsAll'
    BY <1>8, <2>1 DEF ScanActive, EBRTypeOK, EpochHaltsAll, EpochsSeen
  <2> QED
    BY <2>1, <2>2, <2>3, <2>4, <2>5, <2>6, <2>7, <2>8
<1>9. ASSUME NEW t \in Thread, ScanLocal(t) PROVE EInv'
  <2>1. EBRTypeOK'
    <3>1. thread_records[cursor] \in Thread
      BY <1>0, <1>9 DEF ScanLocal, EBRTypeOK, ScanLocked
    <3>2. min_active' \in Nat
      BY <1>9, <3>1 DEF ScanLocal, EBRTypeOK
    <3>3. cursor' \in Nat
      BY <1>9 DEF ScanLocal, EBRTypeOK
    <3> QED
      BY <1>9, <3>2, <3>3 DEF ScanLocal, EBRTypeOK
  <2>2. RecordsOnList'
    BY <1>9, <2>1 DEF ScanLocal, EBRTypeOK, RecordsOnList, Registered, SafeDeployment
  <2>3. EpochsSeen'
    BY <1>9, <2>1 DEF ScanLocal, EBRTypeOK, EpochsSeen, RecordsOnList, MayAdvance
  <2>4. RetiredAfterPins'
    BY <1>9, <2>1 DEF ScanLocal, EBRTypeOK, RetiredAfterPins, EpochsSeen, RecordsOnList, InReclaimer
  <2>5. ScanLocked'
    <3>1. min_active' > 0
      BY <1>9 DEF ScanLocal, ScanLocked
    <3>2. cursor' <= Len(thread_records')
      BY <1>0, <1>9 DEF ScanLocal, EBRTypeOK, ScanLocked
    <3> QED
      BY <1>9, <3>1, <3>2 DEF ScanLocal, ScanLocked
  <2>6. ScanCovers'
    <3>1. \A u \in Thread : MustCount(u)' => MustCount(u)
      BY <1>9 DEF ScanLocal, EBRTypeOK, MustCount
    <3>6. thread_records[cursor] \in Thread
      BY <1>0, <1>9 DEF ScanLocal, EBRTypeOK, ScanLocked
    <3>7. min_active' <= min_active /\ min_active' <= local_epoch[thread_records[cursor]]
      <4>1. local_epoch[thread_records[cursor]] \in Nat /\ min_active \in Nat
        BY <3>6 DEF EBRTypeOK
      <4> QED
        BY <1>9, <4>1 DEF ScanLocal
    <3>8. any_active /\ any_active' /\ local_epoch' = local_epoch
      BY <1>9 DEF ScanLocal, ScanLocked
    <3>2. \A u \in Thread : Counted(u) => Counted(u)'
      BY SMTT(30), <2>1, <3>7, <3>8 DEF EBRTypeOK, Counted
    <3>3. \A u \in Thread : u = thread_records[cursor] => Counted(u)'
      BY <3>7, <3>8 DEF Counted
    <3>4. retire_mutex # None /\ cursor \in Nat /\ cursor' = cursor - 1
            /\ thread_records' = thread_records
      BY <1>9 DEF ScanLocal, EBRTypeOK
    <3> SUFFICES ASSUME NEW i \in 1..Len(thread_records), i > cursor - 1,
                        MustCount(thread_records[i])
                 PROVE  Counted(thread_records[i])'
      BY <3>1, <3>4, <1>0 DEF ScanCovers
    <3> QED
      BY <1>0, <3>2, <3>3, <3>4 DEF ScanCovers
  <2>7. GraceRespected'
    BY <1>9, <2>1 DEF ScanLocal, EBRTypeOK, GraceRespected, InReclaimer
  <2>8. EpochHaltsAll'
    BY <1>9, <2>1 DEF ScanLocal, EBRTypeOK, EpochHaltsAll, EpochsSeen
  <2> QED
    BY <2>1, <2>2, <2>3, <2>4, <2>5, <2>6, <2>7, <2>8
<1>10. ASSUME NEW t \in Thread, ScanDecide(t) PROVE EInv'
  <2>1. EBRTypeOK'
    <3>1. global_epoch' \in Nat /\ retire_mutex' \in Thread \union {None}
      BY <1>10 DEF ScanDecide, EBRTypeOK
    <3>2. retired_list' \in SUBSET [node : Node, retire_epoch : Nat]
      BY <1>10 DEF ScanDecide, EBRTypeOK
    <3>3. \A r \in retired_list : r.node \in Node
      BY DEF EBRTypeOK
    <3>4. to_free' \in [Thread -> SUBSET Node]
      BY <1>10, <3>3 DEF ScanDecide, EBRTypeOK
    <3>5. rpc' \in [Thread -> {"out", "pin_store", "pin_activate", "retire_lock",
                               "scan", "free"}]
      BY <1>10 DEF ScanDecide, EBRTypeOK
    <3>6. UNCHANGED <<pinVars, scanVars, reg, arg, histVars>>
      BY <1>10 DEF ScanDecide
    <3> QED
      BY <3>1, <3>2, <3>4, <3>5, <3>6
      DEF pinVars, scanVars, histVars, EBRTypeOK
  <2>2. RecordsOnList'
    BY <1>10, <2>1 DEF ScanDecide, EBRTypeOK, RecordsOnList, Registered, SafeDeployment
  <2>3. EpochsSeen'
    BY <1>10, <2>1 DEF ScanDecide, EBRTypeOK, EpochsSeen, RecordsOnList, MayAdvance
  <2>4. RetiredAfterPins'
    BY <1>10, <2>1 DEF ScanDecide, EBRTypeOK, RetiredAfterPins, EpochsSeen, RecordsOnList, InReclaimer
  <2>5. ScanLocked'
    BY <1>10, <2>1 DEF ScanDecide, EBRTypeOK, ScanLocked, EpochsSeen, RecordsOnList, SafeDeployment
  <2>6. ScanCovers'
    BY <1>10, <2>1 DEF ScanDecide, EBRTypeOK, ScanCovers, ScanLocked, MustCount, Counted, RecordsOnList
  <2>7. GraceRespected'
    <3> SUFFICES ASSUME NEW r \in retired_list, NEW u \in waits[r.node],
                        r.retire_epoch <= SafeEpoch(global_epoch')
                 PROVE  FALSE
      <4>1. to_free' = [to_free EXCEPT ![t] =
                 {r.node : r \in {s \in retired_list :
                              ~(s.retire_epoch > SafeEpoch(global_epoch'))}}]
        BY <1>10 DEF ScanDecide
      <4>2. SafeEpoch(global_epoch') \in Nat
        BY <1>10, <2>1 DEF SafeEpoch, EBRTypeOK
      <4> QED
        BY <1>10, <4>1, <4>2 DEF ScanDecide, GraceRespected, EBRTypeOK
    <3>1. u \in Thread /\ active[u] /\ local_epoch[u] <= r.retire_epoch
      BY DEF RetiredAfterPins, EBRTypeOK
    <3>2. PICK i \in 1..Len(thread_records) : thread_records[i] = u
      BY <3>1 DEF RecordsOnList
    <3>3. Counted(u)
      <4>1. retire_mutex # None /\ cursor = 0 /\ MustCount(u)
        BY <1>10 DEF ScanDecide, MustCount
      <4> QED
        BY <3>2, <4>1 DEF ScanCovers
    <3>4. min_active > 0 /\ min_active \in Nat
      BY <1>10 DEF ScanDecide, ScanLocked, EBRTypeOK
    <3> QED
      BY <3>1, <3>3, <3>4 DEF SafeEpoch, Counted, EBRTypeOK
  <2>8. EpochHaltsAll'
    <3> SUFFICES ASSUME NEW u \in Thread, active[u], global_epoch > pinned_at[u]
                 PROVE  ~MayAdvance
      BY <1>10 DEF ScanDecide, EBRTypeOK, EpochsSeen, EpochHaltsAll
    <3>1. PICK i \in 1..Len(thread_records) : thread_records[i] = u
      BY DEF RecordsOnList
    <3>2. Counted(u)
      <4>1. retire_mutex # None /\ cursor = 0 /\ MustCount(u)
        BY <1>10 DEF ScanDecide, MustCount, EBRTypeOK
      <4> QED
        BY <3>1, <4>1 DEF ScanCovers
    <3>3. local_epoch[u] <= pinned_at[u]
      BY DEF EpochsSeen
    <3> QED
      BY <3>2, <3>3 DEF MayAdvance, Counted, EBRTypeOK
  <2> QED
    BY <2>1, <2>2, <2>3, <2>4, <2>5, <2>6, <2>7, <2>8
<1>11. ASSUME NEW t \in Thread, DrainAll(t) PROVE EInv'
  <2>1. EBRTypeOK'
    BY <1>11 DEF DrainAll, EBRTypeOK
  <2>2. RecordsOnList'
    BY SMTT(30), <1>11, <2>1 DEF DrainAll, EBRTypeOK, RecordsOnList, Registered, SafeDeployment
  <2>3. EpochsSeen'
    BY <1>11, <2>1 DEF DrainAll, EBRTypeOK, EpochsSeen, RecordsOnList, MayAdvance
  <2>4. RetiredAfterPins'
    BY <1>11, <2>1 DEF DrainAll, EBRTypeOK, RetiredAfterPins, EpochsSeen, RecordsOnList, InReclaimer
  <2>5. ScanLocked'
    BY <1>11, <2>1 DEF DrainAll, EBRTypeOK, ScanLocked, EpochsSeen, RecordsOnList, SafeDeployment
  <2>6. ScanCovers'
    BY <1>11, <2>1 DEF DrainAll, EBRTypeOK, ScanCovers, ScanLocked, MustCount, Counted, RecordsOnList
  <2>7. GraceRespected'
    BY <1>11, <2>1 DEF DrainAll, EBRTypeOK, GraceRespected, RetiredAfterPins
  <2>8. EpochHaltsAll'
    BY <1>11, <2>1 DEF DrainAll, EBRTypeOK, EpochHaltsAll, EpochsSeen
  <2> QED
    BY <2>1, <2>2, <2>3, <2>4, <2>5, <2>6, <2>7, <2>8
<1>12. ASSUME NEW t \in Thread, NEW n \in Node, RetireEnter(t, n) PROVE EInv'
  <2>1. EBRTypeOK'
    BY <1>12 DEF RetireEnter, EBRTypeOK
  <2>2. RecordsOnList'
    BY <1>12, <2>1 DEF RetireEnter, EBRTypeOK, RecordsOnList, Registered, SafeDeployment
  <2>3. EpochsSeen'
    BY <1>12, <2>1 DEF RetireEnter, EBRTypeOK, EpochsSeen, RecordsOnList, MayAdvance
  <2>4. RetiredAfterPins'
    BY <1>12, <2>1 DEF RetireEnter, EBRTypeOK, RetiredAfterPins, EpochsSeen, RecordsOnList, InReclaimer
  <2>5. ScanLocked'
    BY <1>12, <2>1 DEF RetireEnter, EBRTypeOK, ScanLocked, EpochsSeen, RecordsOnList, SafeDeployment
  <2>6. ScanCovers'
    <3>1. \A u \in Thread : MustCount(u)' => MustCount(u)
      BY <1>12 DEF RetireEnter, EBRTypeOK, MustCount, InReclaimer
    <3>2. \A u \in Thread : MustCount(u) /\ Counted(u) => Counted(u)'
      BY <1>12 DEF RetireEnter, EBRTypeOK, MustCount, Counted
    <3> QED
      BY <1>0, <1>12, <3>1, <3>2 DEF RetireEnter, ScanCovers
  <2>7. GraceRespected'
    BY SMTT(30), <1>12, <2>1 DEF RetireEnter, EBRTypeOK, GraceRespected, InReclaimer
  <2>8. EpochHaltsAll'
    BY <1>12, <2>1 DEF RetireEnter, EBRTypeOK, EpochHaltsAll, EpochsSeen
  <2> QED
    BY <2>1, <2>2, <2>3, <2>4, <2>5, <2>6, <2>7, <2>8
<1>13. ASSUME NEW t \in Thread, NEW n \in Node, FreeOne(t, n) PROVE EInv'
  <2>1. EBRTypeOK'
    BY <1>13 DEF FreeOne, EBRTypeOK
  <2>2. RecordsOnList'
    BY <1>13, <2>1 DEF FreeOne, EBRTypeOK, RecordsOnList, Registered, SafeDeployment
  <2>3. EpochsSeen'
    BY <1>13, <2>1 DEF FreeOne, EBRTypeOK, EpochsSeen, RecordsOnList, MayAdvance
  <2>4. RetiredAfterPins'
    BY <1>13, <2>1 DEF FreeOne, EBRTypeOK, RetiredAfterPins, EpochsSeen, RecordsOnList, InReclaimer
  <2>5. ScanLocked'
    BY <1>13, <2>1 DEF FreeOne, EBRTypeOK, ScanLocked, EpochsSeen, RecordsOnList, SafeDeployment
  <2>6. ScanCovers'
    BY <1>13, <2>1 DEF FreeOne, EBRTypeOK, ScanCovers, ScanLocked, MustCount, Counted, RecordsOnList
  <2>7. GraceRespected'
    BY <1>13, <2>1 DEF FreeOne, EBRTypeOK, GraceRespected, InReclaimer
  <2>8. EpochHaltsAll'
    BY <1>13, <2>1 DEF FreeOne, EBRTypeOK, EpochHaltsAll, EpochsSeen
  <2> QED
    BY <2>1, <2>2, <2>3, <2>4, <2>5, <2>6, <2>7, <2>8
<1>14. CASE UNCHANGED ebrVars
  <2>1. EBRTypeOK'
    BY <1>14 DEF ebrVars, EBRTypeOK
  <2>2. RecordsOnList'
    BY <1>14, <2>1 DEF ebrVars, EBRTypeOK, RecordsOnList, Registered, SafeDeployment
  <2>3. EpochsSeen'
    BY <1>14, <2>1 DEF ebrVars, EBRTypeOK, EpochsSeen, RecordsOnList, MayAdvance
  <2>4. RetiredAfterPins'
    BY <1>14, <2>1 DEF ebrVars, EBRTypeOK, RetiredAfterPins, EpochsSeen, RecordsOnList, InReclaimer
  <2>5. ScanLocked'
    BY <1>14, <2>1 DEF ebrVars, EBRTypeOK, ScanLocked, EpochsSeen, RecordsOnList, SafeDeployment
  <2>6. ScanCovers'
    BY <1>14, <2>1 DEF ebrVars, EBRTypeOK, ScanCovers, ScanLocked, MustCount, Counted, RecordsOnList
  <2>7. GraceRespected'
    BY <1>14, <2>1 DEF ebrVars, EBRTypeOK, GraceRespected, InReclaimer
  <2>8. EpochHaltsAll'
    BY <1>14, <2>1 DEF ebrVars, EBRTypeOK, EpochHaltsAll, EpochsSeen
  <2> QED
    BY <2>1, <2>2, <2>3, <2>4, <2>5, <2>6, <2>7, <2>8
<1> QED
  BY <1>1, <1>2, <1>3, <1>4, <1>5, <1>6, <1>7, <1>8, <1>9, <1>10, <1>11, <1>12, <1>13, <1>14 DEF EBRNext, EBRStep, PinStep, ScanStep

LEMMA EInvCorrect == ASSUME SafeDeployment PROVE EBRSpec => []EInv
<1>1. EBRInit => EInv
  BY SafeDeployment, EInvInit
<1>2. EInv /\ [EBRNext]_ebrVars => EInv'
  BY SafeDeployment, EInvStep
<1> QED
  BY <1>1, <1>2, PTL DEF EBRSpec

\* Every value the reclaimer's state takes has the type of its declaration.
THEOREM EBRTypeCorrect == 
    ASSUME SafeDeployment PROVE EBRSpec => []EBRTypeOK
BY SafeDeployment, EInvCorrect, PTL DEF EInv

\* try_advance_and_reclaim_locked() never selects a node that a thread pinned
\* at its retirement may still hold.
THEOREM GraceSafety == 
    ASSUME SafeDeployment PROVE EBRSpec => []GraceRespected
BY SafeDeployment, EInvCorrect, PTL DEF EInv

\* A pinned thread stops the global epoch after at most one more step.
THEOREM EpochHaltsCorrect ==
    ASSUME SafeDeployment PROVE EBRSpec => []EpochHalts
<1>1. EInv => EpochHalts
  BY DEF EInv, EpochHaltsAll, EpochHalts
<1> QED
  BY <1>1, SafeDeployment, EInvCorrect, PTL

-----------------------------------------------------------------------------
(* A retired node is in one place *)

\* The strengthening: a thread that is not freeing has nothing left to free.
Tidy == \A t \in Thread : rpc[t] # "free" => to_free[t] = {}

LEMMA SInvStep ==
    SafeDeployment /\ EInv /\ EInv' /\ SinglyRetired /\ Tidy /\ [EBRNext]_ebrVars
        => SinglyRetired' /\ Tidy'
<1> SUFFICES ASSUME SafeDeployment, EInv, EInv', SinglyRetired, Tidy,
                    [EBRNext]_ebrVars
             PROVE  SinglyRetired' /\ Tidy'
  OBVIOUS
<1> USE DEF pinVars, scanVars, listVars, histVars
<1>1. ASSUME NEW t \in Thread, Register(t)
      PROVE  SinglyRetired' /\ Tidy'
  BY <1>1 DEF Register, EInv, EBRTypeOK, SinglyRetired, Tidy
<1>2. ASSUME NEW t \in Thread, PinLoad(t)
      PROVE  SinglyRetired' /\ Tidy'
  BY <1>2 DEF PinLoad, EInv, EBRTypeOK, SinglyRetired, Tidy
<1>3. ASSUME NEW t \in Thread, PinStore(t)
      PROVE  SinglyRetired' /\ Tidy'
  BY <1>3 DEF PinStore, EInv, EBRTypeOK, SinglyRetired, Tidy
<1>4. ASSUME NEW t \in Thread, PinActivate(t)
      PROVE  SinglyRetired' /\ Tidy'
  BY <1>4 DEF PinActivate, EInv, EBRTypeOK, SinglyRetired, Tidy
<1>5. ASSUME NEW t \in Thread, Unpin(t)
      PROVE  SinglyRetired' /\ Tidy'
  BY <1>5 DEF Unpin, EInv, EBRTypeOK, SinglyRetired, Tidy
<1>6. ASSUME NEW t \in Thread, RetirePush(t)
      PROVE  SinglyRetired' /\ Tidy'
  <2>1. /\ to_free' = to_free /\ arg' = arg
        /\ rpc[t] = "retire_lock"
        /\ rpc'[t] \notin {"retire_lock", "free"}
        /\ \A u \in Thread : u # t => rpc'[u] = rpc[u]
        /\ \A r \in retired_list' : r \in retired_list \/ r.node = arg[t]
        /\ \A r \in retired_list' \ retired_list :
              r = [node |-> arg[t], retire_epoch |-> reg[t]]
    BY SMTT(30), <1>6 DEF RetirePush, BeginScan, EInv, EBRTypeOK
  <2> QED
    BY <2>1 DEF SinglyRetired, Tidy
<1>7. ASSUME NEW t \in Thread, TryAdvance(t)
      PROVE  SinglyRetired' /\ Tidy'
  BY <1>7 DEF TryAdvance, EInv, EBRTypeOK, SinglyRetired, Tidy, BeginScan
<1>8. ASSUME NEW t \in Thread, ScanActive(t)
      PROVE  SinglyRetired' /\ Tidy'
  BY <1>8 DEF ScanActive, EInv, EBRTypeOK, SinglyRetired, Tidy
<1>9. ASSUME NEW t \in Thread, ScanLocal(t)
      PROVE  SinglyRetired' /\ Tidy'
  BY <1>9 DEF ScanLocal, EInv, EBRTypeOK, SinglyRetired, Tidy
<1>10. ASSUME NEW t \in Thread, ScanDecide(t)
      PROVE  SinglyRetired' /\ Tidy'
  <2> DEFINE kept == {r \in retired_list : r.retire_epoch > SafeEpoch(global_epoch')}
             freed == {r.node : r \in retired_list \ kept}
  <2>1. retired_list' = kept /\ arg' = arg
    BY <1>10 DEF ScanDecide
  <2>2. /\ to_free'[t] = freed
        /\ \A u \in Thread : u # t => to_free'[u] = to_free[u] /\ rpc'[u] = rpc[u]
        /\ rpc'[t] # "retire_lock"
        /\ rpc'[t] # "free" => freed = {}
    BY <1>10 DEF ScanDecide, EInv, EBRTypeOK
  <2>3. \A n \in freed : \E r \in retired_list : r.node = n /\ r \notin kept
    OBVIOUS
  <2> HIDE DEF freed
  <2>4. Tidy'
    BY <2>2 DEF Tidy
  <2>5. ASSUME NEW u \in Thread, u # t PROVE to_free'[u] \intersect freed = {}
    BY <2>2, <2>3, <2>5 DEF SinglyRetired
  <2>6. ASSUME NEW u \in Thread, rpc'[u] = "retire_lock" PROVE arg'[u] \notin freed
    BY <2>1, <2>2, <2>3, <2>6 DEF SinglyRetired
  <2>7. \A r \in kept : r.node \notin freed
    BY <2>3 DEF SinglyRetired
  <2> QED
    BY <2>1, <2>2, <2>4, <2>5, <2>6, <2>7 DEF SinglyRetired
<1>11. ASSUME NEW t \in Thread, DrainAll(t)
      PROVE  SinglyRetired' /\ Tidy'
  BY SMTT(30), <1>11 DEF DrainAll, EInv, EBRTypeOK, SinglyRetired, Tidy
<1>12. ASSUME NEW t \in Thread, NEW n \in Node, RetireEnter(t, n)
      PROVE  SinglyRetired' /\ Tidy'
  BY SMTT(30), <1>12 DEF RetireEnter, EInv, EBRTypeOK, SinglyRetired, Tidy, InReclaimer
<1>13. ASSUME NEW t \in Thread, NEW n \in Node, FreeOne(t, n)
      PROVE  SinglyRetired' /\ Tidy'
  BY <1>13 DEF FreeOne, EInv, EBRTypeOK, SinglyRetired, Tidy
<1>14. CASE UNCHANGED ebrVars
  BY <1>14 DEF ebrVars, EInv, EBRTypeOK, SinglyRetired, Tidy
<1> QED
  BY <1>1, <1>2, <1>3, <1>4, <1>5, <1>6, <1>7, <1>8, <1>9, <1>10, <1>11, <1>12, <1>13, <1>14 DEF EBRNext, EBRStep, PinStep, ScanStep

\* No node is retired twice over: its deleter runs once.
THEOREM SinglyRetiredCorrect ==
    ASSUME SafeDeployment PROVE EBRSpec => []SinglyRetired
<1>1. EBRInit => SinglyRetired /\ Tidy
  BY DEF EBRInit, SinglyRetired, Tidy
<1>2. EInv /\ EInv' /\ SinglyRetired /\ Tidy /\ [EBRNext]_ebrVars
        => SinglyRetired' /\ Tidy'
  BY SafeDeployment, SInvStep
<1> QED
  BY <1>1, <1>2, SafeDeployment, EInvCorrect, PTL DEF EBRSpec

-----------------------------------------------------------------------------
(* The reclaimer implements GracePeriod *)

Pinned == {t \in Thread : active[t]}

\* What each step is to GracePeriod.
Quiet(t) ==
    \/ Register(t) \/ PinLoad(t) \/ PinStore(t)
    \/ RetirePush(t) \/ TryAdvance(t) \/ ScanStep(t) \/ DrainAll(t)

LEMMA QuietSteps ==
    ASSUME EBRTypeOK, Tidy, NEW t \in Thread, Quiet(t)
    PROVE  UNCHANGED <<Pinned, InReclaimer, waits>>
<1> DEFINE Stutter == UNCHANGED <<Pinned, InReclaimer, waits>>
<1> USE DEF pinVars, scanVars, listVars, histVars
<1>1. CASE Register(t)
  <2>1. Pinned' = Pinned /\ waits' = waits
    BY <1>1 DEF Register, Pinned
  <2>2. \A n : n \in InReclaimer' <=> n \in InReclaimer
    BY <1>1 DEF Register, InReclaimer, EBRTypeOK, Tidy
  <2> QED
    BY <2>1, <2>2
<1>2. CASE PinLoad(t)
  <2>1. Pinned' = Pinned /\ waits' = waits
    BY <1>2 DEF PinLoad, Pinned
  <2>2. \A n : n \in InReclaimer' <=> n \in InReclaimer
    BY <1>2 DEF PinLoad, InReclaimer, EBRTypeOK, Tidy
  <2> QED
    BY <2>1, <2>2
<1>3. CASE PinStore(t)
  <2>1. Pinned' = Pinned /\ waits' = waits
    BY <1>3 DEF PinStore, Pinned
  <2>2. \A n : n \in InReclaimer' <=> n \in InReclaimer
    BY <1>3 DEF PinStore, InReclaimer, EBRTypeOK, Tidy
  <2> QED
    BY <2>1, <2>2
<1>4. CASE RetirePush(t)
  <2>1. Pinned' = Pinned /\ waits' = waits
    BY <1>4 DEF RetirePush, Pinned, BeginScan
  <2>2. \A n : n \in InReclaimer' <=> n \in InReclaimer
    <3>1. /\ to_free' = to_free /\ arg' = arg /\ rpc[t] = "retire_lock"
          /\ rpc'[t] # "retire_lock"
          /\ \A u \in Thread : u # t => rpc'[u] = rpc[u]
      BY <1>4 DEF RetirePush, BeginScan, EBRTypeOK
    <3>2. PICK e : e.node = arg[t] /\ retired_list' = retired_list \union {e}
      BY <1>4 DEF RetirePush
    <3> QED
      BY <3>1, <3>2 DEF InReclaimer
  <2> QED
    BY <2>1, <2>2
<1>5. CASE TryAdvance(t)
  <2>1. Pinned' = Pinned /\ waits' = waits
    BY <1>5 DEF TryAdvance, Pinned, BeginScan
  <2>2. \A n : n \in InReclaimer' <=> n \in InReclaimer
    BY <1>5 DEF TryAdvance, InReclaimer, EBRTypeOK, Tidy, BeginScan
  <2> QED
    BY <2>1, <2>2
<1>6. CASE ScanActive(t)
  <2>1. Pinned' = Pinned /\ waits' = waits
    BY <1>6 DEF ScanActive, Pinned
  <2>2. \A n : n \in InReclaimer' <=> n \in InReclaimer
    BY <1>6 DEF ScanActive, InReclaimer, EBRTypeOK, Tidy
  <2> QED
    BY <2>1, <2>2
<1>7. CASE ScanLocal(t)
  <2>1. Pinned' = Pinned /\ waits' = waits
    BY <1>7 DEF ScanLocal, Pinned
  <2>2. \A n : n \in InReclaimer' <=> n \in InReclaimer
    BY <1>7 DEF ScanLocal, InReclaimer, EBRTypeOK, Tidy
  <2> QED
    BY <2>1, <2>2
<1>8. CASE ScanDecide(t)
  <2>1. Pinned' = Pinned /\ waits' = waits
    BY <1>8 DEF ScanDecide, Pinned
  <2>2. \A n : n \in InReclaimer' <=> n \in InReclaimer
    <3> DEFINE kept == {r \in retired_list : r.retire_epoch > SafeEpoch(global_epoch')}
               freed == {r.node : r \in retired_list \ kept}
    <3>1. /\ retired_list' = kept /\ arg' = arg
          /\ \A u \in Thread : rpc'[u] = "retire_lock" <=> rpc[u] = "retire_lock"
          /\ to_free'[t] = freed /\ to_free[t] = {}
          /\ \A u \in Thread : u # t => to_free'[u] = to_free[u]
      BY <1>8 DEF ScanDecide, EBRTypeOK, Tidy
    <3>2. {r.node : r \in retired_list} = {r.node : r \in kept} \union freed
      OBVIOUS
    <3> HIDE DEF freed, kept
    <3> QED
      BY <3>1, <3>2 DEF InReclaimer
  <2> QED
    BY <2>1, <2>2
<1>9. CASE DrainAll(t)
  <2>1. Pinned' = Pinned /\ waits' = waits
    BY <1>9 DEF DrainAll, Pinned
  <2>2. \A n : n \in InReclaimer' <=> n \in InReclaimer
    <3>1. /\ retired_list' = {} /\ arg' = arg
          /\ \A u \in Thread : rpc'[u] # "retire_lock" /\ rpc[u] # "retire_lock"
          /\ to_free'[t] = {r.node : r \in retired_list} /\ to_free[t] = {}
          /\ \A u \in Thread : u # t => to_free'[u] = to_free[u]
      BY <1>9 DEF DrainAll, EBRTypeOK, Tidy
    <3> QED
      BY <3>1 DEF InReclaimer
  <2> QED
    BY <2>1, <2>2
<1> QED
  BY <1>1, <1>2, <1>3, <1>4, <1>5, <1>6, <1>7, <1>8, <1>9 DEF Quiet, ScanStep

LEMMA PinStepGP ==
    ASSUME EBRTypeOK, RecordsOnList, NEW t \in Thread, PinActivate(t)
    PROVE  GP!GPPin(t)
<1> USE DEF scanVars, listVars
<1>1. Pinned' = Pinned \union {t} /\ t \notin Pinned /\ waits' = waits
  BY SMTT(30) DEF PinActivate, Pinned, EBRTypeOK, RecordsOnList
<1>2. InReclaimer' = InReclaimer
  BY DEF PinActivate, InReclaimer, EBRTypeOK
<1> QED
  BY <1>1, <1>2 DEF GP!GPPin, Pinned

LEMMA UnpinGP ==
    ASSUME EBRTypeOK, NEW t \in Thread, Unpin(t)
    PROVE  GP!GPUnpin(t)
BY DEF Unpin, GP!GPUnpin, InReclaimer, EBRTypeOK, scanVars, listVars

LEMMA RetireGP ==
    ASSUME EBRTypeOK, NEW t \in Thread, NEW n \in Node, RetireEnter(t, n)
    PROVE  GP!GPRetire(n)
<1> USE DEF pinVars, scanVars, listVars
<1>1. \A m : m \in InReclaimer' <=> m \in InReclaimer \/ m = n
  BY DEF RetireEnter, InReclaimer, EBRTypeOK
<1> QED
  BY <1>1 DEF RetireEnter, GP!GPRetire, Pinned

LEMMA FreeGP ==
    ASSUME EBRTypeOK, GraceRespected, SinglyRetired,
           NEW t \in Thread, NEW n \in Node, FreeOne(t, n)
    PROVE  GP!GPReclaim(n)
<1> USE DEF pinVars, scanVars, listVars, histVars
<1>1. n \in InReclaimer /\ waits[n] = {}
  BY DEF FreeOne, InReclaimer, GraceRespected
<1>2. \A m : m \in InReclaimer' <=> m \in InReclaimer /\ m # n
  BY DEF FreeOne, InReclaimer, EBRTypeOK, SinglyRetired
<1> QED
  BY <1>1, <1>2 DEF FreeOne, GP!GPReclaim

LEMMA GracePeriodStep ==
    EInv /\ SinglyRetired /\ Tidy /\ [EBRNext]_ebrVars
        => [GP!GPNext]_<<Pinned, InReclaimer, waits>>
<1> SUFFICES ASSUME EInv, SinglyRetired, Tidy, [EBRNext]_ebrVars
             PROVE  [GP!GPNext]_<<Pinned, InReclaimer, waits>>
  OBVIOUS
<1> USE DEF EInv
<1>1. ASSUME NEW t \in Thread, Quiet(t)
      PROVE  UNCHANGED <<Pinned, InReclaimer, waits>>
  BY <1>1, QuietSteps
<1>2. ASSUME NEW t \in Thread, PinActivate(t) PROVE GP!GPNext
  BY <1>2, PinStepGP DEF GP!GPNext
<1>3. ASSUME NEW t \in Thread, Unpin(t) PROVE GP!GPNext
  BY <1>3, UnpinGP DEF GP!GPNext
<1>4. ASSUME NEW t \in Thread, NEW n \in Node, RetireEnter(t, n) PROVE GP!GPNext
  BY <1>4, RetireGP DEF GP!GPNext
<1>5. ASSUME NEW t \in Thread, NEW n \in Node, FreeOne(t, n) PROVE GP!GPNext
  BY <1>5, FreeGP DEF GP!GPNext
<1>6. CASE UNCHANGED ebrVars
  BY <1>6 DEF ebrVars, pinVars, scanVars, listVars, histVars, Pinned, InReclaimer
<1> QED
  BY <1>1, <1>2, <1>3, <1>4, <1>5, <1>6 DEF EBRNext, EBRStep, PinStep, Quiet

\* EpochReclaimer keeps the promise of GracePeriod: every step of pin(),
\* unpin(), retire() and a deleter is a step of the abstract scheme, and
\* everything in between is invisible to it.
THEOREM ImplementsGracePeriod ==
    ASSUME SafeDeployment PROVE EBRSpec => GracePeriodSpec
<1>1. EBRInit => GP!GPInit /\ SinglyRetired /\ Tidy
  BY DEF EBRInit, GP!GPInit, InReclaimer, SinglyRetired, Tidy
<1>2. EInv /\ EInv' /\ SinglyRetired /\ Tidy /\ [EBRNext]_ebrVars
        => SinglyRetired' /\ Tidy'
  BY SafeDeployment, SInvStep
<1>3. EInv /\ SinglyRetired /\ Tidy /\ [EBRNext]_ebrVars => [GP!GPNext]_GP!gpVars
  BY GracePeriodStep DEF GP!gpVars, Pinned
<1> QED
  BY <1>1, <1>2, <1>3, SafeDeployment, EInvCorrect, PTL
  DEF EBRSpec, GracePeriodSpec, GP!GPSpec

-----------------------------------------------------------------------------
(* The stack over the reclaimer *)


-----------------------------------------------------------------------------
(* The inductive invariant *)

\* n is in t's hands: in a push() that has not linked it, or in a pop() that
\* has unlinked it and not called retire().
Mine(t, n) ==
    \/ pc[t] = "push_cas" /\ new_node[t] = n
    \/ pc[t] \in {"pop_take", "pop_retire"} /\ old_head[t] = n

InStack(n) ==
    /\ n \in Node
    /\ n \notin free
    /\ n \notin InReclaimer
    /\ \A t \in Thread : ~Mine(t, n)

Locals ==
    \A t \in Thread :
        /\ pc[t] = "push_cas" => new_node[t] \in Node
        /\ pc[t] \in {"pop_next", "pop_cas", "pop_take", "pop_retire"}
              => old_head[t] \in Node
        /\ pc[t] \in {"pop_load", "pop_next", "pop_cas", "pop_take", "pop_retire"}
              => t \in Pinned

OneHolder ==
    /\ free \intersect InReclaimer = {}
    /\ \A t \in Thread, n \in Node : Mine(t, n) =>
          /\ n \notin free
          /\ n \notin InReclaimer
          /\ \A u \in Thread : Mine(u, n) => u = t

\* The nodes in the stack form chains, head_ starts one of them, and no two
\* nodes have the same successor.
ListShape ==
    /\ head # None => InStack(head)
    /\ \A n \in Node : InStack(n) /\ next[n] # None =>
          /\ InStack(next[n])
          /\ next[n] # head
          /\ \A m \in Node : InStack(m) /\ next[m] = next[n] => m = n

\* What pop() holds between reading head_ and its exchange.
HeldSafe ==
    \A t \in Thread : pc[t] \in {"pop_next", "pop_cas"} =>
        /\ old_head[t] \notin free
        /\ old_head[t] \in InReclaimer => t \in waits[old_head[t]]
        /\ \A u \in Thread : ~(pc[u] = "push_cas" /\ new_node[u] = old_head[t])
        /\ pc[t] = "pop_cas" => nxt[t] = next[old_head[t]]

TSInv == TSTypeOK /\ Locals /\ OneHolder /\ ListShape /\ HeldSafe

-----------------------------------------------------------------------------
(* Every step of the stack is a step of its reclaimer, or none *)

LEMMA StepsReclaimer == TSTypeOK /\ Locals /\ [TSNext]_tsVars => [EBRNext]_ebrVars
<1> SUFFICES ASSUME TSTypeOK, Locals, [TSNext]_tsVars PROVE [EBRNext]_ebrVars
  OBVIOUS
<1>1. ASSUME NEW t \in Thread, PushStep(t) PROVE UNCHANGED ebrVars
  BY <1>1 DEF PushStep, PushAlloc, PushCAS, PushRetry
<1>2. ASSUME NEW t \in Thread, PopStep(t) PROVE [EBRNext]_ebrVars
  <2>1. PopPin(t) => EBRNext
    BY DEF PopPin, EBRNext, EBRStep, PinStep
  <2>2. PopRetire(t) => EBRNext
    BY DEF PopRetire, Goto, Locals, EBRNext, EBRStep
  <2>3. PopUnpin(t) => EBRNext
    BY DEF PopUnpin, EBRNext, EBRStep, PinStep
  <2> QED
    BY <1>2, <2>1, <2>2, <2>3
    DEF PopStep, PopCall, PopLoad, PopNext, PopCAS, PopRetry, PopTake, TakeHead
<1>3. ASSUME NEW t \in Thread, ReclaimStep(t) PROVE [EBRNext]_ebrVars
  BY <1>3 DEF ReclaimStep, AdvanceCall, AdvanceReturn, Reclaim, Delete, Drain,
              EBRNext, EBRStep
<1>4. Terminated \/ UNCHANGED tsVars => UNCHANGED ebrVars
  BY DEF Terminated, tsVars
<1> QED
  BY <1>1, <1>2, <1>3, <1>4 DEF TSNext

-----------------------------------------------------------------------------
(* The invariant is preserved *)

LEMMA TSInvInit == TSInit => TSInv /\ SinglyRetired /\ Tidy
<1> SUFFICES ASSUME TSInit PROVE TSInv /\ SinglyRetired /\ Tidy
  OBVIOUS
<1>1. EBRTypeOK
  BY EBRTypeInit DEF TSInit
<1>2. InReclaimer = {} /\ SinglyRetired /\ Tidy
  BY DEF TSInit, EBRInit, InReclaimer, SinglyRetired, Tidy
<1>3. TSTypeOK
  BY <1>1 DEF TSInit, TSTypeOK, Pointer
<1>4. Locals /\ HeldSafe
  BY DEF TSInit, Locals, HeldSafe
<1>5. OneHolder /\ ListShape
  BY <1>2 DEF TSInit, OneHolder, ListShape, Mine, InStack
<1> QED
  BY <1>2, <1>3, <1>4, <1>5 DEF TSInv

LEMMA ListUnmoved ==
    ASSUME TSTypeOK, ListShape, head' = head, next' = next,
           \A m : InStack(m)' <=> InStack(m)
    PROVE  ListShape'
BY DEF TSTypeOK, ListShape

LEMMA TSInvStep ==
    SafeDeployment /\ EInv /\ EInv' /\ SinglyRetired /\ Tidy /\ TSInv /\ [TSNext]_tsVars
        => TSInv'
<1> SUFFICES ASSUME SafeDeployment, EInv, EInv', SinglyRetired, Tidy, TSInv,
                    [TSNext]_tsVars
             PROVE  TSInv'
  OBVIOUS
<1> DEFINE Calm == UNCHANGED <<Pinned, InReclaimer, waits>>
<1>a. EBRTypeOK /\ RecordsOnList /\ GraceRespected /\ EBRTypeOK'
  BY DEF EInv
<1>b. UNCHANGED ebrVars => Calm
  BY DEF ebrVars, pinVars, scanVars, listVars, histVars, Pinned, InReclaimer
<1>c. waits \in [Node -> SUBSET Thread]
  BY DEF EInv, EBRTypeOK
<1> USE DEF TSInv, heapVars, localVars, Pointer
<1>1. ASSUME NEW t \in Thread, NEW v \in Value, NEW n \in Node, PushAlloc(t, v, n) PROVE TSInv'
  <2>1. Calm
    BY <1>b, <1>1 DEF PushAlloc
  <2>2. TSTypeOK'
    BY <1>a, <1>c, <1>1, <2>1 DEF PushAlloc, Call, TSTypeOK
  <2>3. Locals'
    BY <1>a, <1>c, <1>1, <2>1 DEF PushAlloc, Call, TSTypeOK, Locals
  <2>4. OneHolder'
    BY <1>a, <1>c, <1>1, <2>1 DEF PushAlloc, Call, TSTypeOK, Locals, OneHolder, Mine
  <2>5. ListShape'
    <3>1. \A m \in Node : InStack(m)' <=> InStack(m)
      BY <1>a, <1>1, <2>1 DEF PushAlloc, Call, TSTypeOK, InStack, Mine
    <3>2. \A m \in Node : InStack(m) => next'[m] = next[m]
      BY <1>1 DEF PushAlloc, TSTypeOK, InStack
    <3>3. head' = head /\ head \in Pointer
      BY <1>1 DEF PushAlloc, TSTypeOK
    <3> HIDE DEF TSInv
    <3> QED
      BY <3>1, <3>2, <3>3 DEF ListShape, TSInv, TSTypeOK
  <2>6. HeldSafe'
    BY <1>a, <1>c, <1>1, <2>1 DEF PushAlloc, Call, TSTypeOK, Locals, OneHolder, ListShape, HeldSafe, InStack, Mine
  <2> QED
    BY <2>2, <2>3, <2>4, <2>5, <2>6
<1>2. ASSUME NEW t \in Thread, PushCAS(t) PROVE TSInv'
  <2>1. Calm
    BY <1>b, <1>2 DEF PushCAS
  <2>2. TSTypeOK'
    BY <1>a, <1>c, <1>2, <2>1 DEF PushCAS, Goto, TSTypeOK
  <2>3. Locals'
    BY <1>a, <1>c, <1>2, <2>1 DEF PushCAS, Goto, TSTypeOK, Locals
  <2>4. OneHolder'
    BY <1>a, <1>c, <1>2, <2>1 DEF PushCAS, Goto, TSTypeOK, Locals, OneHolder, Mine
  <2>5. ListShape'
    BY <1>a, <1>c, <1>2, <2>1 DEF PushCAS, Goto, TSTypeOK, Locals, OneHolder, ListShape, HeldSafe, InStack, Mine
  <2>6. HeldSafe'
    BY <1>a, <1>c, <1>2, <2>1 DEF PushCAS, Goto, TSTypeOK, Locals, OneHolder, ListShape, HeldSafe, InStack, Mine
  <2> QED
    BY <2>2, <2>3, <2>4, <2>5, <2>6
<1>3. ASSUME NEW t \in Thread, PushRetry(t) PROVE TSInv'
  <2>1. Calm
    BY <1>b, <1>3 DEF PushRetry
  <2>2. TSTypeOK'
    BY <1>a, <1>c, <1>3, <2>1 DEF PushRetry, TSTypeOK
  <2>3. Locals'
    BY <1>a, <1>c, <1>3, <2>1 DEF PushRetry, TSTypeOK, Locals
  <2>4. OneHolder'
    BY <1>a, <1>c, <1>3, <2>1 DEF PushRetry, TSTypeOK, Locals, OneHolder, Mine
  <2>5. ListShape'
    BY <1>a, <1>c, <1>3, <2>1 DEF PushRetry, TSTypeOK, Locals, OneHolder, ListShape, HeldSafe, InStack, Mine
  <2>6. HeldSafe'
    BY <1>a, <1>c, <1>3, <2>1 DEF PushRetry, TSTypeOK, Locals, OneHolder, ListShape, HeldSafe, InStack, Mine
  <2> QED
    BY <2>2, <2>3, <2>4, <2>5, <2>6
<1>4. ASSUME NEW t \in Thread, PopCall(t) PROVE TSInv'
  <2>1. Calm
    BY <1>b, <1>4 DEF PopCall
  <2>2. TSTypeOK'
    BY <1>a, <1>c, <1>4, <2>1 DEF PopCall, Call, TSTypeOK
  <2>3. Locals'
    BY <1>a, <1>c, <1>4, <2>1 DEF PopCall, Call, TSTypeOK, Locals
  <2>4. OneHolder'
    BY <1>a, <1>c, <1>4, <2>1 DEF PopCall, Call, TSTypeOK, Locals, OneHolder, Mine
  <2>5. ListShape'
    <3>1. \A m : InStack(m)' <=> InStack(m)
      BY <1>4, <2>1 DEF PopCall, Call, TSTypeOK, InStack, Mine
    <3>2. head' = head /\ next' = next
      BY <1>4 DEF PopCall, Call
    <3> QED
      BY <3>1, <3>2, ListUnmoved
  <2>6. HeldSafe'
    BY <1>a, <1>c, <1>4, <2>1 DEF PopCall, Call, TSTypeOK, Locals, OneHolder, ListShape, HeldSafe, InStack, Mine
  <2> QED
    BY <2>2, <2>3, <2>4, <2>5, <2>6
<1>5. ASSUME NEW t \in Thread, PopLoad(t) PROVE TSInv'
  <2>1. Calm
    BY <1>b, <1>5 DEF PopLoad, TakeHead
  <2>2. TSTypeOK'
    BY <1>a, <1>c, <1>5, <2>1 DEF PopLoad, TakeHead, TSTypeOK
  <2>3. Locals'
    BY <1>a, <1>c, <1>5, <2>1 DEF PopLoad, TakeHead, TSTypeOK, Locals
  <2>4. OneHolder'
    BY <1>a, <1>c, <1>5, <2>1 DEF PopLoad, TakeHead, TSTypeOK, Locals, OneHolder, Mine
  <2>5. ListShape'
    <3>1. \A m : InStack(m)' <=> InStack(m)
      BY <1>5, <2>1 DEF PopLoad, TakeHead, TSTypeOK, InStack, Mine
    <3>2. head' = head /\ next' = next
      BY <1>5 DEF PopLoad, TakeHead
    <3> QED
      BY <3>1, <3>2, ListUnmoved
  <2>6. HeldSafe'
    BY <1>a, <1>c, <1>5, <2>1 DEF PopLoad, TakeHead, TSTypeOK, Locals, OneHolder, ListShape, HeldSafe, InStack, Mine
  <2> QED
    BY <2>2, <2>3, <2>4, <2>5, <2>6
<1>6. ASSUME NEW t \in Thread, PopNext(t) PROVE TSInv'
  <2>1. Calm
    BY <1>b, <1>6 DEF PopNext
  <2>2. TSTypeOK'
    BY <1>a, <1>6 DEF PopNext, Goto, TSTypeOK, Locals
  <2>3. Locals'
    BY <1>a, <1>c, <1>6, <2>1 DEF PopNext, Goto, TSTypeOK, Locals
  <2>4. OneHolder'
    BY <1>a, <1>c, <1>6, <2>1 DEF PopNext, Goto, TSTypeOK, Locals, OneHolder, Mine
  <2>5. ListShape'
    <3>1. \A m : InStack(m)' <=> InStack(m)
      BY <1>6, <2>1 DEF PopNext, Goto, TSTypeOK, InStack, Mine
    <3>2. head' = head /\ next' = next
      BY <1>6 DEF PopNext, Goto
    <3> QED
      BY <3>1, <3>2, ListUnmoved
  <2>6. HeldSafe'
    BY <1>a, <1>c, <1>6, <2>1 DEF PopNext, Goto, TSTypeOK, Locals, OneHolder, ListShape, HeldSafe, InStack, Mine
  <2> QED
    BY <2>2, <2>3, <2>4, <2>5, <2>6
<1>7. ASSUME NEW t \in Thread, PopCAS(t) PROVE TSInv'
  <2>1. Calm
    BY <1>b, <1>7 DEF PopCAS
  <2>2. TSTypeOK'
    BY <1>a, <1>c, <1>7, <2>1 DEF PopCAS, Goto, TSTypeOK
  <2>3. Locals'
    BY <1>a, <1>c, <1>7, <2>1 DEF PopCAS, Goto, TSTypeOK, Locals
  <2>4. OneHolder'
    <3>1. InStack(head) /\ head = old_head[t]
      BY <1>7 DEF PopCAS, Goto, Locals, ListShape
    <3>2. \A u \in Thread, n \in Node :
             Mine(u, n)' <=> Mine(u, n) \/ (u = t /\ n = head)
      BY <1>7, <3>1 DEF PopCAS, Goto, TSTypeOK, Mine
    <3> QED
      BY <1>7, <2>1, <3>1, <3>2 DEF PopCAS, OneHolder, InStack
  <2>5. ListShape'
    <3>1. InStack(head) /\ head = old_head[t] /\ head' = next[head]
      BY <1>7 DEF PopCAS, Goto, Locals, ListShape, HeldSafe
    <3>2. \A n : InStack(n)' <=> InStack(n) /\ n # head
      BY <1>7, <2>1, <3>1 DEF PopCAS, Goto, TSTypeOK, InStack, Mine
    <3>3. next' = next
      BY <1>7 DEF PopCAS
    <3> QED
      BY <3>1, <3>2, <3>3 DEF ListShape, InStack
  <2>6. HeldSafe'
    BY <1>a, <1>c, <1>7, <2>1 DEF PopCAS, Goto, TSTypeOK, Locals, OneHolder, ListShape, HeldSafe, InStack, Mine
  <2> QED
    BY <2>2, <2>3, <2>4, <2>5, <2>6
<1>8. ASSUME NEW t \in Thread, PopRetry(t) PROVE TSInv'
  <2>1. Calm
    BY <1>b, <1>8 DEF PopRetry, TakeHead
  <2>2. TSTypeOK'
    BY <1>a, <1>c, <1>8, <2>1 DEF PopRetry, TakeHead, TSTypeOK
  <2>3. Locals'
    BY <1>a, <1>c, <1>8, <2>1 DEF PopRetry, TakeHead, TSTypeOK, Locals
  <2>4. OneHolder'
    BY <1>a, <1>c, <1>8, <2>1 DEF PopRetry, TakeHead, TSTypeOK, Locals, OneHolder, Mine
  <2>5. ListShape'
    <3>1. \A m : InStack(m)' <=> InStack(m)
      BY <1>8, <2>1 DEF PopRetry, TakeHead, TSTypeOK, InStack, Mine
    <3>2. head' = head /\ next' = next
      BY <1>8 DEF PopRetry, TakeHead
    <3> QED
      BY <3>1, <3>2, ListUnmoved
  <2>6. HeldSafe'
    BY <1>a, <1>c, <1>8, <2>1 DEF PopRetry, TakeHead, TSTypeOK, Locals, OneHolder, ListShape, HeldSafe, InStack, Mine
  <2> QED
    BY <2>2, <2>3, <2>4, <2>5, <2>6
<1>9. ASSUME NEW t \in Thread, PopTake(t) PROVE TSInv'
  <2>1. Calm
    BY <1>b, <1>9 DEF PopTake
  <2>2. TSTypeOK'
    BY <1>a, <1>9 DEF PopTake, Goto, TSTypeOK, Locals
  <2>3. Locals'
    BY <1>a, <1>c, <1>9, <2>1 DEF PopTake, Goto, TSTypeOK, Locals
  <2>4. OneHolder'
    BY <1>a, <1>c, <1>9, <2>1 DEF PopTake, Goto, TSTypeOK, Locals, OneHolder, Mine
  <2>5. ListShape'
    <3>1. \A m : InStack(m)' <=> InStack(m)
      BY <1>9, <2>1 DEF PopTake, Goto, TSTypeOK, InStack, Mine
    <3>2. head' = head /\ next' = next
      BY <1>9 DEF PopTake, Goto
    <3> QED
      BY <3>1, <3>2, ListUnmoved
  <2>6. HeldSafe'
    BY <1>a, <1>c, <1>9, <2>1 DEF PopTake, Goto, TSTypeOK, Locals, OneHolder, ListShape, HeldSafe, InStack, Mine
  <2> QED
    BY <2>2, <2>3, <2>4, <2>5, <2>6
<1>10. ASSUME NEW t \in Thread, AdvanceReturn(t) PROVE TSInv'
  <2>1. Calm
    BY <1>b, <1>10 DEF AdvanceReturn
  <2>2. TSTypeOK'
    BY <1>a, <1>c, <1>10, <2>1 DEF AdvanceReturn, Goto, TSTypeOK
  <2>3. Locals'
    BY <1>a, <1>c, <1>10, <2>1 DEF AdvanceReturn, Goto, TSTypeOK, Locals
  <2>4. OneHolder'
    BY <1>a, <1>c, <1>10, <2>1 DEF AdvanceReturn, Goto, TSTypeOK, Locals, OneHolder, Mine
  <2>5. ListShape'
    <3>1. \A m : InStack(m)' <=> InStack(m)
      BY <1>10, <2>1 DEF AdvanceReturn, Goto, TSTypeOK, InStack, Mine
    <3>2. head' = head /\ next' = next
      BY <1>10 DEF AdvanceReturn, Goto
    <3> QED
      BY <3>1, <3>2, ListUnmoved
  <2>6. HeldSafe'
    BY <1>a, <1>c, <1>10, <2>1 DEF AdvanceReturn, Goto, TSTypeOK, Locals, OneHolder, ListShape, HeldSafe, InStack, Mine
  <2> QED
    BY <2>2, <2>3, <2>4, <2>5, <2>6
<1>11. ASSUME NEW t \in Thread, PopPin(t) PROVE TSInv'
  <2>1. /\ InReclaimer' = InReclaimer /\ waits' = waits
        /\ Pinned' = Pinned \/ (Pinned' = Pinned \union {t} /\ PinActivate(t))
        /\ pc'[t] = "pop_load" => t \in Pinned'
    <3>1. CASE PinActivate(t)
      BY <1>a, <1>11, <3>1, PinStepGP DEF PopPin, GP!GPPin, TSTypeOK, Pinned
    <3>2. CASE Register(t) \/ PinLoad(t) \/ PinStore(t)
      <4>1. Calm
        BY <1>a, <3>2, QuietSteps DEF Quiet
      <4>2. pc' = pc \/ PinActivate(t)
        BY <1>11 DEF PopPin
      <4> QED
        BY <1>11, <3>1, <4>1, <4>2 DEF PopPin
    <3> QED
      BY <1>11, <3>1, <3>2 DEF PopPin
  <2>2. TSTypeOK'
    BY <1>a, <1>c, <1>11, <2>1 DEF PopPin, Goto, TSTypeOK
  <2>3. Locals'
    BY <1>a, <1>c, <1>11, <2>1 DEF PopPin, Goto, TSTypeOK, Locals
  <2>4. OneHolder'
    BY <1>a, <1>c, <1>11, <2>1 DEF PopPin, Goto, TSTypeOK, Locals, OneHolder, Mine
  <2>5. ListShape'
    <3>1. \A m : InStack(m)' <=> InStack(m)
      BY <1>11, <2>1 DEF PopPin, Goto, TSTypeOK, InStack, Mine
    <3>2. head' = head /\ next' = next
      BY <1>11 DEF PopPin, Goto
    <3> QED
      BY <3>1, <3>2, ListUnmoved
  <2>6. HeldSafe'
    BY <1>a, <1>c, <1>11, <2>1 DEF PopPin, Goto, TSTypeOK, Locals, OneHolder, ListShape, HeldSafe, InStack, Mine
  <2> QED
    BY <2>2, <2>3, <2>4, <2>5, <2>6
<1>12. ASSUME NEW t \in Thread, PopRetire(t) PROVE TSInv'
  <2>1. /\ Pinned' = Pinned /\ InReclaimer' = InReclaimer \union {old_head[t]}
        /\ waits' = [waits EXCEPT ![old_head[t]] = Pinned]
    <3>1. old_head[t] \in Node
      BY <1>12 DEF PopRetire, Goto, Locals
    <3> QED
      BY <1>a, <1>12, <3>1, RetireGP DEF PopRetire, GP!GPRetire, Pinned
  <2>2. TSTypeOK'
    BY <1>a, <1>c, <1>12, <2>1 DEF PopRetire, Goto, TSTypeOK
  <2>3. Locals'
    BY <1>a, <1>c, <1>12, <2>1 DEF PopRetire, Goto, TSTypeOK, Locals
  <2>4. OneHolder'
    BY <1>a, <1>c, <1>12, <2>1 DEF PopRetire, Goto, TSTypeOK, Locals, OneHolder, Mine
  <2>5. ListShape'
    BY <1>a, <1>c, <1>12, <2>1 DEF PopRetire, Goto, TSTypeOK, Locals, OneHolder, ListShape, HeldSafe, InStack, Mine
  <2>6. HeldSafe'
    BY <1>a, <1>c, <1>12, <2>1 DEF PopRetire, Goto, TSTypeOK, Locals, OneHolder, ListShape, HeldSafe, InStack, Mine
  <2> QED
    BY <2>2, <2>3, <2>4, <2>5, <2>6
<1>13. ASSUME NEW t \in Thread, PopUnpin(t) PROVE TSInv'
  <2>1. /\ Pinned' = Pinned \ {t} /\ InReclaimer' = InReclaimer
        /\ waits' = [n \in Node |-> waits[n] \ {t}]
    BY <1>a, <1>13, UnpinGP DEF PopUnpin, GP!GPUnpin, Pinned
  <2>2. TSTypeOK'
    BY <1>a, <1>c, <1>13, <2>1 DEF PopUnpin, Goto, TSTypeOK
  <2>3. Locals'
    BY <1>a, <1>c, <1>13, <2>1 DEF PopUnpin, Goto, TSTypeOK, Locals
  <2>4. OneHolder'
    BY <1>a, <1>c, <1>13, <2>1 DEF PopUnpin, Goto, TSTypeOK, Locals, OneHolder, Mine
  <2>5. ListShape'
    <3>1. \A m : InStack(m)' <=> InStack(m)
      BY <1>13, <2>1 DEF PopUnpin, Goto, TSTypeOK, InStack, Mine
    <3>2. head' = head /\ next' = next
      BY <1>13 DEF PopUnpin, Goto
    <3> QED
      BY <3>1, <3>2, ListUnmoved
  <2>6. HeldSafe'
    BY <1>a, <1>c, <1>13, <2>1 DEF PopUnpin, Goto, TSTypeOK, Locals, OneHolder, ListShape, HeldSafe, InStack, Mine
  <2> QED
    BY <2>2, <2>3, <2>4, <2>5, <2>6
<1>14. ASSUME NEW t \in Thread, AdvanceCall(t) PROVE TSInv'
  <2>1. Calm
    BY <1>a, <1>14, QuietSteps DEF AdvanceCall, Quiet
  <2>2. TSTypeOK'
    BY <1>a, <1>c, <1>14, <2>1 DEF AdvanceCall, Call, TSTypeOK
  <2>3. Locals'
    BY <1>a, <1>c, <1>14, <2>1 DEF AdvanceCall, Call, TSTypeOK, Locals
  <2>4. OneHolder'
    BY <1>a, <1>c, <1>14, <2>1 DEF AdvanceCall, Call, TSTypeOK, Locals, OneHolder, Mine
  <2>5. ListShape'
    <3>1. \A m : InStack(m)' <=> InStack(m)
      BY <1>14, <2>1 DEF AdvanceCall, Call, TSTypeOK, InStack, Mine
    <3>2. head' = head /\ next' = next
      BY <1>14 DEF AdvanceCall, Call
    <3> QED
      BY <3>1, <3>2, ListUnmoved
  <2>6. HeldSafe'
    BY <1>a, <1>c, <1>14, <2>1 DEF AdvanceCall, Call, TSTypeOK, Locals, OneHolder, ListShape, HeldSafe, InStack, Mine
  <2> QED
    BY <2>2, <2>3, <2>4, <2>5, <2>6
<1>15. ASSUME NEW t \in Thread, Reclaim(t) PROVE TSInv'
  <2>1. Calm
    BY <1>a, <1>15, QuietSteps DEF Reclaim, Quiet
  <2>2. TSTypeOK'
    BY <1>a, <1>c, <1>15, <2>1 DEF Reclaim, TSTypeOK
  <2>3. Locals'
    BY <1>a, <1>c, <1>15, <2>1 DEF Reclaim, TSTypeOK, Locals
  <2>4. OneHolder'
    BY <1>a, <1>c, <1>15, <2>1 DEF Reclaim, TSTypeOK, Locals, OneHolder, Mine
  <2>5. ListShape'
    <3>1. \A m : InStack(m)' <=> InStack(m)
      BY <1>15, <2>1 DEF Reclaim, TSTypeOK, InStack, Mine
    <3>2. head' = head /\ next' = next
      BY <1>15 DEF Reclaim
    <3> QED
      BY <3>1, <3>2, ListUnmoved
  <2>6. HeldSafe'
    BY <1>a, <1>c, <1>15, <2>1 DEF Reclaim, TSTypeOK, Locals, OneHolder, ListShape, HeldSafe, InStack, Mine
  <2> QED
    BY <2>2, <2>3, <2>4, <2>5, <2>6
<1>16. ASSUME NEW t \in Thread, Drain(t) PROVE TSInv'
  <2>1. Calm
    BY <1>a, <1>16, QuietSteps DEF Drain, Quiet
  <2>2. TSTypeOK'
    BY <1>a, <1>c, <1>16, <2>1 DEF Drain, TSTypeOK
  <2>3. Locals'
    BY <1>a, <1>c, <1>16, <2>1 DEF Drain, TSTypeOK, Locals
  <2>4. OneHolder'
    BY <1>a, <1>c, <1>16, <2>1 DEF Drain, TSTypeOK, Locals, OneHolder, Mine
  <2>5. ListShape'
    <3>1. \A m : InStack(m)' <=> InStack(m)
      BY <1>16, <2>1 DEF Drain, TSTypeOK, InStack, Mine
    <3>2. head' = head /\ next' = next
      BY <1>16 DEF Drain
    <3> QED
      BY <3>1, <3>2, ListUnmoved
  <2>6. HeldSafe'
    BY <1>a, <1>c, <1>16, <2>1 DEF Drain, TSTypeOK, Locals, OneHolder, ListShape, HeldSafe, InStack, Mine
  <2> QED
    BY <2>2, <2>3, <2>4, <2>5, <2>6
<1>17. ASSUME NEW t \in Thread, NEW n \in Node, FreeOne(t, n), free' = free \union {n},
             UNCHANGED <<head, next, data, pc, localVars>> PROVE TSInv'
  <2>1. /\ Pinned' = Pinned /\ waits' = waits /\ waits[n] = {}
        /\ n \in InReclaimer /\ InReclaimer' = InReclaimer \ {n}
    BY <1>a, <1>17, FreeGP DEF GP!GPReclaim, Pinned
  <2>2. TSTypeOK'
    BY <1>a, <1>c, <1>17, <2>1 DEF TSTypeOK
  <2>3. Locals'
    BY <1>a, <1>c, <1>17, <2>1 DEF TSTypeOK, Locals
  <2>4. OneHolder'
    BY <1>a, <1>c, <1>17, <2>1 DEF TSTypeOK, Locals, OneHolder, Mine
  <2>5. ListShape'
    BY <1>a, <1>c, <1>17, <2>1 DEF TSTypeOK, Locals, OneHolder, ListShape, HeldSafe, InStack, Mine
  <2>6. HeldSafe'
    BY <1>a, <1>c, <1>17, <2>1 DEF TSTypeOK, Locals, OneHolder, ListShape, HeldSafe, InStack, Mine
  <2> QED
    BY <2>2, <2>3, <2>4, <2>5, <2>6
<1>18. CASE UNCHANGED tsVars
  <2>1. Calm
    BY <1>b, <1>18 DEF tsVars
  <2>2. TSTypeOK'
    BY <1>a, <1>c, <1>18, <2>1 DEF tsVars, TSTypeOK
  <2>3. Locals'
    BY <1>a, <1>c, <1>18, <2>1 DEF tsVars, TSTypeOK, Locals
  <2>4. OneHolder'
    BY <1>a, <1>c, <1>18, <2>1 DEF tsVars, TSTypeOK, Locals, OneHolder, Mine
  <2>5. ListShape'
    BY <1>a, <1>c, <1>18, <2>1 DEF tsVars, TSTypeOK, Locals, OneHolder, ListShape, HeldSafe, InStack, Mine
  <2>6. HeldSafe'
    BY <1>a, <1>c, <1>18, <2>1 DEF tsVars, TSTypeOK, Locals, OneHolder, ListShape, HeldSafe, InStack, Mine
  <2> QED
    BY <2>2, <2>3, <2>4, <2>5, <2>6
<1> QED
  BY <1>1, <1>2, <1>3, <1>4, <1>5, <1>6, <1>7, <1>8, <1>9, <1>10, <1>11, <1>12, <1>13, <1>14, <1>15, <1>16, <1>17, <1>18
  DEF TSNext, PushStep, PopStep, ReclaimStep, Delete, Terminated

LEMMA TSInvCorrect ==
    ASSUME SafeDeployment
    PROVE  TSSpec => [](EInv /\ SinglyRetired /\ Tidy /\ TSInv)
<1>1. TSInit => EInv /\ SinglyRetired /\ Tidy /\ TSInv
  BY SafeDeployment, EInvInit, TSInvInit DEF TSInit
<1>2. EInv /\ SinglyRetired /\ Tidy /\ TSInv /\ [TSNext]_tsVars
        => (EInv /\ SinglyRetired /\ Tidy /\ TSInv)'
  <2> SUFFICES ASSUME EInv, SinglyRetired, Tidy, TSInv, [TSNext]_tsVars
               PROVE  (EInv /\ SinglyRetired /\ Tidy /\ TSInv)'
    OBVIOUS
  <2>1. [EBRNext]_ebrVars
    BY StepsReclaimer DEF TSInv
  <2>2. EInv'
    BY <2>1, SafeDeployment, EInvStep
  <2>3. SinglyRetired' /\ Tidy'
    BY <2>1, <2>2, SafeDeployment, SInvStep
  <2>4. TSInv'
    BY <2>2, SafeDeployment, TSInvStep
  <2> QED
    BY <2>2, <2>3, <2>4
<1> QED
  BY <1>1, <1>2, PTL DEF TSSpec

\* The variables of the stack and of its reclaimer keep their types.
THEOREM TSTypeCorrect == ASSUME SafeDeployment PROVE TSSpec => []TSTypeOK
<1>1. TSInv => TSTypeOK
  BY DEF TSInv
<1> QED
  BY <1>1, SafeDeployment, TSInvCorrect, PTL

\* No pop() reads a deleted node, or compares head_ with a recycled address.
THEOREM NoUseAfterFreeCorrect ==
    ASSUME SafeDeployment PROVE TSSpec => []NoUseAfterFree
<1>1. TSInv => NoUseAfterFree
  BY DEF TSInv, NoUseAfterFree, HeldSafe, OneHolder, Mine, Locals
<1> QED
  BY <1>1, SafeDeployment, TSInvCorrect, PTL

\* The exchange of pop() never installs a stale successor.
THEOREM NoABACorrect == ASSUME SafeDeployment PROVE TSSpec => []NoABA
<1>1. TSInv => NoABA
  BY DEF TSInv, NoABA, HeldSafe
<1> QED
  BY <1>1, SafeDeployment, TSInvCorrect, PTL

\* The stack uses its reclaimer within the reclaimer's own specification.
THEOREM ImplementsReclaimer == ASSUME SafeDeployment PROVE TSSpec => EBRSpec
<1>1. TSInit => EBRInit
  BY DEF TSInit
<1>2. TSInv /\ [TSNext]_tsVars => [EBRNext]_ebrVars
  BY StepsReclaimer DEF TSInv
<1> QED
  BY <1>1, <1>2, SafeDeployment, TSInvCorrect, PTL DEF TSSpec, EBRSpec

-----------------------------------------------------------------------------
(* The stack as a list *)

Listed == {n \in Node : InStack(n)}

StackList == IsList(Chain, head, next, Listed)

\* What the steps that neither link nor unlink a node leave alone.
Kept ==
    /\ head' = head
    /\ Listed' = Listed
    /\ \A n \in Listed : next'[n] = next[n] /\ data'[n] = data[n]

LEMMA ListedNodes == \A n : n \in Listed <=> InStack(n)
BY DEF Listed, InStack

LEMMA StackMoves ==
    SafeDeployment /\ EInv /\ SinglyRetired /\ Tidy /\ TSInv /\ [TSNext]_tsVars
        => Kept \/ \E t \in Thread : PushCAS(t) \/ PopCAS(t)
<1> SUFFICES ASSUME SafeDeployment, EInv, SinglyRetired, Tidy, TSInv, [TSNext]_tsVars
             PROVE  Kept \/ \E t \in Thread : PushCAS(t) \/ PopCAS(t)
  OBVIOUS
<1> DEFINE Calm == UNCHANGED <<Pinned, InReclaimer, waits>>
<1>a. EBRTypeOK /\ RecordsOnList /\ GraceRespected
  BY DEF EInv
<1>b. UNCHANGED ebrVars => Calm
  BY DEF ebrVars, pinVars, scanVars, listVars, histVars, Pinned, InReclaimer
<1>c. TSTypeOK
  BY DEF TSInv
<1> USE DEF heapVars, localVars
<1>1. ASSUME NEW t \in Thread, NEW v \in Value, NEW n \in Node, PushAlloc(t, v, n)
      PROVE  Kept
  <2>1. InReclaimer' = InReclaimer
    BY <1>b, <1>1 DEF PushAlloc
  <2>2. \A m \in Node : InStack(m)' <=> InStack(m)
    BY <1>c, <1>1, <2>1 DEF PushAlloc, Call, TSTypeOK, InStack, Mine
  <2>3. \A m \in Node : InStack(m) => next'[m] = next[m] /\ data'[m] = data[m]
    BY <1>c, <1>1 DEF PushAlloc, TSTypeOK, InStack
  <2> QED
    BY <1>1, <2>2, <2>3 DEF Kept, Listed, PushAlloc
<1>2. ASSUME NEW t \in Thread, PushRetry(t) PROVE Kept
  <2>1. InReclaimer' = InReclaimer
    BY <1>b, <1>2 DEF PushRetry
  <2>2. \A m \in Node : InStack(m)' <=> InStack(m)
    BY <1>2, <2>1 DEF PushRetry, InStack, Mine
  <2>3. \A m \in Node : InStack(m) => next'[m] = next[m] /\ data'[m] = data[m]
    BY <1>c, <1>2 DEF PushRetry, TSTypeOK, InStack, Mine
  <2> QED
    BY <1>2, <2>2, <2>3 DEF Kept, Listed, PushRetry
<1>3. ASSUME NEW t \in Thread,
             PopCall(t) \/ PopPin(t) \/ PopLoad(t) \/ PopNext(t) \/ PopRetry(t)
                \/ PopTake(t) \/ PopUnpin(t)
                \/ AdvanceCall(t) \/ AdvanceReturn(t) \/ Reclaim(t) \/ Drain(t)
      PROVE  Kept
  <2>1. InReclaimer' = InReclaimer
    <3>1. CASE PopPin(t)
      <4>1. CASE PinActivate(t)
        BY <1>a, <4>1, PinStepGP DEF GP!GPPin
      <4>2. CASE Register(t) \/ PinLoad(t) \/ PinStore(t)
        BY <1>a, <4>2, QuietSteps DEF Quiet
      <4> QED
        BY <3>1, <4>1, <4>2 DEF PopPin
    <3>2. CASE PopUnpin(t)
      BY <1>a, <3>2, UnpinGP DEF PopUnpin, GP!GPUnpin
    <3>3. CASE AdvanceCall(t) \/ Reclaim(t) \/ Drain(t)
      BY <1>a, <3>3, QuietSteps DEF AdvanceCall, Reclaim, Drain, Quiet
    <3>4. CASE PopCall(t) \/ PopLoad(t) \/ PopNext(t) \/ PopRetry(t) \/ PopTake(t)
                  \/ AdvanceReturn(t)
      BY <1>b, <3>4 DEF PopCall, PopLoad, PopNext, PopRetry, PopTake, TakeHead,
                        AdvanceReturn
    <3> QED
      BY <1>3, <3>1, <3>2, <3>3, <3>4
  <2>2. head' = head /\ next' = next /\ data' = data /\ free' = free
    BY <1>3 DEF PopCall, PopPin, PopLoad, PopNext, PopRetry, PopTake, PopUnpin,
                AdvanceCall, AdvanceReturn, Reclaim, Drain, TakeHead
  <2>3. \A u \in Thread, m \in Node : Mine(u, m)' <=> Mine(u, m)
    BY <1>c, <1>3 DEF PopCall, PopPin, PopLoad, PopNext, PopRetry, PopTake, PopUnpin,
                AdvanceCall, AdvanceReturn, Reclaim, Drain, TakeHead, Call, Goto,
                Mine, TSTypeOK
  <2>4. \A m \in Node : InStack(m)' <=> InStack(m)
    BY <2>1, <2>2, <2>3 DEF InStack
  <2> QED
    BY <2>2, <2>4 DEF Kept, Listed
<1>4. ASSUME NEW t \in Thread, PopRetire(t) PROVE Kept
  <2>1. old_head[t] \in Node
    BY <1>4 DEF PopRetire, Goto, TSInv, Locals
  <2>2. InReclaimer' = InReclaimer \union {old_head[t]}
    BY <1>a, <1>4, <2>1, RetireGP DEF PopRetire, GP!GPRetire
  <2>3. Mine(t, old_head[t])
    BY <1>4 DEF PopRetire, Goto, Mine
  <2>4. \A u \in Thread, m \in Node :
           Mine(u, m)' <=> Mine(u, m) /\ ~(u = t /\ m = old_head[t])
    BY <1>c, <1>4 DEF PopRetire, Goto, Mine, TSTypeOK
  <2>5. \A m \in Node : InStack(m)' <=> InStack(m)
    BY <1>4, <2>1, <2>2, <2>3, <2>4 DEF PopRetire, InStack, TSInv, OneHolder
  <2> QED
    BY <1>4, <2>5 DEF Kept, Listed, PopRetire
<1>5. ASSUME NEW t \in Thread, NEW n \in Node, FreeOne(t, n), free' = free \union {n},
             UNCHANGED <<head, next, data, pc, localVars>>
      PROVE  Kept
  <2>1. n \in InReclaimer /\ InReclaimer' = InReclaimer \ {n}
    BY <1>a, <1>5, FreeGP DEF GP!GPReclaim
  <2>2. \A m \in Node : InStack(m)' <=> InStack(m)
    BY <1>5, <2>1 DEF InStack, Mine
  <2> QED
    BY <1>5, <2>2 DEF Kept, Listed
<1>6. CASE UNCHANGED tsVars
  <2>1. InReclaimer' = InReclaimer
    BY <1>b, <1>6 DEF tsVars
  <2>2. \A m \in Node : InStack(m)' <=> InStack(m)
    BY <1>6, <2>1 DEF InStack, Mine, tsVars
  <2> QED
    BY <1>6, <2>2 DEF Kept, Listed, tsVars
<1> QED
  BY <1>1, <1>2, <1>3, <1>4, <1>5, <1>6
  DEF TSNext, PushStep, PopStep, ReclaimStep, Delete, Terminated

\* What the two exchanges do to the stack.
LEMMA PushMoves ==
    ASSUME TSInv, NEW t \in Thread, PushCAS(t)
    PROVE  /\ new_node[t] \in Node /\ new_node[t] \notin Listed
           /\ next[new_node[t]] = head /\ head' = new_node[t]
           /\ Listed' = Listed \union {new_node[t]}
           /\ next' = next /\ data' = data
<1> USE DEF heapVars, localVars
<1>1. /\ new_node[t] \in Node /\ next[new_node[t]] = head /\ head' = new_node[t]
      /\ next' = next /\ data' = data /\ free' = free /\ InReclaimer' = InReclaimer
  BY DEF PushCAS, Goto, TSInv, Locals, ebrVars, pinVars, scanVars, listVars, InReclaimer
<1>2. Mine(t, new_node[t])
  BY DEF PushCAS, Goto, Mine
<1>3. \A u \in Thread, m \in Node :
         Mine(u, m)' <=> Mine(u, m) /\ ~(u = t /\ m = new_node[t])
  BY DEF PushCAS, Goto, Mine, TSInv, TSTypeOK
<1>4. \A m \in Node : InStack(m)' <=> InStack(m) \/ m = new_node[t]
  BY <1>1, <1>2, <1>3 DEF InStack, TSInv, OneHolder
<1>5. ~InStack(new_node[t])
  BY <1>2 DEF InStack
<1> QED
  BY <1>1, <1>4, <1>5 DEF Listed

LEMMA PopMoves ==
    ASSUME TSInv, NEW t \in Thread, PopCAS(t)
    PROVE  /\ head \in Listed /\ old_head[t] = head /\ head' = next[head]
           /\ Listed' = Listed \ {head}
           /\ next' = next /\ data' = data
<1> USE DEF heapVars, localVars
<1>1. /\ InStack(head) /\ head = old_head[t] /\ head' = next[head]
      /\ next' = next /\ data' = data /\ free' = free /\ InReclaimer' = InReclaimer
  BY DEF PopCAS, Goto, TSInv, Locals, ListShape, HeldSafe,
         ebrVars, pinVars, scanVars, listVars, InReclaimer
<1>2. \A u \in Thread, m \in Node : Mine(u, m)' <=> Mine(u, m) \/ (u = t /\ m = head)
  BY <1>1 DEF PopCAS, Goto, Mine, TSInv, TSTypeOK
<1>3. \A m \in Node : InStack(m)' <=> InStack(m) /\ m # head
  BY <1>1, <1>2 DEF InStack
<1> QED
  BY <1>1, <1>3 DEF Listed, InStack

\* Every step keeps the chain, puts a node in front or takes off the first.
ChainMoves ==
    \/ Kept /\ Chain' = Chain
    \/ \E t \in Thread : PushCAS(t) /\ Chain' = <<new_node[t]>> \o Chain
    \/ \E t \in Thread :
          /\ PopCAS(t) /\ Len(Chain) > 0 /\ Chain[1] = head /\ Chain' = Tail(Chain)

LEMMA ChainStep ==
    SafeDeployment /\ EInv /\ SinglyRetired /\ Tidy /\ TSInv /\ StackList
       /\ [TSNext]_tsVars
        => StackList' /\ ChainMoves
<1> SUFFICES ASSUME SafeDeployment, EInv, SinglyRetired, Tidy, TSInv, StackList,
                    [TSNext]_tsVars
             PROVE  StackList' /\ ChainMoves
  OBVIOUS
<1>0. \A s : IsList(s, head', next', Listed') => s = Chain' /\ StackList'
  <2> TAKE s
  <2> HAVE IsList(s, head', next', Listed')
  <2>1. NodesFrom(head', next') = s
    BY WalkFindsList
  <2> QED
    BY <2>1 DEF StackList, Chain
<1>1. CASE Kept
  <2>1. IsList(Chain, head, next', Listed)
    BY <1>1, SameNodes DEF Kept, StackList
  <2> QED
    BY <1>0, <1>1, <2>1 DEF Kept, ChainMoves
<1>2. ASSUME NEW t \in Thread, PushCAS(t) PROVE StackList' /\ ChainMoves
  <2>1. PICK n \in Node :
           /\ n = new_node[t] /\ n \notin Listed /\ next[n] = head /\ head' = n
           /\ Listed' = Listed \union {n} /\ next' = next
    BY <1>2, PushMoves
  <2>2. IsList(<<n>> \o Chain, n, next, Listed \union {n})
    BY <2>1, ListPush DEF StackList
  <2>3. <<n>> \o Chain = Chain' /\ StackList'
    BY <1>0, <2>1, <2>2
  <2> QED
    BY <1>2, <2>1, <2>3 DEF ChainMoves
<1>3. ASSUME NEW t \in Thread, PopCAS(t) PROVE StackList' /\ ChainMoves
  <2>1. /\ head \in Listed /\ head' = next[head] /\ Listed' = Listed \ {head}
        /\ next' = next
    BY <1>3, PopMoves
  <2>2. head # None
    BY <2>1 DEF Listed
  <2>3. /\ Len(Chain) > 0 /\ head = Chain[1]
        /\ IsList(Tail(Chain), next[head], next, Listed \ {head})
    BY <2>2, ListTail DEF StackList
  <2> QED
    BY <1>0, <1>3, <2>1, <2>3 DEF ChainMoves
<1> QED
  BY <1>1, <1>2, <1>3, StackMoves

LEMMA StackListInit == TSInit => StackList
<1> SUFFICES ASSUME TSInit PROVE StackList
  OBVIOUS
<1>1. head = None /\ Listed = {}
  BY DEF TSInit, Listed, InStack
<1>2. IsList(<< >>, head, next, Listed)
  BY <1>1 DEF IsList
<1> QED
  BY <1>2, WalkFindsList DEF StackList, Chain

LEMMA StackListCorrect ==
    ASSUME SafeDeployment
    PROVE  TSSpec => [](EInv /\ SinglyRetired /\ Tidy /\ TSInv /\ StackList)
<1>1. TSInit => StackList
  BY StackListInit
<1>2. EInv /\ SinglyRetired /\ Tidy /\ TSInv /\ StackList /\ [TSNext]_tsVars => StackList'
  BY SafeDeployment, ChainStep
<1> QED
  BY <1>1, <1>2, SafeDeployment, TSInvCorrect, PTL DEF TSSpec

-----------------------------------------------------------------------------
(* Every address has one owner *)

LEMMA DisjointUnion ==
    ASSUME NEW S, NEW T, IsFiniteSet(S), IsFiniteSet(T), S \intersect T = {}
    PROVE  IsFiniteSet(S \union T) /\ Cardinality(S \union T) = Cardinality(S) + Cardinality(T)
<1>1. Cardinality(S) \in Nat /\ Cardinality(T) \in Nat /\ Cardinality(S \intersect T) = 0
  BY FS_CardinalityType, FS_EmptySet
<1>2. /\ IsFiniteSet(S \union T)
      /\ Cardinality(S \union T)
            = Cardinality(S) + Cardinality(T) - Cardinality(S \intersect T)
  BY FS_Union
<1> QED
  BY <1>1, <1>2

LEMMA OwnersCounted ==
    EInv /\ TSInv /\ StackList => OneOwner
<1> SUFFICES ASSUME EInv, TSInv, StackList PROVE OneOwner
  OBVIOUS
<1> DEFINE handed == {t \in Thread : InHand(t) # {}}
           inHand == {n \in Node : \E t \in Thread : Mine(t, n)}
<1>1. /\ free \in SUBSET Node /\ InReclaimer \in SUBSET Node
      /\ inHand \in SUBSET Node /\ Listed \in SUBSET Node
  <2>1. InReclaimer \in SUBSET Node
    BY DEF EInv, EBRTypeOK, RetiredAfterPins, InReclaimer
  <2> QED
    BY <2>1 DEF TSInv, TSTypeOK, Listed
<1>2. /\ IsFiniteSet(free) /\ IsFiniteSet(InReclaimer)
      /\ IsFiniteSet(inHand) /\ IsFiniteSet(Listed)
  BY <1>1, FiniteAddresses, FS_Subset
<1>3. \A t \in Thread : \A n : n \in InHand(t) <=> n \in Node /\ Mine(t, n)
  BY DEF InHand, Mine, TSInv, Locals
<1>4. Linked = Listed /\ Cardinality(Listed) = Len(Chain)
  BY ListCounts DEF StackList, Linked
<1>5. UNION {InHand(t) : t \in handed} = inHand
  <2>1. \A n : n \in UNION {InHand(t) : t \in handed}
                  <=> \E t \in Thread : n \in InHand(t)
    OBVIOUS
  <2> QED
    BY <1>3, <2>1
<1>6. Cardinality(handed) = Cardinality(inHand)
  <2> DEFINE holder == [n \in inHand |-> CHOOSE t \in Thread : Mine(t, n)]
  <2>1. \A n \in inHand : holder[n] \in Thread /\ Mine(holder[n], n)
    OBVIOUS
  <2>2. \A t \in handed : \E n \in inHand : Mine(t, n)
    BY <1>3
  <2>3. \A t \in Thread : \A m, n : Mine(t, m) /\ Mine(t, n) => m = n
    BY DEF Mine
  <2>4. \A n \in Node : \A t, u \in Thread : Mine(t, n) /\ Mine(u, n) => t = u
    BY DEF TSInv, OneHolder
  <2>5. \A n \in inHand : holder[n] \in handed
    BY <1>3, <2>1
  <2>6. \A m, n \in inHand : holder[m] = holder[n] => m = n
    BY <2>1, <2>3
  <2>7. \A t \in handed : \E n \in inHand : holder[n] = t
    BY <2>1, <2>2, <2>4
  <2>8. holder \in [inHand -> handed]
    BY <2>5
  <2> HIDE DEF holder, handed, inHand
  <2>9. holder \in Bijection(inHand, handed)
    BY <2>6, <2>7, <2>8 DEF Bijection, Injection, Surjection, IsInjective
  <2> QED
    BY <1>2, <2>9, FS_Bijection DEF ExistsBijection
<1>7. free \union Listed \union InReclaimer \union inHand = Node
  BY <1>1 DEF Listed, InStack
<1>8. /\ free \intersect Listed = {}
      /\ (free \union Listed) \intersect InReclaimer = {}
      /\ (free \union Listed \union InReclaimer) \intersect inHand = {}
  BY DEF Listed, InStack, TSInv, OneHolder
<1>9. Cardinality(free) + Cardinality(Listed) + Cardinality(InReclaimer)
         + Cardinality(inHand) = Cardinality(Node)
  <2> HIDE DEF inHand
  <2>1. /\ IsFiniteSet(free \union Listed)
        /\ Cardinality(free \union Listed) = Cardinality(free) + Cardinality(Listed)
    BY <1>2, <1>8, DisjointUnion
  <2>2. /\ IsFiniteSet(free \union Listed \union InReclaimer)
        /\ Cardinality(free \union Listed \union InReclaimer)
              = Cardinality(free \union Listed) + Cardinality(InReclaimer)
    BY <1>2, <1>8, <2>1, DisjointUnion
  <2>3. Cardinality(free \union Listed \union InReclaimer \union inHand)
              = Cardinality(free \union Listed \union InReclaimer) + Cardinality(inHand)
    BY <1>2, <1>8, <2>2, DisjointUnion
  <2> QED
    BY <1>7, <2>1, <2>2, <2>3
<1> QED
  BY <1>4, <1>5, <1>6, <1>7, <1>9 DEF OneOwner

\* No address leaks and none has two owners, and the stack is never a circle,
\* for any number of threads, addresses and calls.
THEOREM TSConsistentCorrect == ASSUME SafeDeployment PROVE TSSpec => []TSConsistent
<1>1. EInv /\ TSInv /\ StackList => TSConsistent
  BY OwnersCounted DEF TSInv, TSConsistent
<1> QED
  BY <1>1, SafeDeployment, StackListCorrect, PTL

-----------------------------------------------------------------------------
(* The stack is linearizable *)

Stack == Values(Chain, data)

\* What pop() is to return: it is still to be read after the exchange.
Returned == [t \in Thread |-> IF pc[t] = "pop_take" THEN data[old_head[t]] ELSE result[t]]

\* The calls that are about to return keep their answer.
LEMMA ReturnedKept ==
    SafeDeployment /\ EInv /\ SinglyRetired /\ Tidy /\ TSInv /\ [TSNext]_tsVars
        => \/ Returned' = Returned
           \/ \E t \in Thread : PopCAS(t)
           \/ \E t \in Thread : head = None /\ Returned' = [Returned EXCEPT ![t] = Empty]
<1> SUFFICES ASSUME TSInv, [TSNext]_tsVars
             PROVE  \/ Returned' = Returned
                    \/ \E t \in Thread : PopCAS(t)
                    \/ \E t \in Thread :
                          head = None /\ Returned' = [Returned EXCEPT ![t] = Empty]
  OBVIOUS
<1> USE DEF heapVars, localVars
<1>a. TSTypeOK
  BY DEF TSInv
<1>1. ASSUME NEW t \in Thread, NEW v \in Value, NEW n \in Node, PushAlloc(t, v, n)
      PROVE  Returned' = Returned
  <2>1. \A u \in Thread : pc'[u] = "pop_take" <=> pc[u] = "pop_take"
    BY <1>a, <1>1 DEF PushAlloc, Call, TSTypeOK
  <2>2. \A u \in Thread : pc[u] = "pop_take" => old_head[u] \in Node /\ old_head[u] # n
    BY <1>1 DEF PushAlloc, TSInv, Locals, OneHolder, Mine
  <2>3. \A u \in Thread : pc[u] = "pop_take" => data'[old_head[u]] = data[old_head[u]]
    BY <1>a, <1>1, <2>2 DEF PushAlloc, TSTypeOK
  <2> QED
    BY <1>1, <2>1, <2>3 DEF Returned, PushAlloc
<1>2. ASSUME NEW t \in Thread, PushCAS(t) \/ PushRetry(t) \/ PopCall(t) \/ PopPin(t)
                 \/ PopNext(t) \/ PopRetire(t) \/ PopUnpin(t)
                 \/ AdvanceCall(t) \/ AdvanceReturn(t) \/ Reclaim(t) \/ Delete(t) \/ Drain(t)
      PROVE  Returned' = Returned
  <2>1. \A u \in Thread : pc'[u] = "pop_take" <=> pc[u] = "pop_take"
    BY <1>a, <1>2 DEF PushCAS, PushRetry, PopCall, PopPin, PopNext, PopRetire, PopUnpin,
          AdvanceCall, AdvanceReturn, Reclaim, Delete, Drain, Call, Goto, TSTypeOK
  <2>2. data' = data /\ old_head' = old_head /\ result' = result
    BY <1>2 DEF PushCAS, PushRetry, PopCall, PopPin, PopNext, PopRetire, PopUnpin,
          AdvanceCall, AdvanceReturn, Reclaim, Delete, Drain
  <2> QED
    BY <2>1, <2>2 DEF Returned
<1>3. ASSUME NEW t \in Thread, PopLoad(t) \/ PopRetry(t), head # None
      PROVE  Returned' = Returned
  <2>1. \A u \in Thread : pc'[u] = "pop_take" <=> pc[u] = "pop_take"
    BY <1>a, <1>3 DEF PopLoad, PopRetry, TakeHead, TSTypeOK
  <2>2. \A u \in Thread : pc[u] = "pop_take" => old_head'[u] = old_head[u]
    BY <1>a, <1>3 DEF PopLoad, PopRetry, TakeHead, TSTypeOK
  <2>3. data' = data /\ result' = result
    BY <1>3 DEF PopLoad, PopRetry, TakeHead
  <2> QED
    BY <2>1, <2>2, <2>3 DEF Returned
<1>4. ASSUME NEW t \in Thread, PopLoad(t) \/ PopRetry(t), head = None
      PROVE  Returned' = [Returned EXCEPT ![t] = Empty]
  <2>1. \A u \in Thread : pc'[u] = "pop_take" <=> pc[u] = "pop_take"
    BY <1>a, <1>4 DEF PopLoad, PopRetry, TakeHead, TSTypeOK
  <2>2. \A u \in Thread : pc[u] = "pop_take" => u # t /\ old_head'[u] = old_head[u]
    BY <1>a, <1>4 DEF PopLoad, PopRetry, TakeHead, TSTypeOK
  <2>3. data' = data /\ result' = [result EXCEPT ![t] = Empty]
    BY <1>4 DEF PopLoad, PopRetry, TakeHead
  <2>4. \A u \in Thread : Returned'[u] = IF u = t THEN Empty ELSE Returned[u]
    BY <1>a, <2>1, <2>2, <2>3 DEF Returned, TSTypeOK
  <2>5. Returned' = [u \in Thread |-> Returned'[u]] /\ Returned = [u \in Thread |-> Returned[u]]
    BY DEF Returned
  <2> QED
    BY <2>4, <2>5
<1>5. ASSUME NEW t \in Thread, PopTake(t) PROVE Returned' = Returned
  <2>1. \A u \in Thread : u # t => pc'[u] = pc[u] /\ result'[u] = result[u]
    BY <1>a, <1>5 DEF PopTake, Goto, TSTypeOK
  <2>2. pc[t] = "pop_take" /\ pc'[t] # "pop_take" /\ result'[t] = data[old_head[t]]
    BY <1>a, <1>5 DEF PopTake, Goto, TSTypeOK
  <2>3. data' = data /\ old_head' = old_head
    BY <1>5 DEF PopTake
  <2> QED
    BY <2>1, <2>2, <2>3 DEF Returned
<1>6. CASE UNCHANGED tsVars
  BY <1>6 DEF Returned, tsVars
<1> QED
  BY <1>1, <1>2, <1>3, <1>4, <1>5, <1>6
  DEF TSNext, PushStep, PopStep, ReclaimStep, Terminated

LEMMA StackSteps ==
    SafeDeployment /\ EInv /\ SinglyRetired /\ Tidy /\ TSInv /\ StackList
       /\ [TSNext]_tsVars
        => [Abs!ASNext]_<<Stack, Returned>>
<1> SUFFICES ASSUME SafeDeployment, EInv, SinglyRetired, Tidy, TSInv, StackList,
                    [TSNext]_tsVars
             PROVE  [Abs!ASNext]_<<Stack, Returned>>
  OBVIOUS
<1>0. /\ Chain \in Seq(Node) /\ Len(Chain) \in Nat /\ data \in [Node -> Value]
      /\ \A i \in 1..Len(Chain) : Chain[i] \in Listed
      /\ head = None => Len(Chain) = 0
  BY DEF StackList, IsList, TSInv, TSTypeOK, Listed
<1>1. CASE Kept /\ Chain' = Chain
  <2>1. Stack' = Stack
    <3>1. \A i \in 1..Len(Chain) : data[Chain[i]] = data'[Chain[i]]
      BY <1>0, <1>1 DEF Kept
    <3>2. Values(Chain, data) = Values(Chain, data')
      BY <3>1, SameValues
    <3> QED
      BY <1>1, <3>2 DEF Stack
  <2>2. CASE Returned' = Returned
    BY <2>1, <2>2
  <2>3. ASSUME NEW t \in Thread, head = None, Returned' = [Returned EXCEPT ![t] = Empty]
        PROVE  Abs!ASNext
    <3>1. Stack = << >>
      BY <1>0, <2>3, ValuesFacts DEF Stack
    <3>2. Abs!ASPopEmpty(t)
      BY <2>1, <2>3, <3>1 DEF Abs!ASPopEmpty, Stack, Returned
    <3> QED
      BY <3>2 DEF Abs!ASNext
  <2>4. ASSUME NEW t \in Thread, PopCAS(t) PROVE FALSE
    BY <1>1, <2>4, PopMoves DEF Kept, Listed
  <2> QED
    BY <2>2, <2>3, <2>4, ReturnedKept
<1>2. ASSUME NEW t \in Thread, PushCAS(t), Chain' = <<new_node[t]>> \o Chain
      PROVE  [Abs!ASNext]_<<Stack, Returned>>
  <2>1. new_node[t] \in Node /\ data' = data
    BY <1>2, PushMoves
  <2>2. Stack' = <<data[new_node[t]]>> \o Stack
    BY <1>0, <1>2, <2>1, ValuesPush DEF Stack
  <2>3. Returned' = Returned
    BY <1>2 DEF Returned, PushCAS, Goto, TSInv, TSTypeOK, heapVars, localVars
  <2>4. Abs!ASPush(data[new_node[t]]) /\ data[new_node[t]] \in Value
    BY <1>0, <2>1, <2>2, <2>3 DEF Abs!ASPush, Stack, Returned
  <2> QED
    BY <2>4 DEF Abs!ASNext
<1>3. ASSUME NEW t \in Thread, PopCAS(t), Len(Chain) > 0, Chain[1] = head,
             Chain' = Tail(Chain)
      PROVE  [Abs!ASNext]_<<Stack, Returned>>
  <2>1. old_head[t] = head /\ data' = data
    BY <1>3, PopMoves
  <2>2. Stack # << >> /\ Head(Stack) = data[head] /\ Stack' = Tail(Stack)
    BY <1>0, <1>3, <2>1, ValuesTail DEF Stack
  <2>3. Returned' = [Returned EXCEPT ![t] = data[head]]
    <3>1. /\ pc'[t] = "pop_take" /\ \A u \in Thread : u # t => pc'[u] = pc[u]
          /\ old_head' = old_head /\ result' = result
      BY <1>3 DEF PopCAS, Goto, TSInv, TSTypeOK, localVars
    <3>2. \A u \in Thread : Returned'[u] = IF u = t THEN data[head] ELSE Returned[u]
      BY <2>1, <3>1 DEF Returned
    <3>3. Returned' = [u \in Thread |-> Returned'[u]]
          /\ Returned = [u \in Thread |-> Returned[u]]
      BY DEF Returned
    <3> QED
      BY <3>2, <3>3
  <2>4. Abs!ASPop(t)
    BY <2>2, <2>3 DEF Abs!ASPop, Stack, Returned
  <2> QED
    BY <2>4 DEF Abs!ASNext
<1> QED
  BY <1>1, <1>2, <1>3, ChainStep DEF ChainMoves

\* Every call of push() and pop() takes effect at one instant between its call
\* and its return, as on a stack that one thread uses.
THEOREM LinearizableCorrect == ASSUME SafeDeployment PROVE TSSpec => Linearizable
<1>1. TSInit => Abs!ASInit
  <2> SUFFICES ASSUME TSInit PROVE Abs!ASInit
    OBVIOUS
  <2>1. head = None /\ Listed = {} /\ StackList
    BY StackListInit DEF TSInit, Listed, InStack
  <2>2. Chain = << >>
    BY <2>1, EmptySeq DEF StackList, IsList
  <2>3. Stack = << >>
    BY <2>2 DEF Stack, Values
  <2>4. Returned = [t \in Thread |-> Empty]
    BY DEF TSInit, Returned
  <2> QED
    BY <2>3, <2>4 DEF Abs!ASInit, Stack, Returned
<1>2. EInv /\ SinglyRetired /\ Tidy /\ TSInv /\ StackList /\ [TSNext]_tsVars
        => [Abs!ASNext]_<<Stack, Returned>>
  BY SafeDeployment, StackSteps
<1> QED
  BY <1>1, <1>2, SafeDeployment, StackListCorrect, PTL
  DEF TSSpec, Linearizable, Abs!ASSpec, Stack, Returned
=============================================================================
