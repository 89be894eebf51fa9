---------------------------- MODULE EpochReclaimer ----------------------------
(***************************************************************************)
(* The epoch-based reclaimer of concurrent_queues_and_stacks.cpp: threads  *)
(* pin the global epoch while they hold references, retire what they       *)
(* unlink, and the thread that fills the retired list scans the thread     *)
(* records and frees what no pinned thread can still reach.                *)
(*                                                                         *)
(* One action is one access to shared memory (or one section under         *)
(* retire_mutex_, whose scan is split at every atomic load it makes of     *)
(* another thread's record).  The clients, TreiberStack and                *)
(* MichaelScottQueue, extend this module and take its actions as steps.    *)
(***************************************************************************)
EXTENDS LinkedNodes

CONSTANTS
    AdvanceThreshold,  \* length of retired_list_ from which retire() scans (64 for
                       \* the queues, 32 for an EpochDomain)
    StartEpoch,  \* global_epoch_ when the threads start: 0 in a new reclaimer,
                 \* more after that many calls of try_advance_and_reclaim()
    Stale        \* threads whose thread_local record was registered with an
                 \* earlier reclaimer and is not on this one's list

ASSUME NoneIsNoThread == None \notin Thread
ASSUME AdvanceThresholdPositive == AdvanceThreshold \in Nat \ {0}
ASSUME StartEpochNat == StartEpoch \in Nat
ASSUME StaleThreads == Stale \subseteq Thread

VARIABLES
    global_epoch,    \* global_epoch_
    thread_records,  \* the list from thread_records_head_, oldest record first
    local_epoch,     \* each thread's record: local_epoch
    active,          \* each thread's record: active
    retired_list,    \* retired_list_, the entries [node, retire_epoch]
    retire_mutex,    \* holder of retire_mutex_, or None
    to_free,         \* each thread's to_free, once the lock is released
    rpc,             \* where a thread is in the reclaimer's functions
    reg,             \* g_epoch of pin(), curr_epoch of retire()
    arg,             \* the pointer passed to retire()
    min_active,      \* the lock holder's min_active
    any_active,      \* the lock holder's any_active
    cursor,          \* the lock holder's rec: the records 1..cursor are ahead
    looking,         \* rec->active was read TRUE, rec->local_epoch not yet read
    waits,           \* history: threads pinned since before n was retired
    pinned_at        \* history: global_epoch_ when a thread became active

pinVars == <<thread_records, local_epoch, active>>
scanVars == <<min_active, any_active, cursor, looking>>
listVars == <<retired_list, retire_mutex, to_free, global_epoch>>
histVars == <<waits, pinned_at>>
ebrVars == <<pinVars, scanVars, listVars, rpc, reg, arg, histVars>>

Registered == {thread_records[i] : i \in 1..Len(thread_records)}

\* Nodes handed to retire() and not yet passed to their deleter.
InReclaimer ==
    {arg[t] : t \in {u \in Thread : rpc[u] = "retire_lock"}}
        \union {r.node : r \in retired_list}
        \union UNION {to_free[t] : t \in Thread}

EBRTypeOK ==
    /\ global_epoch \in Nat
    /\ thread_records \in Seq(Thread)
    /\ local_epoch \in [Thread -> Nat]
    /\ active \in [Thread -> BOOLEAN]
    /\ retired_list \in SUBSET [node : Node, retire_epoch : Nat]
    /\ retire_mutex \in Thread \union {None}
    /\ to_free \in [Thread -> SUBSET Node]
    /\ rpc \in [Thread -> {"out", "pin_store", "pin_activate",
                           "retire_lock", "scan", "free"}]
    /\ reg \in [Thread -> Nat]
    /\ arg \in [Thread -> Node \union {None}]
    /\ min_active \in Nat
    /\ any_active \in BOOLEAN
    /\ cursor \in Nat
    /\ looking \in BOOLEAN
    /\ waits \in [Node -> SUBSET Thread]
    /\ pinned_at \in [Thread -> Nat]

EBRInit ==
    /\ global_epoch = StartEpoch
    /\ thread_records = << >>
    /\ local_epoch = [t \in Thread |-> 0]
    /\ active = [t \in Thread |-> FALSE]
    /\ retired_list = {}
    /\ retire_mutex = None
    /\ to_free = [t \in Thread |-> {}]
    /\ rpc = [t \in Thread |-> "out"]
    /\ reg = [t \in Thread |-> 0]
    /\ arg = [t \in Thread |-> None]
    /\ min_active = 0
    /\ any_active = FALSE
    /\ cursor = 0
    /\ looking = FALSE
    /\ waits = [n \in Node |-> {}]
    /\ pinned_at = [t \in Thread |-> 0]

-----------------------------------------------------------------------------
(* pin() and unpin() *)

\* The first pin() of a thread pushes a record on the list; a stale
\* thread finds tls_record_ set and skips this.
Register(t) ==
    /\ rpc[t] = "out"
    /\ t \notin Registered \union Stale
    /\ thread_records' = Append(thread_records, t)
    /\ UNCHANGED <<local_epoch, active, scanVars, listVars, rpc, reg, arg, histVars>>

PinLoad(t) ==
    /\ rpc[t] = "out"
    /\ ~active[t]
    /\ t \in Registered \union Stale
    /\ reg' = [reg EXCEPT ![t] = global_epoch]
    /\ rpc' = [rpc EXCEPT ![t] = "pin_store"]
    /\ UNCHANGED <<pinVars, scanVars, listVars, arg, histVars>>

PinStore(t) ==
    /\ rpc[t] = "pin_store"
    /\ local_epoch' = [local_epoch EXCEPT ![t] = reg[t]]
    /\ rpc' = [rpc EXCEPT ![t] = "pin_activate"]
    /\ UNCHANGED <<thread_records, active, scanVars, listVars, reg, arg, histVars>>

PinActivate(t) ==
    /\ rpc[t] = "pin_activate"
    /\ active' = [active EXCEPT ![t] = TRUE]
    /\ rpc' = [rpc EXCEPT ![t] = "out"]
    /\ pinned_at' = [pinned_at EXCEPT ![t] = global_epoch]
    /\ UNCHANGED <<thread_records, local_epoch, scanVars, listVars, reg, arg, waits>>

Unpin(t) ==
    /\ rpc[t] = "out"
    /\ active[t]
    /\ active' = [active EXCEPT ![t] = FALSE]
    /\ waits' = [n \in Node |-> waits[n] \ {t}]
    /\ pinned_at' = [pinned_at EXCEPT ![t] = 0]
    /\ UNCHANGED <<thread_records, local_epoch, scanVars, listVars, rpc, reg, arg>>

-----------------------------------------------------------------------------
(* retire() and try_advance_and_reclaim() *)

\* The head of try_advance_and_reclaim_locked(): the lock is held and the
\* list of records is entered at its newest record.
BeginScan(t) ==
    /\ retire_mutex' = t
    /\ min_active' = global_epoch
    /\ any_active' = FALSE
    /\ cursor' = Len(thread_records)
    /\ looking' = FALSE
    /\ rpc' = [rpc EXCEPT ![t] = "scan"]

\* retire() reads the epoch before it takes the lock.
RetireEnter(t, n) ==
    /\ rpc[t] = "out"
    /\ n \notin InReclaimer
    /\ reg' = [reg EXCEPT ![t] = global_epoch]
    /\ arg' = [arg EXCEPT ![t] = n]
    /\ rpc' = [rpc EXCEPT ![t] = "retire_lock"]
    /\ waits' = [waits EXCEPT ![n] = {u \in Thread : active[u]}]
    /\ UNCHANGED <<pinVars, scanVars, listVars, pinned_at>>

RetirePush(t) ==
    /\ rpc[t] = "retire_lock"
    /\ retire_mutex = None
    /\ retired_list' = retired_list
                         \union {[node |-> arg[t], retire_epoch |-> reg[t]]}
    /\ \/ /\ Cardinality(retired_list') >= AdvanceThreshold
          /\ BeginScan(t)
       \/ /\ Cardinality(retired_list') < AdvanceThreshold
          /\ rpc' = [rpc EXCEPT ![t] = "out"]
          /\ UNCHANGED <<retire_mutex, scanVars>>
    /\ UNCHANGED <<pinVars, to_free, global_epoch, reg, arg, histVars>>

\* The public try_advance_and_reclaim().
TryAdvance(t) ==
    /\ rpc[t] = "out"
    /\ retire_mutex = None
    /\ BeginScan(t)
    /\ UNCHANGED <<pinVars, retired_list, to_free, global_epoch, reg, arg, histVars>>

\* One turn of the scan: the load of rec->active ...
ScanActive(t) ==
    /\ rpc[t] = "scan" /\ retire_mutex = t
    /\ cursor > 0 /\ ~looking
    /\ IF active[thread_records[cursor]]
         THEN /\ any_active' = TRUE
              /\ looking' = TRUE
              /\ UNCHANGED cursor
         ELSE /\ cursor' = cursor - 1
              /\ UNCHANGED <<any_active, looking>>
    /\ UNCHANGED <<pinVars, min_active, listVars, rpc, reg, arg, histVars>>

\* ... and, when it was TRUE, the load of rec->local_epoch.
ScanLocal(t) ==
    /\ rpc[t] = "scan" /\ retire_mutex = t
    /\ cursor > 0 /\ looking
    /\ LET le == local_epoch[thread_records[cursor]]
       IN  min_active' = IF le < min_active THEN le ELSE min_active
    /\ cursor' = cursor - 1
    /\ looking' = FALSE
    /\ UNCHANGED <<pinVars, any_active, listVars, rpc, reg, arg, histVars>>

\* Mutant: the epoch advances past pinned threads that lag behind it.
MayAdvancePastLaggards == ~any_active \/ min_active <= global_epoch

MayAdvance == ~any_active \/ min_active = global_epoch

\* Mutant: what was retired in the oldest pinned epoch counts as safe.
SafeEpochUpToPinned(curr_epoch) == IF any_active THEN min_active ELSE curr_epoch

SafeEpoch(curr_epoch) ==
    IF any_active /\ min_active > 0 THEN min_active - 1 ELSE curr_epoch

\* The end of the scan: advance the epoch, split the retired list, unlock.
ScanDecide(t) ==
    /\ rpc[t] = "scan" /\ retire_mutex = t
    /\ cursor = 0
    /\ global_epoch' = IF MayAdvance THEN global_epoch + 1 ELSE global_epoch
    /\ LET kept == {r \in retired_list : r.retire_epoch > SafeEpoch(global_epoch')}
           freed == {r.node : r \in retired_list \ kept}
       IN  /\ retired_list' = kept
           /\ to_free' = [to_free EXCEPT ![t] = freed]
           /\ rpc' = [rpc EXCEPT ![t] = IF freed = {} THEN "out" ELSE "free"]
    /\ retire_mutex' = None
    /\ UNCHANGED <<pinVars, scanVars, reg, arg, histVars>>

\* Mutant: the list that is being deleted is not cleared.
DrainAllKeepsList(t) ==
    /\ \A u \in Thread : rpc[u] = "out" /\ ~active[u]
    /\ retired_list # {}
    /\ to_free' = [to_free EXCEPT ![t] = {r.node : r \in retired_list}]
    /\ rpc' = [rpc EXCEPT ![t] = "free"]
    /\ UNCHANGED <<pinVars, scanVars, retired_list, retire_mutex, global_epoch,
                   reg, arg, histVars>>

\* Mutant: the list is cleared and its deleters are never run.
DrainAllLeaks(t) ==
    /\ \A u \in Thread : rpc[u] = "out" /\ ~active[u]
    /\ retired_list # {}
    /\ retired_list' = {}
    /\ UNCHANGED <<pinVars, scanVars, to_free, retire_mutex, global_epoch, rpc,
                   reg, arg, histVars>>

\* drain_all() empties the list without looking at the records; its callers
\* (the destructor and the tests) run it when no thread is pinned or in a call.
DrainAll(t) ==
    /\ \A u \in Thread : rpc[u] = "out" /\ ~active[u]
    /\ retired_list # {}
    /\ to_free' = [to_free EXCEPT ![t] = {r.node : r \in retired_list}]
    /\ retired_list' = {}
    /\ rpc' = [rpc EXCEPT ![t] = "free"]
    /\ UNCHANGED <<pinVars, scanVars, retire_mutex, global_epoch, reg, arg, histVars>>

\* One call of a deleter, outside the lock.
FreeOne(t, n) ==
    /\ rpc[t] = "free"
    /\ n \in to_free[t]
    /\ to_free' = [to_free EXCEPT ![t] = @ \ {n}]
    /\ rpc' = [rpc EXCEPT ![t] = IF to_free[t] = {n} THEN "out" ELSE "free"]
    /\ UNCHANGED <<pinVars, scanVars, retired_list, retire_mutex, global_epoch,
                   reg, arg, histVars>>

-----------------------------------------------------------------------------
(* The reclaimer under its most general client: a thread pins, retires any *)
(* node not already retired, asks for a scan or drains, in any order.      *)

PinStep(t) == Register(t) \/ PinLoad(t) \/ PinStore(t) \/ PinActivate(t) \/ Unpin(t)

ScanStep(t) == ScanActive(t) \/ ScanLocal(t) \/ ScanDecide(t)

EBRStep(t) ==
    \/ PinStep(t)
    \/ ScanStep(t)
    \/ RetirePush(t)
    \/ TryAdvance(t)
    \/ DrainAll(t)
    \/ \E n \in Node : RetireEnter(t, n) \/ FreeOne(t, n)

EBRNext == \E t \in Thread : EBRStep(t)

EBRSpec == EBRInit /\ [][EBRNext]_ebrVars

-----------------------------------------------------------------------------
(* Properties *)

\* No node is on its way to its deleter while a thread that was pinned when
\* retire() was called on it is still in that pinned section.  This is what
\* the choice of safe_epoch in try_advance_and_reclaim_locked() is for.
GraceRespected ==
    \A t \in Thread : \A n \in to_free[t] : waits[n] = {}

\* A retired node is in one place: in one call of retire(), in one entry of
\* the list, or in one thread's to_free, so no deleter runs twice on it.
SinglyRetired ==
    /\ \A t, u \in Thread :
          /\ t # u => to_free[t] \intersect to_free[u] = {}
          /\ (t # u /\ rpc[t] = "retire_lock" /\ rpc[u] = "retire_lock")
                => arg[t] # arg[u]
          /\ rpc[t] = "retire_lock" => arg[t] \notin to_free[u]
    /\ \A r \in retired_list : \A t \in Thread :
          /\ r.node \notin to_free[t]
          /\ rpc[t] = "retire_lock" => arg[t] # r.node
    /\ \A r, s \in retired_list : r.node = s.node => r = s

\* A pinned thread halts the epoch: from the moment its record is active the
\* global epoch moves at most once more, however many scans run and however
\* old the epoch was that the thread had loaded before it became active.
EpochHalts ==
    \A t \in Thread \ Stale :
        active[t] => global_epoch <= pinned_at[t] + 1

\* The reclaimer implements the abstract promise.
GP == INSTANCE GracePeriod
        WITH pinned <- {t \in Thread : active[t]},
             retired <- InReclaimer,
             waits <- waits

GracePeriodSpec == GP!GPSpec
=============================================================================
