--------------------------------- MODULE Rcu ---------------------------------
(***************************************************************************)
(* SimpleRcuEngine of linux_kernel_internals.cpp: readers announce the     *)
(* epoch they read in, an update exchanges the published entry, advances   *)
(* the epoch, waits reader by reader for the ones that may still hold the  *)
(* old entry, and deletes it.                                              *)
(*                                                                         *)
(* One action is one atomic access.  The payload of an entry is left out;  *)
(* an entry is the number of the update that allocated it.                 *)
(***************************************************************************)
EXTENDS Naturals

CONSTANTS
    MaxReaders,   \* MAX_READERS (32 in the code)
    Writer,       \* the threads that call update_route()
    MaxUpdates    \* bound on the number of updates

ASSUME MaxReadersNat == MaxReaders \in Nat
ASSUME MaxUpdatesNat == MaxUpdates \in Nat

Reader == 1..MaxReaders
Entry == 0..MaxUpdates   \* 0 is the entry given to the constructor

VARIABLES
    published_route,  \* published_route_
    global_epoch,     \* global_epoch_
    reader_epochs,    \* reader_epochs_[], 0 when the reader is outside
    rpc,              \* where a reader is: "out", "lock" or "in"
    lock_e,           \* rcu_read_lock's local e
    held,             \* the entries a reader got since its rcu_read_lock
    wpc,              \* where a writer is: "idle", "advance" or "wait"
    old_entry,        \* update_route's local old_entry
    target_epoch,     \* synchronize_rcu's local target_epoch
    next_reader,      \* synchronize_rcu's loop index
    allocated,        \* the entries 0..allocated have been allocated
    freed,            \* the entries deleted
    waits             \* history: readers inside since the entry was replaced

readerVars == <<reader_epochs, rpc, lock_e, held>>
writerVars == <<wpc, old_entry, target_epoch, next_reader>>
rcuVars == <<published_route, global_epoch, readerVars, writerVars,
             allocated, freed, waits>>

RcuInit ==
    /\ published_route = 0
    /\ global_epoch = 0
    /\ reader_epochs = [r \in Reader |-> 0]
    /\ rpc = [r \in Reader |-> "out"]
    /\ lock_e = [r \in Reader |-> 0]
    /\ held = [r \in Reader |-> {}]
    /\ wpc = [w \in Writer |-> "idle"]
    /\ old_entry = [w \in Writer |-> 0]
    /\ target_epoch = [w \in Writer |-> 0]
    /\ next_reader = [w \in Writer |-> 1]
    /\ allocated = 0
    /\ freed = {}
    /\ waits = [x \in Entry |-> {}]

-----------------------------------------------------------------------------
(* Readers.  Read-side sections do not nest: the one slot per reader holds  *)
(* no count.                                                                *)

OrOne(n) == IF n % 2 = 0 THEN n + 1 ELSE n

\* rcu_read_lock(): the relaxed load of the epoch.
ReadLockLoad(r) ==
    /\ rpc[r] = "out"
    /\ rpc' = [rpc EXCEPT ![r] = "lock"]
    /\ lock_e' = [lock_e EXCEPT ![r] = global_epoch]
    /\ UNCHANGED <<published_route, global_epoch, reader_epochs, held,
                   writerVars, allocated, freed, waits>>

\* rcu_read_lock(): the store that makes the reader visible.
ReadLockStore(r) ==
    /\ rpc[r] = "lock"
    /\ rpc' = [rpc EXCEPT ![r] = "in"]
    /\ reader_epochs' = [reader_epochs EXCEPT ![r] = OrOne(lock_e[r])]
    /\ UNCHANGED <<published_route, global_epoch, lock_e, held, writerVars,
                   allocated, freed, waits>>

\* rcu_dereference().
Dereference(r) ==
    /\ rpc[r] = "in"
    /\ held' = [held EXCEPT ![r] = @ \union {published_route}]
    /\ UNCHANGED <<published_route, global_epoch, reader_epochs, rpc, lock_e,
                   writerVars, allocated, freed, waits>>

\* rcu_read_unlock().
ReadUnlock(r) ==
    /\ rpc[r] = "in"
    /\ rpc' = [rpc EXCEPT ![r] = "out"]
    /\ reader_epochs' = [reader_epochs EXCEPT ![r] = 0]
    /\ held' = [held EXCEPT ![r] = {}]
    /\ waits' = [x \in Entry |-> waits[x] \ {r}]
    /\ UNCHANGED <<published_route, global_epoch, lock_e, writerVars,
                   allocated, freed>>

-----------------------------------------------------------------------------
(* Writers.                                                                 *)

Inside == {r \in Reader : rpc[r] = "in"}

\* update_route(): allocate the new entry and exchange the pointer.
Publish(w) ==
    /\ wpc[w] = "idle"
    /\ allocated < MaxUpdates
    /\ allocated' = allocated + 1
    /\ published_route' = allocated + 1
    /\ old_entry' = [old_entry EXCEPT ![w] = published_route]
    /\ wpc' = [wpc EXCEPT ![w] = "advance"]
    /\ waits' = [waits EXCEPT ![published_route] = Inside]
    /\ UNCHANGED <<global_epoch, readerVars, target_epoch, next_reader, freed>>

\* Mutant: the target is the value fetch_add() returns, without the + 2.
AdvanceEpochOldTarget(w) ==
    /\ wpc[w] = "advance"
    /\ global_epoch' = global_epoch + 2
    /\ target_epoch' = [target_epoch EXCEPT ![w] = global_epoch]
    /\ next_reader' = [next_reader EXCEPT ![w] = 1]
    /\ wpc' = [wpc EXCEPT ![w] = "wait"]
    /\ UNCHANGED <<published_route, readerVars, old_entry, allocated, freed,
                   waits>>

\* synchronize_rcu(): fetch_add(2).
AdvanceEpoch(w) ==
    /\ wpc[w] = "advance"
    /\ global_epoch' = global_epoch + 2
    /\ target_epoch' = [target_epoch EXCEPT ![w] = global_epoch + 2]
    /\ next_reader' = [next_reader EXCEPT ![w] = 1]
    /\ wpc' = [wpc EXCEPT ![w] = "wait"]
    /\ UNCHANGED <<published_route, readerVars, old_entry, allocated, freed,
                   waits>>

\* Mutant: only a reader outside every section counts as quiescent.
QuiescentOnlyOutside(w, r) == reader_epochs[r] = 0

\* synchronize_rcu(): one load of a reader's epoch; it yields unless the
\* reader is outside or began after the target epoch.
Quiescent(w, r) == reader_epochs[r] = 0 \/ reader_epochs[r] > target_epoch[w]

ObserveReader(w) ==
    /\ wpc[w] = "wait"
    /\ next_reader[w] \in Reader
    /\ Quiescent(w, next_reader[w])
    /\ next_reader' = [next_reader EXCEPT ![w] = @ + 1]
    /\ UNCHANGED <<published_route, global_epoch, readerVars, wpc, old_entry,
                   target_epoch, allocated, freed, waits>>

\* update_route(): delete old_entry.
Delete(w) ==
    /\ wpc[w] = "wait"
    /\ next_reader[w] = MaxReaders + 1
    /\ freed' = freed \union {old_entry[w]}
    /\ wpc' = [wpc EXCEPT ![w] = "idle"]
    /\ UNCHANGED <<published_route, global_epoch, readerVars, old_entry,
                   target_epoch, next_reader, allocated, waits>>

-----------------------------------------------------------------------------
ReaderNext(r) ==
    ReadLockLoad(r) \/ ReadLockStore(r) \/ Dereference(r) \/ ReadUnlock(r)

WriterNext(w) ==
    Publish(w) \/ AdvanceEpoch(w) \/ ObserveReader(w) \/ Delete(w)

RcuNext ==
    \/ \E r \in Reader : ReaderNext(r)
    \/ \E w \in Writer : WriterNext(w)

RcuSpec == RcuInit /\ [][RcuNext]_rcuVars

(* A reader that has begun to lock is scheduled and its section ends; a     *)
(* writer inside update_route() is scheduled.  Nobody is obliged to begin.  *)
RcuFairSpec ==
    /\ RcuSpec
    /\ \A r \in Reader : WF_rcuVars(ReadLockStore(r)) /\ WF_rcuVars(ReadUnlock(r))
    /\ \A w \in Writer :
        WF_rcuVars(AdvanceEpoch(w) \/ ObserveReader(w) \/ Delete(w))

-----------------------------------------------------------------------------
(* Properties.                                                              *)

\* Every variable keeps its type.
RcuTypeOK ==
    /\ published_route \in Entry
    /\ global_epoch \in Nat
    /\ reader_epochs \in [Reader -> Nat]
    /\ rpc \in [Reader -> {"out", "lock", "in"}]
    /\ lock_e \in [Reader -> Nat]
    /\ held \in [Reader -> SUBSET Entry]
    /\ wpc \in [Writer -> {"idle", "advance", "wait"}]
    /\ old_entry \in [Writer -> Entry]
    /\ target_epoch \in [Writer -> Nat]
    /\ next_reader \in [Writer -> 1..MaxReaders + 1]
    /\ allocated \in Entry
    /\ freed \in SUBSET Entry
    /\ waits \in [Entry -> SUBSET Reader]

\* A reader never holds, inside its section, an entry update_route() deleted.
NoReaderHoldsFreed == \A r \in Reader : held[r] \cap freed = {}

Updating == {w \in Writer : wpc[w] /= "idle"}

\* Writers that race in update_route() replace different entries, so none is
\* deleted twice, and what is neither published nor deleted has a writer that
\* will delete it: nothing leaks.
OneWriterDeletes ==
    /\ \A w1, w2 \in Updating : old_entry[w1] = old_entry[w2] => w1 = w2
    /\ 0..allocated = {published_route} \union freed
                        \union {old_entry[w] : w \in Updating}
    /\ \A w \in Updating : old_entry[w] \notin freed \union {published_route}
    /\ published_route \notin freed

\* synchronize_rcu() is a grace period: an entry is deleted only after every
\* reader that was inside when it was replaced has left.
GP == INSTANCE GracePeriod WITH
        Thread <- Reader,
        Node <- Entry,
        pinned <- Inside,
        retired <- {old_entry[w] : w \in Updating},
        waits <- waits

GracePeriodKept == GP!GPSpec

\* An update ends although readers come and go for ever: readers that begin
\* after the epoch advanced do not delay it.
UpdatesEnd == \A w \in Writer : wpc[w] = "advance" ~> wpc[w] = "idle"

-----------------------------------------------------------------------------
(* The inductive invariant behind the theorems, which MCProgress proves.     *)

\* A reader is visible exactly while it is inside, and only then holds
\* entries; no announced epoch is ahead of the global epoch by more than 1.
ReadersAnnounced ==
    \A r \in Reader :
        /\ reader_epochs[r] /= 0 <=> rpc[r] = "in"
        /\ rpc[r] /= "in" => held[r] = {}
        /\ lock_e[r] <= global_epoch
        /\ reader_epochs[r] <= global_epoch + 1

\* Whom a pending update has still to wait for, its scan has yet to reach and
\* will find in an epoch no later than the target.
WaitersAhead ==
    \A w \in Updating : \A r \in waits[old_entry[w]] :
        /\ rpc[r] = "in"
        /\ wpc[w] = "wait" => next_reader[w] <= r /\ reader_epochs[r] <= target_epoch[w]

\* What a reader holds is published, or was replaced under its eyes.
HeldAccountedFor ==
    \A r \in Reader : \A x \in held[r] :
        \/ x = published_route
        \/ \E w \in Updating : old_entry[w] = x /\ r \in waits[x]

RcuInv ==
    /\ RcuTypeOK
    /\ ReadersAnnounced
    /\ OneWriterDeletes
    /\ WaitersAhead
    /\ HeldAccountedFor

=============================================================================
