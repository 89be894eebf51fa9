--------------------------- MODULE WaitFreeSnapshot ---------------------------
(***************************************************************************)
(* WaitFreeSnapshot of lock_free_and_wait_free_basics.cpp (Afek et al.).   *)
(* A scan collects all registers until two collects agree, or until one    *)
(* writer was seen to move twice, whose embedded snapshot it adopts.       *)
(* update() takes such a scan itself before it stores its register.  One   *)
(* action is one access to a register.                                     *)
(***************************************************************************)
EXTENDS Naturals, FiniteSets

CONSTANTS
    Writer,        \* thread i writes register i
    Reader,        \* threads that only scan
    MaxUpdates,    \* bound: update() turns of each writer
    MaxScans       \* bound: scan() turns of each reader

ASSUME KindsDisjoint == Writer \intersect Reader = {}
ASSUME WritersFinite == IsFiniteSet(Writer)
ASSUME BoundsNat == MaxUpdates \in Nat /\ MaxScans \in Nat

Process == Writer \union Reader

MaxTurns(t) == IF t \in Writer THEN MaxUpdates ELSE MaxScans

VARIABLES
    registers,   \* each register's entry: value, sequence, snapshot
    wpc,          \* where a thread is
    todo,        \* the registers the collect in progress has still to load
    old, new,    \* old_collect and new_collect
    moved,       \* moved
    returned,    \* the snapshot a scan() returned
    turns,       \* update() or scan() turns made
    since        \* history: the states the registers had during the scan

wsVars == <<registers, wpc, todo, old, new, moved, returned, turns, since>>

\* The writers write 1, 2, 3, ...: a value is the number of its update.
Snapshot == [Writer -> 0..MaxUpdates]
Entry == [value : 0..MaxUpdates, sequence : 0..MaxUpdates, snapshot : Snapshot]

Zero == [w \in Writer |-> 0]
InitEntry == [value |-> 0, sequence |-> 0, snapshot |-> Zero]
Written == [w \in Writer |-> registers[w].value]

WSTypeOK ==
    /\ registers \in [Writer -> Entry]
    /\ wpc \in [Process -> {"idle", "collect_old", "collect_new", "compare", "store"}]
    /\ todo \in [Process -> SUBSET Writer]
    /\ old \in [Process -> [Writer -> Entry]]
    /\ new \in [Process -> [Writer -> Entry]]
    /\ moved \in [Process -> SUBSET Writer]
    /\ returned \in [Process -> Snapshot]
    /\ turns \in [Process -> Nat]
    /\ \A t \in Process : turns[t] <= MaxTurns(t)
    /\ since \in [Process -> SUBSET Snapshot]

NoEntries == [w \in Writer |-> InitEntry]

WSInit ==
    /\ registers = NoEntries
    /\ wpc = [t \in Process |-> "idle"]
    /\ todo = [t \in Process |-> {}]
    /\ old = [t \in Process |-> NoEntries]
    /\ new = [t \in Process |-> NoEntries]
    /\ moved = [t \in Process |-> {}]
    /\ returned = [t \in Process |-> Zero]
    /\ turns = [t \in Process |-> 0]
    /\ since = [t \in Process |-> {}]

-----------------------------------------------------------------------------
(* scan(): the registers are loaded in any order, which includes the       *)
(* order of the code's loop.                                               *)

BeginScan(t) ==
    /\ wpc[t] = "idle"
    /\ turns[t] < MaxTurns(t)
    /\ turns' = [turns EXCEPT ![t] = @ + 1]
    /\ wpc' = [wpc EXCEPT ![t] = "collect_old"]
    /\ todo' = [todo EXCEPT ![t] = Writer]
    /\ moved' = [moved EXCEPT ![t] = {}]
    /\ since' = [since EXCEPT ![t] = {Written}]
    /\ UNCHANGED <<registers, old, new, returned>>

CollectOld(t, w) ==
    /\ wpc[t] = "collect_old"
    /\ w \in todo[t]
    /\ old' = [old EXCEPT ![t][w] = registers[w]]
    /\ IF todo[t] = {w}
         THEN /\ wpc' = [wpc EXCEPT ![t] = "collect_new"]
              /\ todo' = [todo EXCEPT ![t] = Writer]
         ELSE /\ todo' = [todo EXCEPT ![t] = @ \ {w}]
              /\ UNCHANGED wpc
    /\ UNCHANGED <<registers, new, moved, returned, turns, since>>

CollectNew(t, w) ==
    /\ wpc[t] = "collect_new"
    /\ w \in todo[t]
    /\ new' = [new EXCEPT ![t][w] = registers[w]]
    /\ todo' = [todo EXCEPT ![t] = @ \ {w}]
    /\ wpc' = [wpc EXCEPT ![t] = IF todo[t] = {w} THEN "compare" ELSE @]
    /\ UNCHANGED <<registers, old, moved, returned, turns, since>>

Mismatches(t) == {w \in Writer : old[t][w].sequence # new[t][w].sequence}

\* The end of a scan; in update() the store of the register is still to come.
Finish(t, snap) ==
    /\ returned' = [returned EXCEPT ![t] = snap]
    /\ wpc' = [wpc EXCEPT ![t] = IF t \in Writer THEN "store" ELSE "idle"]
    /\ old' = [old EXCEPT ![t] = NoEntries]
    /\ new' = [new EXCEPT ![t] = NoEntries]
    /\ moved' = [moved EXCEPT ![t] = {}]
    /\ UNCHANGED <<registers, todo, turns, since>>

\* Mutant: one collect is enough.
CleanCollectOnce(t) ==
    /\ wpc[t] = "compare"
    /\ Finish(t, [w \in Writer |-> new[t][w].value])

\* The two collects agree.
CleanCollect(t) ==
    /\ wpc[t] = "compare"
    /\ Mismatches(t) = {}
    /\ Finish(t, [w \in Writer |-> new[t][w].value])

\* A writer moved twice: the loop returns the first one's embedded snapshot.
Adopt(t) ==
    /\ wpc[t] = "compare"
    /\ \E w \in Mismatches(t) \intersect moved[t] : Finish(t, new[t][w].snapshot)

\* Mutant: the writers that moved are forgotten.
CollectAgainForgetful(t) ==
    /\ wpc[t] = "compare"
    /\ Mismatches(t) # {}
    /\ old' = [old EXCEPT ![t] = new[t]]
    /\ wpc' = [wpc EXCEPT ![t] = "collect_new"]
    /\ todo' = [todo EXCEPT ![t] = Writer]
    /\ UNCHANGED <<registers, new, moved, returned, turns, since>>

CollectAgain(t) ==
    /\ wpc[t] = "compare"
    /\ Mismatches(t) # {}
    /\ Mismatches(t) \intersect moved[t] = {}
    /\ moved' = [moved EXCEPT ![t] = @ \union Mismatches(t)]
    /\ old' = [old EXCEPT ![t] = new[t]]
    /\ wpc' = [wpc EXCEPT ![t] = "collect_new"]
    /\ todo' = [todo EXCEPT ![t] = Writer]
    /\ UNCHANGED <<registers, new, returned, turns, since>>

-----------------------------------------------------------------------------
(* update() *)

Store(w) ==
    /\ wpc[w] = "store"
    /\ registers' = [registers EXCEPT ![w] =
          [value |-> turns[w], sequence |-> @.sequence + 1, snapshot |-> returned[w]]]
    /\ wpc' = [wpc EXCEPT ![w] = "idle"]
    /\ since' = [t \in Process |-> IF wpc[t] = "idle" THEN since[t]
                                     ELSE since[t] \union {Written'}]
    /\ UNCHANGED <<todo, old, new, moved, returned, turns>>

WSTerminated ==
    /\ \A t \in Process : wpc[t] = "idle" /\ turns[t] = MaxTurns(t)
    /\ UNCHANGED wsVars

ScanStep(t) ==
    \/ BeginScan(t)
    \/ \E w \in Writer : CollectOld(t, w) \/ CollectNew(t, w)
    \/ CleanCollect(t) \/ Adopt(t) \/ CollectAgain(t)

WSNext ==
    \/ \E t \in Process : ScanStep(t)
    \/ \E w \in Writer : Store(w)
    \/ WSTerminated

WSSpec == WSInit /\ [][WSNext]_wsVars

-----------------------------------------------------------------------------
(* Properties *)

\* A scan returns an atomic snapshot: the values that all registers held
\* together at one instant between its call and its return, also when it was
\* adopted from a writer.
AtomicSnapshot ==
    \A t \in Process : (turns[t] > 0 /\ wpc[t] \in {"idle", "store"}) => returned[t] \in since[t]

\* A scan is wait-free: it repeats its collect at most once for each writer,
\* since each repetition finds another writer that has moved.
BoundedCollects ==
    [][\A t \in Process :
          (wpc[t] = "compare" /\ wpc'[t] = "collect_new")
              => Cardinality(moved'[t]) > Cardinality(moved[t])]_wsVars
=============================================================================
