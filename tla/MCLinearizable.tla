---------------------------- MODULE MCLinearizable ----------------------------
(***************************************************************************)
(* The structures whose operations must appear to happen at one instant,   *)
(* on small instances: the work-stealing deque, the stack with tagged      *)
(* pointers and the atomic snapshot.  They do not interact; each behaviour *)
(* runs one of them, named by "part".                                      *)
(*                                                                         *)
(* The proofs after that hold for any number of threads, addresses, values *)
(* and calls:                                                              *)
(*                                                                         *)
(*   - the scan() of the atomic snapshot returns the registers as they     *)
(*     stood at one moment of the scan, and its collects are bounded;      *)
(*   - the exchanges on the tagged stack succeed for the node they were    *)
(*     computed for, and while the tags have not wrapped around the stack  *)
(*     loses no address and is linearizable;                               *)
(*   - the work-stealing deque is linearizable, through every growth of    *)
(*     its array and with thieves that read arrays already replaced.       *)
(*                                                                         *)
(* The structures do not interact, nor do their proofs, which the last     *)
(* theorem puts together.                                                  *)
(***************************************************************************)
EXTENDS ChaseLevDeque, TaggedStack, WaitFreeSnapshot, TLC, FiniteSetTheorems, TLAPS

VARIABLE part

vars == <<part, clVars, tgVars, wsVars>>

MCInit ==
    /\ part \in {"deque", "tagged stack", "snapshot"}
    /\ CLInit /\ TGInit /\ WSInit
    /\ part # "tagged stack" => data = [n \in Node |-> CHOOSE v \in Value : TRUE]

MCNext ==
    \/ part = "deque" /\ CLNext /\ UNCHANGED <<part, tgVars, wsVars>>
    \/ part = "tagged stack" /\ TGNext /\ UNCHANGED <<part, clVars, wsVars>>
    \/ part = "snapshot" /\ WSNext /\ UNCHANGED <<part, clVars, tgVars>>

MCSpec == MCInit /\ [][MCNext]_vars

\* The variables keep their types; live items of the deque have a slot each, a
\* thief that will succeed has read the item at the top, and bottom_ is
\* restored after the last item; no exchange on the tagged stack succeeds for a
\* node it was not computed for, and every address has one owner.
StructuresConsistent ==
    /\ CLTypeOK /\ FitsArray /\ NoStaleSteal /\ BottomRestored
    /\ TGTypeOK /\ NoABA /\ OneOwner
    /\ WSTypeOK

Symmetry == Permutations(Thread) \union Permutations(Node)

-----------------------------------------------------------------------------
(* The inductive invariant *)

\* The k-th update of a writer stores the value k under the sequence k.
Counted ==
    \A w \in Writer :
        /\ registers[w].value = registers[w].sequence
        /\ turns[w] = registers[w].sequence + IF wpc[w] = "idle" THEN 0 ELSE 1

Numbered(e) == e.value = e.sequence

Scanning(t) == wpc[t] \in {"collect_old", "collect_new", "compare"}
Comparing(t) == wpc[t] \in {"collect_new", "compare"}

\* The collects, against the state first in which the scan began: registers only
\* move on, and a writer that was seen to move has stored since then.
Collected(t, first) ==
    /\ wpc[t] = "collect_old" =>
          /\ moved[t] = {}
          /\ \A w \in Writer \ todo[t] :
                /\ first[w] <= old[t][w].sequence
                /\ old[t][w].sequence <= registers[w].sequence
    /\ Comparing(t) =>
          /\ \A w \in Writer :
                /\ first[w] <= old[t][w].sequence
                /\ old[t][w].sequence <= registers[w].sequence
                /\ w \in moved[t] => first[w] < old[t][w].sequence
          /\ \A w \in Writer \ todo[t] :
                /\ old[t][w].sequence <= new[t][w].sequence
                /\ new[t][w].sequence <= registers[w].sequence
                /\ first[w] + 1 < new[t][w].sequence => new[t][w].snapshot \in since[t]
    /\ wpc[t] = "compare" => todo[t] = {}

\* The state between the two collects lies between what they find.
Between(t) ==
    Comparing(t) => \E s \in since[t] : \A w \in Writer :
        /\ old[t][w].sequence <= s[w]
        /\ s[w] <= IF w \in todo[t] THEN registers[w].sequence ELSE new[t][w].sequence

\* A writer that has stored since first scans inside t's scan, and one that has
\* stored twice has left a snapshot of t's scan.
Inside(t, first) ==
    \A w \in Writer :
        /\ first[w] <= registers[w].sequence
        /\ first[w] < registers[w].sequence /\ wpc[w] # "idle" => since[w] \subseteq since[t]
        /\ first[w] + 1 < registers[w].sequence => registers[w].snapshot \in since[t]

ScanInv(t) ==
    Scanning(t) =>
        /\ Written \in since[t]
        /\ Between(t)
        /\ \E first \in Snapshot : Collected(t, first) /\ Inside(t, first)

WSInv ==
    /\ WSTypeOK /\ Counted /\ AtomicSnapshot
    /\ \A t \in Process, w \in Writer : Numbered(old[t][w]) /\ Numbered(new[t][w])
    /\ \A t \in Process : ScanInv(t)

-----------------------------------------------------------------------------
(* Every step keeps it *)

LEMMA WSInvInit == WSInit => WSInv
<1> SUFFICES ASSUME WSInit PROVE WSInv
  OBVIOUS
<1> USE BoundsNat DEF WSInit
<1>1. Zero \in Snapshot
  BY DEF Zero, Snapshot
<1>2. InitEntry \in Entry /\ NoEntries \in [Writer -> Entry]
  BY <1>1 DEF InitEntry, Entry, NoEntries
<1>3. WSTypeOK
  BY <1>1, <1>2 DEF WSTypeOK, Process, MaxTurns
<1>4. Counted
  BY DEF Counted, NoEntries, InitEntry, Process
<1>5. \A t \in Process, w \in Writer : Numbered(old[t][w]) /\ Numbered(new[t][w])
  BY DEF Numbered, NoEntries, InitEntry
<1>6. AtomicSnapshot /\ \A t \in Process : ScanInv(t)
  BY DEF AtomicSnapshot, ScanInv, Scanning
<1> QED
  BY <1>3, <1>4, <1>5, <1>6 DEF WSInv

\* What the steps of other threads that store nothing leave of t's scan.
LEMMA OthersKeep ==
    ASSUME WSInv, NEW t \in Process, registers' = registers,
           /\ wpc'[t] = wpc[t] /\ todo'[t] = todo[t] /\ old'[t] = old[t] /\ new'[t] = new[t]
           /\ moved'[t] = moved[t] /\ since'[t] = since[t],
           \A w \in Writer : wpc'[w] # "idle" =>
              since'[w] = {Written} \/ (wpc[w] # "idle" /\ since'[w] = since[w])
    PROVE  ScanInv(t)'
<1> SUFFICES ASSUME Scanning(t)' PROVE ScanInv(t)'
  BY DEF ScanInv
<1>1. Scanning(t) /\ ScanInv(t)
  BY DEF Scanning, WSInv
<1>2. PICK first \in Snapshot : Collected(t, first) /\ Inside(t, first)
  BY <1>1 DEF ScanInv
<1>3. Written' = Written /\ Written \in since[t] /\ Between(t)
  BY <1>1 DEF ScanInv, Written
<1>4. Between(t)'
  BY <1>3 DEF Between, Comparing
<1>5. Collected(t, first)'
  BY <1>2 DEF Collected, Comparing
<1>6. Inside(t, first)'
  BY <1>2, <1>3 DEF Inside
<1> QED
  BY <1>3, <1>4, <1>5, <1>6 DEF ScanInv, Collected, Inside

\* The parts of the invariant that no step of a scan touches.
LEMMA QuietKeeps ==
    ASSUME WSInv, NEW t \in Process, registers' = registers, turns' = turns,
           since' = since, returned' = returned, wpc[t] # "idle",
           \A u \in Process : u # t => wpc'[u] = wpc[u],
           Scanning(t)'
    PROVE  Counted' /\ AtomicSnapshot'
<1>1. \A u \in Process : wpc'[u] = "idle" <=> wpc[u] = "idle"
  BY DEF Scanning
<1>2. Counted'
  BY <1>1 DEF WSInv, Counted, Process
<1>3. AtomicSnapshot'
  BY <1>1 DEF WSInv, AtomicSnapshot, Scanning
<1> QED
  BY <1>2, <1>3

LEMMA BeginKeeps == ASSUME WSInv, NEW t \in Process, BeginScan(t) PROVE WSInv'
<1> USE DEF Process
<1>0. WSTypeOK /\ Counted /\ AtomicSnapshot
  BY DEF WSInv
<1>1. Written \in Snapshot
  BY <1>0 DEF WSTypeOK, Written, Snapshot, Entry
<1>2. /\ registers' = registers /\ old' = old /\ new' = new /\ returned' = returned
      /\ Written' = Written
  BY DEF BeginScan, Written
<1>3. /\ wpc'[t] = "collect_old" /\ todo'[t] = Writer /\ moved'[t] = {} /\ since'[t] = {Written}
      /\ turns'[t] = turns[t] + 1 /\ wpc[t] = "idle"
  BY <1>0 DEF BeginScan, WSTypeOK
<1>4. ASSUME NEW u \in Process, u # t
      PROVE  /\ wpc'[u] = wpc[u] /\ todo'[u] = todo[u] /\ moved'[u] = moved[u]
             /\ since'[u] = since[u] /\ turns'[u] = turns[u]
  BY <1>0, <1>4 DEF BeginScan, WSTypeOK
<1>5. WSTypeOK'
  <2>1. /\ registers' \in [Writer -> Entry] /\ old' \in [Process -> [Writer -> Entry]]
        /\ new' \in [Process -> [Writer -> Entry]] /\ returned' \in [Process -> Snapshot]
        /\ moved' \in [Process -> SUBSET Writer] /\ todo' \in [Process -> SUBSET Writer]
    BY <1>0, <1>2 DEF BeginScan, WSTypeOK
  <2>2. since' \in [Process -> SUBSET Snapshot]
    BY <1>0, <1>1 DEF BeginScan, WSTypeOK
  <2>3. wpc' \in [Process -> {"idle", "collect_old", "collect_new", "compare", "store"}]
    BY <1>0 DEF BeginScan, WSTypeOK
  <2>4. turns' \in [Process -> Nat] /\ \A u \in Process : turns'[u] <= MaxTurns(u)
    BY <1>0, <1>3, <1>4, BoundsNat DEF BeginScan, WSTypeOK, MaxTurns
  <2> QED
    BY <2>1, <2>2, <2>3, <2>4 DEF WSTypeOK
<1>6. Counted'
  <2>1. \A w \in Writer : registers[w].sequence \in Nat
    BY <1>0 DEF WSTypeOK, Entry
  <2>2. \A w \in Writer :
           turns'[w] = registers[w].sequence + IF wpc'[w] = "idle" THEN 0 ELSE 1
    BY <1>0, <1>3, <1>4, <2>1 DEF Counted
  <2> QED
    BY <1>0, <1>2, <2>2 DEF Counted
<1>7. AtomicSnapshot'
  BY <1>0, <1>2, <1>3, <1>4 DEF AtomicSnapshot
<1>8. ASSUME NEW u \in Process PROVE ScanInv(u)'
  <2>1. CASE u # t
    BY <1>2, <1>3, <1>4, <2>1, OthersKeep
  <2>2. CASE u = t
    <3>1. Collected(t, Written)' /\ Between(t)'
      BY <1>3 DEF Collected, Between, Comparing
    <3>2. Inside(t, Written)'
      BY <1>0, <1>2, <1>3 DEF Inside, Written, Counted, WSTypeOK, Entry
    <3>3. PICK first : first = Written
      OBVIOUS
    <3> QED
      BY <1>1, <1>2, <1>3, <2>2, <3>1, <3>2 DEF ScanInv, Collected, Inside
  <2> QED
    BY <2>1, <2>2
<1>9. \A u \in Process, w \in Writer : Numbered(old'[u][w]) /\ Numbered(new'[u][w])
  BY <1>2 DEF WSInv
<1> QED
  BY <1>5, <1>6, <1>7, <1>8, <1>9 DEF WSInv, Numbered

LEMMA CollectOldKeeps ==
    ASSUME WSInv, NEW t \in Process, NEW w \in Writer, CollectOld(t, w) PROVE WSInv'
<1> USE DEF Process
<1>0. WSTypeOK
  BY DEF WSInv
<1>1. /\ registers' = registers /\ new' = new /\ moved' = moved /\ returned' = returned
      /\ turns' = turns /\ since' = since /\ Written' = Written
  BY DEF CollectOld, Written
<1>2. /\ wpc[t] = "collect_old" /\ w \in todo[t]
      /\ \A v \in Writer : old'[t][v] = IF v = w THEN registers[v] ELSE old[t][v]
      /\ wpc'[t] = "collect_old" => todo'[t] = todo[t] \ {w}
      /\ wpc'[t] = "collect_new" => todo[t] = {w} /\ todo'[t] = Writer
      /\ wpc'[t] \in {"collect_old", "collect_new"}
  BY <1>0 DEF CollectOld, WSTypeOK
<1>3. ASSUME NEW u \in Process, u # t
      PROVE  wpc'[u] = wpc[u] /\ todo'[u] = todo[u] /\ old'[u] = old[u]
  BY <1>0, <1>3 DEF CollectOld, WSTypeOK
<1>4. WSTypeOK'
  <2>1. old' \in [Process -> [Writer -> Entry]]
    BY <1>0 DEF CollectOld, WSTypeOK
  <2>2. wpc' \in [Process -> {"idle", "collect_old", "collect_new", "compare", "store"}]
    BY <1>0 DEF CollectOld, WSTypeOK
  <2>3. todo' \in [Process -> SUBSET Writer]
    <3>1. CASE todo' = [todo EXCEPT ![t] = Writer]
      BY <1>0, <3>1 DEF WSTypeOK
    <3>2. CASE todo' = [todo EXCEPT ![t] = @ \ {w}]
      BY <1>0, <3>2 DEF WSTypeOK
    <3> QED
      BY <3>1, <3>2 DEF CollectOld
  <2> QED
    BY <1>0, <1>1, <2>1, <2>2, <2>3 DEF WSTypeOK
<1>5. Counted' /\ AtomicSnapshot'
  BY <1>1, <1>2, <1>3, QuietKeeps DEF Scanning
<1>6. ASSUME NEW u \in Process PROVE ScanInv(u)'
  <2>1. CASE u # t
    <3>1. \A v \in Writer : wpc'[v] # "idle" => wpc[v] # "idle"
      BY <1>2, <1>3
    <3> QED
      BY <1>1, <1>3, <2>1, <3>1, OthersKeep
  <2>2. CASE u = t
    <3>1. PICK first \in Snapshot : Collected(t, first) /\ Inside(t, first)
      BY <1>2 DEF WSInv, ScanInv, Scanning
    <3>2. Written \in since[t]
      BY <1>2 DEF WSInv, ScanInv, Scanning
    <3>3. \A v \in Writer : registers[v].sequence \in Nat /\ first[v] \in Nat
                            /\ Written[v] = registers[v].sequence
      BY <1>0 DEF WSInv, WSTypeOK, Entry, Snapshot, Written, Counted
    <3>4. Inside(t, first)'
      BY <1>1, <1>2, <1>3, <3>1 DEF Inside
    <3>5. \A v \in Writer \ todo'[t] : /\ first[v] <= old'[t][v].sequence
                                       /\ old'[t][v].sequence <= registers[v].sequence
      BY <1>2, <3>1, <3>3 DEF Collected, Inside
    <3>6. ASSUME wpc'[t] = "collect_new", NEW v \in Writer
          PROVE  /\ first[v] <= old'[t][v].sequence
                 /\ old'[t][v].sequence <= registers[v].sequence
      BY <1>2, <3>1, <3>3, <3>6 DEF Collected, Inside
    <3>7. Collected(t, first)'
      BY <1>1, <1>2, <3>1, <3>5, <3>6 DEF Collected, Comparing
    <3>8. Between(t)'
      BY <1>1, <1>2, <3>2, <3>3, <3>6 DEF Between, Comparing
    <3> QED
      BY <1>1, <2>2, <3>2, <3>4, <3>7, <3>8 DEF ScanInv, Collected, Inside
  <2> QED
    BY <2>1, <2>2
<1>7. \A u \in Process, v \in Writer : Numbered(old'[u][v]) /\ Numbered(new'[u][v])
  BY <1>1, <1>2, <1>3 DEF WSInv, Numbered, Counted
<1> QED
  BY <1>4, <1>5, <1>6, <1>7 DEF WSInv, Numbered

LEMMA CollectNewKeeps ==
    ASSUME WSInv, NEW t \in Process, NEW w \in Writer, CollectNew(t, w) PROVE WSInv'
<1> USE DEF Process
<1>0. WSTypeOK
  BY DEF WSInv
<1>1. /\ registers' = registers /\ old' = old /\ moved' = moved /\ returned' = returned
      /\ turns' = turns /\ since' = since /\ Written' = Written
  BY DEF CollectNew, Written
<1>2. /\ wpc[t] = "collect_new" /\ w \in todo[t] /\ todo'[t] = todo[t] \ {w}
      /\ \A v \in Writer : new'[t][v] = IF v = w THEN registers[v] ELSE new[t][v]
      /\ wpc'[t] = "compare" => todo'[t] = {}
      /\ wpc'[t] \in {"collect_new", "compare"}
  BY <1>0 DEF CollectNew, WSTypeOK
<1>3. ASSUME NEW u \in Process, u # t
      PROVE  wpc'[u] = wpc[u] /\ todo'[u] = todo[u] /\ new'[u] = new[u]
  BY <1>0, <1>3 DEF CollectNew, WSTypeOK
<1>4. WSTypeOK'
  <2>1. new' \in [Process -> [Writer -> Entry]]
    BY <1>0 DEF CollectNew, WSTypeOK
  <2>2. /\ wpc' \in [Process -> {"idle", "collect_old", "collect_new", "compare", "store"}]
        /\ todo' \in [Process -> SUBSET Writer]
    BY <1>0 DEF CollectNew, WSTypeOK
  <2> QED
    BY <1>0, <1>1, <2>1, <2>2 DEF WSTypeOK
<1>5. Counted' /\ AtomicSnapshot'
  BY <1>1, <1>2, <1>3, QuietKeeps DEF Scanning
<1>6. ASSUME NEW u \in Process PROVE ScanInv(u)'
  <2>1. CASE u # t
    <3>1. \A v \in Writer : wpc'[v] # "idle" => wpc[v] # "idle"
      BY <1>2, <1>3
    <3> QED
      BY <1>1, <1>3, <2>1, <3>1, OthersKeep
  <2>2. CASE u = t
    <3>1. PICK first \in Snapshot : Collected(t, first) /\ Inside(t, first)
      BY <1>2 DEF WSInv, ScanInv, Scanning
    <3>2. Written \in since[t] /\ Between(t)
      BY <1>2 DEF WSInv, ScanInv, Scanning
    <3>4. Inside(t, first)'
      BY <1>1, <1>2, <1>3, <3>1 DEF Inside
    <3>5. ASSUME NEW v \in Writer \ todo'[t]
          PROVE  /\ old[t][v].sequence <= new'[t][v].sequence
                 /\ new'[t][v].sequence <= registers[v].sequence
                 /\ first[v] + 1 < new'[t][v].sequence => new'[t][v].snapshot \in since[t]
      <4>1. CASE v = w
        <5>1. registers[v].sequence \in Nat
          BY <1>0 DEF WSTypeOK, Entry
        <5> QED
          BY <1>2, <3>1, <4>1, <5>1 DEF Collected, Inside, Comparing
      <4>2. CASE v # w
        BY <1>2, <3>1, <4>2 DEF Collected, Comparing
      <4> QED
        BY <4>1, <4>2
    <3>6. Collected(t, first)'
      BY <1>1, <1>2, <3>1, <3>5 DEF Collected, Comparing
    <3>7. Between(t)'
      <4>1. PICK s \in since[t] : \A v \in Writer :
               /\ old[t][v].sequence <= s[v]
               /\ s[v] <= IF v \in todo[t] THEN registers[v].sequence ELSE new[t][v].sequence
        BY <1>2, <3>2 DEF Between, Comparing
      <4>2. \A v \in Writer :
               s[v] <= IF v \in todo'[t] THEN registers[v].sequence ELSE new'[t][v].sequence
        BY <1>2, <4>1
      <4> QED
        BY <1>1, <4>1, <4>2 DEF Between
    <3> QED
      BY <1>1, <2>2, <3>2, <3>4, <3>6, <3>7 DEF ScanInv, Collected, Inside
  <2> QED
    BY <2>1, <2>2
<1>7. \A u \in Process, v \in Writer : Numbered(old'[u][v]) /\ Numbered(new'[u][v])
  BY <1>1, <1>2, <1>3 DEF WSInv, Numbered, Counted
<1> QED
  BY <1>4, <1>5, <1>6, <1>7 DEF WSInv, Numbered

\* What the two ways out of a scan share.
LEMMA FinishKeeps ==
    ASSUME WSInv, NEW t \in Process, NEW snap \in Snapshot, wpc[t] = "compare",
           snap \in since[t], Finish(t, snap)
    PROVE  WSInv'
<1> USE DEF Process
<1>0. WSTypeOK
  BY DEF WSInv
<1>1. /\ registers' = registers /\ todo' = todo /\ turns' = turns /\ since' = since
      /\ Written' = Written
  BY DEF Finish, Written
<1>2. /\ wpc'[t] = IF t \in Writer THEN "store" ELSE "idle"
      /\ returned'[t] = snap /\ old'[t] = NoEntries /\ new'[t] = NoEntries
  BY <1>0 DEF Finish, WSTypeOK
<1>3. ASSUME NEW u \in Process, u # t
      PROVE  /\ wpc'[u] = wpc[u] /\ old'[u] = old[u] /\ new'[u] = new[u]
             /\ moved'[u] = moved[u] /\ returned'[u] = returned[u]
  BY <1>0, <1>3 DEF Finish, WSTypeOK
<1>4. WSTypeOK'
  <2>1. NoEntries \in [Writer -> Entry]
    BY BoundsNat DEF NoEntries, InitEntry, Entry, Zero, Snapshot
  <2>2. old' \in [Process -> [Writer -> Entry]] /\ new' \in [Process -> [Writer -> Entry]]
    BY <1>0, <2>1 DEF Finish, WSTypeOK
  <2>3. wpc' \in [Process -> {"idle", "collect_old", "collect_new", "compare", "store"}]
    BY <1>0 DEF Finish, WSTypeOK
  <2>4. returned' \in [Process -> Snapshot] /\ moved' \in [Process -> SUBSET Writer]
    BY <1>0 DEF Finish, WSTypeOK
  <2> QED
    BY <1>0, <1>1, <2>2, <2>3, <2>4 DEF WSTypeOK
<1>5. Counted'
  BY <1>1, <1>2, <1>3 DEF WSInv, Counted
<1>6. AtomicSnapshot'
  BY <1>1, <1>2, <1>3 DEF WSInv, AtomicSnapshot
<1>7. ASSUME NEW u \in Process PROVE ScanInv(u)'
  <2>1. CASE u # t
    <3>1. \A v \in Writer : wpc'[v] # "idle" => wpc[v] # "idle"
      BY <1>3
    <3> QED
      BY <1>1, <1>3, <2>1, <3>1, OthersKeep
  <2>2. CASE u = t
    BY <1>2, <2>2 DEF ScanInv, Scanning
  <2> QED
    BY <2>1, <2>2
<1>8. \A u \in Process, v \in Writer : Numbered(old'[u][v]) /\ Numbered(new'[u][v])
  BY <1>2, <1>3 DEF WSInv, Numbered, NoEntries, InitEntry
<1> QED
  BY <1>4, <1>5, <1>6, <1>7, <1>8 DEF WSInv, Numbered

\* Two collects that agree have found the state between them.
LEMMA CleanKeeps == ASSUME WSInv, NEW t \in Process, CleanCollect(t) PROVE WSInv'
<1>1. wpc[t] = "compare" /\ todo[t] = {} /\ Between(t) /\ WSTypeOK
  BY DEF CleanCollect, WSInv, ScanInv, Scanning, Collected
<1>2. PICK s \in since[t] : \A w \in Writer :
         old[t][w].sequence <= s[w] /\ s[w] <= new[t][w].sequence
  BY <1>1 DEF Between, Comparing
<1>3. /\ s \in Snapshot
      /\ \A w \in Writer : old[t][w].sequence \in Nat /\ new[t][w].sequence \in Nat
                           /\ s[w] \in Nat
  BY <1>1 DEF WSTypeOK, Snapshot, Entry
<1>4. \A w \in Writer : old[t][w].sequence = new[t][w].sequence
  BY DEF CleanCollect, Mismatches
<1>5. \A w \in Writer : new[t][w].value = new[t][w].sequence
  BY DEF WSInv, Numbered
<1>6. \A w \in Writer : s[w] = new[t][w].value
  BY <1>2, <1>3, <1>4, <1>5
<1>7. s = [w \in Writer |-> new[t][w].value]
  BY <1>3, <1>6 DEF Snapshot
<1> QED
  BY <1>1, <1>3, <1>7, FinishKeeps DEF CleanCollect

\* A writer seen to move twice has scanned inside this scan.
LEMMA AdoptKeeps == ASSUME WSInv, NEW t \in Process, Adopt(t) PROVE WSInv'
<1>1. wpc[t] = "compare" /\ todo[t] = {} /\ WSTypeOK
  BY DEF Adopt, WSInv, ScanInv, Scanning, Collected
<1>2. PICK w \in Mismatches(t) \intersect moved[t] : Finish(t, new[t][w].snapshot)
  BY DEF Adopt
<1>3. PICK first \in Snapshot : Collected(t, first)
  BY <1>1 DEF WSInv, ScanInv, Scanning
<1>4. /\ w \in Writer /\ w \in moved[t] /\ old[t][w].sequence # new[t][w].sequence
      /\ first[w] \in Nat /\ old[t][w].sequence \in Nat /\ new[t][w].sequence \in Nat
      /\ new[t][w].snapshot \in Snapshot
  BY <1>1, <1>2 DEF Mismatches, WSTypeOK, Entry, Snapshot
<1>5. first[w] < old[t][w].sequence /\ old[t][w].sequence <= new[t][w].sequence
  BY <1>1, <1>3, <1>4 DEF Collected, Comparing
<1>6. first[w] + 1 < new[t][w].sequence
  BY <1>4, <1>5
<1>7. new[t][w].snapshot \in since[t]
  BY <1>1, <1>3, <1>4, <1>6 DEF Collected, Comparing
<1> QED
  BY <1>1, <1>2, <1>4, <1>7, FinishKeeps

LEMMA AgainKeeps == ASSUME WSInv, NEW t \in Process, CollectAgain(t) PROVE WSInv'
<1> USE DEF Process
<1>0. WSTypeOK
  BY DEF WSInv
<1>1. /\ registers' = registers /\ new' = new /\ returned' = returned
      /\ turns' = turns /\ since' = since /\ Written' = Written
  BY DEF CollectAgain, Written
<1>2. /\ wpc[t] = "compare" /\ wpc'[t] = "collect_new" /\ todo'[t] = Writer
      /\ old'[t] = new[t] /\ moved'[t] = moved[t] \union Mismatches(t)
  BY <1>0 DEF CollectAgain, WSTypeOK
<1>3. ASSUME NEW u \in Process, u # t
      PROVE  /\ wpc'[u] = wpc[u] /\ todo'[u] = todo[u] /\ old'[u] = old[u]
             /\ moved'[u] = moved[u]
  BY <1>0, <1>3 DEF CollectAgain, WSTypeOK
<1>4. WSTypeOK'
  <2>1. Mismatches(t) \subseteq Writer
    BY DEF Mismatches
  <2>2. old' \in [Process -> [Writer -> Entry]]
    BY <1>0 DEF CollectAgain, WSTypeOK
  <2>3. wpc' \in [Process -> {"idle", "collect_old", "collect_new", "compare", "store"}]
    BY <1>0 DEF CollectAgain, WSTypeOK
  <2>4. moved' \in [Process -> SUBSET Writer]
    BY <1>0, <2>1 DEF CollectAgain, WSTypeOK
  <2>5. todo' \in [Process -> SUBSET Writer]
    BY <1>0 DEF CollectAgain, WSTypeOK
  <2> QED
    BY <1>0, <1>1, <2>2, <2>3, <2>4, <2>5 DEF WSTypeOK
<1>5. Counted' /\ AtomicSnapshot'
  BY <1>1, <1>2, <1>3, QuietKeeps DEF Scanning
<1>6. ASSUME NEW u \in Process PROVE ScanInv(u)'
  <2>1. CASE u # t
    <3>1. \A v \in Writer : wpc'[v] # "idle" => wpc[v] # "idle"
      BY <1>2, <1>3
    <3> QED
      BY <1>1, <1>3, <2>1, <3>1, OthersKeep
  <2>2. CASE u = t
    <3>1. PICK first \in Snapshot : Collected(t, first) /\ Inside(t, first)
      BY <1>2 DEF WSInv, ScanInv, Scanning
    <3>2. Written \in since[t] /\ todo[t] = {}
      BY <1>2, <3>1 DEF WSInv, ScanInv, Scanning, Collected
    <3>3. \A v \in Writer :
             /\ Written[v] = registers[v].sequence
             /\ first[v] \in Nat /\ old[t][v].sequence \in Nat /\ new[t][v].sequence \in Nat
      BY <1>0 DEF WSInv, WSTypeOK, Entry, Snapshot, Written, Counted
    <3>4. Inside(t, first)'
      BY <1>1, <1>2, <1>3, <3>1 DEF Inside
    <3>5. ASSUME NEW v \in Writer
          PROVE  /\ first[v] <= new[t][v].sequence
                 /\ new[t][v].sequence <= registers[v].sequence
                 /\ v \in moved'[t] => first[v] < new[t][v].sequence
      <4>1. /\ first[v] <= old[t][v].sequence
            /\ v \in moved[t] => first[v] < old[t][v].sequence
            /\ old[t][v].sequence <= new[t][v].sequence
            /\ new[t][v].sequence <= registers[v].sequence
        BY <1>2, <3>1, <3>2 DEF Collected, Comparing
      <4>2. v \in moved'[t] => v \in moved[t] \/ old[t][v].sequence # new[t][v].sequence
        BY <1>2 DEF Mismatches
      <4>3. registers[v].sequence \in Nat
        BY <1>0 DEF WSTypeOK, Entry
      <4> QED
        BY <3>3, <4>1, <4>2, <4>3
    <3>6. Collected(t, first)'
      BY <1>1, <1>2, <3>5 DEF Collected, Comparing
    <3>7. Between(t)'
      <4>1. \A v \in Writer : Written[v] <= registers[v].sequence
        BY <1>0, <3>3 DEF WSTypeOK, Entry
      <4>2. \A v \in Writer : new[t][v].sequence <= Written[v]
        BY <3>3, <3>5
      <4> QED
        BY <1>1, <1>2, <3>2, <4>1, <4>2 DEF Between, Comparing
    <3> QED
      BY <1>1, <2>2, <3>2, <3>4, <3>6, <3>7 DEF ScanInv, Collected, Inside
  <2> QED
    BY <2>1, <2>2
<1>7. \A u \in Process, v \in Writer : Numbered(old'[u][v]) /\ Numbered(new'[u][v])
  BY <1>1, <1>2, <1>3 DEF WSInv, Numbered
<1> QED
  BY <1>4, <1>5, <1>6, <1>7 DEF WSInv, Numbered

LEMMA StoreKeeps == ASSUME WSInv, NEW w \in Writer, Store(w) PROVE WSInv'
<1> USE DEF Process
<1> DEFINE stored == [value |-> turns[w], sequence |-> registers[w].sequence + 1,
                      snapshot |-> returned[w]]
<1>0. WSTypeOK /\ wpc[w] = "store"
  BY DEF WSInv, Store
<1>1. /\ todo' = todo /\ old' = old /\ new' = new /\ moved' = moved
      /\ returned' = returned /\ turns' = turns
  BY DEF Store
<1>2. \A v \in Writer : registers'[v] = IF v = w THEN stored ELSE registers[v]
  BY <1>0 DEF Store, WSTypeOK
<1>3. \A u \in Process : wpc'[u] = IF u = w THEN "idle" ELSE wpc[u]
  BY <1>0 DEF Store, WSTypeOK
<1>4. \A u \in Process :
         since'[u] = IF wpc[u] = "idle" THEN since[u] ELSE since[u] \union {Written'}
  BY DEF Store
<1>5. /\ turns[w] = registers[w].sequence + 1 /\ turns[w] \in 0..MaxUpdates
      /\ returned[w] \in since[w] /\ returned[w] \in Snapshot
  <2>0. registers[w].sequence \in Nat
    BY <1>0 DEF WSTypeOK, Entry
  <2>1. turns[w] = registers[w].sequence + 1
    BY <1>0, <2>0 DEF WSInv, Counted
  <2>2. turns[w] \in 0..MaxUpdates
    BY <1>0, BoundsNat DEF WSTypeOK, MaxTurns
  <2>3. turns[w] > 0
    BY <2>0, <2>1
  <2> QED
    BY <1>0, <2>1, <2>2, <2>3 DEF WSInv, AtomicSnapshot, WSTypeOK
<1>6. stored \in Entry
  BY <1>5 DEF Entry
<1>7. Written' \in Snapshot
  <2>1. registers' \in [Writer -> Entry]
    BY <1>0, <1>6 DEF Store, WSTypeOK
  <2> QED
    BY <2>1 DEF Written, Entry, Snapshot
<1>8. WSTypeOK'
  <2>1. registers' \in [Writer -> Entry]
    BY <1>0, <1>6 DEF Store, WSTypeOK
  <2>2. wpc' \in [Process -> {"idle", "collect_old", "collect_new", "compare", "store"}]
    BY <1>0 DEF Store, WSTypeOK
  <2>3. since' \in [Process -> SUBSET Snapshot]
    <3>1. \A u \in Process : since'[u] \in SUBSET Snapshot
      <4> TAKE u \in Process
      <4>1. since[u] \subseteq Snapshot
        BY <1>0 DEF WSTypeOK
      <4>2. since'[u] = since[u] \/ since'[u] = since[u] \union {Written'}
        BY <1>4
      <4> QED
        BY <1>7, <4>1, <4>2
    <3>2. since' = [u \in Process |-> since'[u]]
      BY DEF Store
    <3> QED
      BY <3>1, <3>2
  <2> QED
    BY <1>0, <1>1, <2>1, <2>2, <2>3 DEF WSTypeOK
<1>9. Counted'
  BY <1>1, <1>2, <1>3, <1>5 DEF WSInv, Counted
<1>10. AtomicSnapshot'
  <2> SUFFICES ASSUME NEW u \in Process, turns[u] > 0, wpc'[u] \in {"idle", "store"}
               PROVE  returned[u] \in since'[u]
    BY <1>1 DEF AtomicSnapshot
  <2>1. wpc[u] \in {"idle", "store"}
    BY <1>0, <1>3
  <2> QED
    BY <1>4, <2>1 DEF WSInv, AtomicSnapshot
<1>11. \A v \in Writer : /\ registers[v].sequence \in Nat
                         /\ registers'[v].sequence
                               = IF v = w THEN registers[v].sequence + 1
                                 ELSE registers[v].sequence
  BY <1>0, <1>2 DEF WSTypeOK, Entry
<1>12. ASSUME NEW t \in Process PROVE ScanInv(t)'
  <2> SUFFICES ASSUME Scanning(t)' PROVE ScanInv(t)'
    BY DEF ScanInv
  <2>1. /\ Scanning(t) /\ wpc'[t] = wpc[t] /\ t # w
        /\ since'[t] = since[t] \union {Written'}
    BY <1>3, <1>4 DEF Scanning
  <2>2. PICK first \in Snapshot : Collected(t, first) /\ Inside(t, first)
    BY <2>1 DEF WSInv, ScanInv
  <2>3. Written' \in since'[t] /\ Between(t)
    BY <2>1 DEF WSInv, ScanInv
  <2>4. \A v \in Writer :
           /\ first[v] \in Nat /\ old[t][v].sequence \in Nat /\ new[t][v].sequence \in Nat
    BY <1>0 DEF WSTypeOK, Entry, Snapshot
  <2>5. Collected(t, first)'
    <3>1. \A n \in Nat, v \in Writer :
             n <= registers[v].sequence => n <= registers'[v].sequence
      BY <1>11
    <3> QED
      BY <1>1, <2>1, <2>2, <2>4, <3>1 DEF Collected, Comparing
  <2>6. Between(t)'
    <3> SUFFICES ASSUME Comparing(t) PROVE Between(t)'
      BY <2>1 DEF Between, Comparing
    <3>1. PICK s \in since[t] : \A v \in Writer :
             /\ old[t][v].sequence <= s[v]
             /\ s[v] <= IF v \in todo[t] THEN registers[v].sequence ELSE new[t][v].sequence
      BY <2>3 DEF Between
    <3>2. \A v \in Writer : s[v] \in Nat
      BY <1>0, <3>1 DEF WSTypeOK, Snapshot
    <3>3. \A v \in Writer :
             s[v] <= IF v \in todo[t] THEN registers'[v].sequence ELSE new[t][v].sequence
      BY <1>11, <3>1, <3>2
    <3> QED
      BY <1>1, <2>1, <3>1, <3>3 DEF Between
  <2>7. ASSUME NEW v \in Writer
        PROVE  /\ first[v] <= registers'[v].sequence
               /\ first[v] < registers'[v].sequence /\ wpc'[v] # "idle"
                     => since'[v] \subseteq since'[t]
               /\ first[v] + 1 < registers'[v].sequence
                     => registers'[v].snapshot \in since'[t]
    <3>1. CASE v = w
      <4>1. first[v] <= registers'[v].sequence /\ wpc'[v] = "idle"
        BY <1>3, <1>11, <2>2, <2>4, <3>1 DEF Inside
      <4>2. ASSUME first[v] + 1 < registers'[v].sequence
            PROVE  registers'[v].snapshot \in since'[t]
        <5>1. first[v] < registers[v].sequence
          BY <1>11, <2>4, <3>1, <4>2
        <5>2. since[v] \subseteq since[t]
          BY <1>0, <2>2, <3>1, <5>1 DEF Inside
        <5>3. registers'[v].snapshot = returned[v]
          BY <1>2, <3>1
        <5> QED
          BY <1>5, <2>1, <3>1, <5>2, <5>3
      <4> QED
        BY <4>1, <4>2
    <3>2. CASE v # w
      <4>1. registers'[v] = registers[v] /\ wpc'[v] = wpc[v]
        BY <1>2, <1>3, <3>2
      <4>2. wpc[v] # "idle" => since'[v] = since[v] \union {Written'}
        BY <1>4
      <4> QED
        BY <2>1, <2>2, <4>1, <4>2 DEF Inside
    <3> QED
      BY <3>1, <3>2
  <2>8. Inside(t, first)'
    BY <2>7 DEF Inside
  <2> QED
    BY <2>3, <2>5, <2>6, <2>8 DEF ScanInv, Collected, Inside
<1>13. \A u \in Process, v \in Writer : Numbered(old'[u][v]) /\ Numbered(new'[u][v])
  BY <1>1 DEF WSInv
<1> QED
  BY <1>8, <1>9, <1>10, <1>12, <1>13 DEF WSInv, Numbered

LEMMA WSInvStep == WSInv /\ [WSNext]_wsVars => WSInv'
<1> SUFFICES ASSUME WSInv, [WSNext]_wsVars PROVE WSInv'
  OBVIOUS
<1>1. CASE UNCHANGED wsVars
  <2>1. WSTypeOK' /\ Counted' /\ AtomicSnapshot'
    BY <1>1 DEF wsVars, WSInv, WSTypeOK, Counted, AtomicSnapshot
  <2>2. \A t \in Process : ScanInv(t)'
    BY <1>1, OthersKeep DEF wsVars
  <2>3. \A t \in Process, w \in Writer : Numbered(old'[t][w]) /\ Numbered(new'[t][w])
    BY <1>1 DEF wsVars, WSInv
  <2> QED
    BY <2>1, <2>2, <2>3 DEF WSInv, Numbered
<1> QED
  BY <1>1, BeginKeeps, CollectOldKeeps, CollectNewKeeps, CleanKeeps, AdoptKeeps, AgainKeeps,
     StoreKeeps DEF WSNext, ScanStep, WSTerminated

LEMMA WSInvCorrect == WSSpec => []WSInv
  BY WSInvInit, WSInvStep, PTL DEF WSSpec

\* The values a scan returns stood in the registers together at one instant of
\* the scan, for any number of writers, readers and updates.
THEOREM AtomicSnapshotCorrect == WSSpec => []AtomicSnapshot
<1>1. WSInv => AtomicSnapshot
  BY DEF WSInv
<1> QED
  BY <1>1, WSInvCorrect, PTL

\* Every further collect has seen one more writer move, so there are at most as
\* many as writers.
THEOREM BoundedCollectsCorrect == WSSpec => BoundedCollects
<1>1. ASSUME WSTypeOK, [WSNext]_wsVars, NEW t \in Process,
             wpc[t] = "compare", wpc'[t] = "collect_new"
      PROVE  Cardinality(moved'[t]) > Cardinality(moved[t])
  <2>1. CollectAgain(t)
    <3>1. UNCHANGED wsVars => wpc'[t] = wpc[t]
      BY DEF wsVars
    <3>2. \A u \in Process : ScanStep(u) /\ u # t => wpc'[t] = wpc[t]
      BY <1>1 DEF ScanStep, BeginScan, CollectOld, CollectNew, CleanCollect, Adopt, CollectAgain,
                  Finish, WSTypeOK
    <3>3. \A w \in Writer : ~(Store(w) /\ w = t) /\ (Store(w) => wpc'[t] = wpc[t])
      BY <1>1 DEF Store, WSTypeOK, Process
    <3>4. ScanStep(t) => CollectAgain(t)
      BY <1>1 DEF ScanStep, BeginScan, CollectOld, CollectNew, CleanCollect, Adopt, Finish,
                  WSTypeOK
    <3> QED
      BY <1>1, <3>1, <3>2, <3>3, <3>4 DEF WSNext, WSTerminated
  <2>2. /\ moved'[t] = moved[t] \union Mismatches(t)
        /\ Mismatches(t) # {} /\ Mismatches(t) \intersect moved[t] = {}
        /\ moved[t] \subseteq Writer /\ Mismatches(t) \subseteq Writer
    BY <1>1, <2>1 DEF CollectAgain, Mismatches, WSTypeOK
  <2>3. IsFiniteSet(moved'[t])
    BY <2>2, WritersFinite, FS_Subset
  <2>4. /\ Cardinality(moved[t]) <= Cardinality(moved'[t])
        /\ Cardinality(moved[t]) # Cardinality(moved'[t])
        /\ Cardinality(moved[t]) \in Nat /\ Cardinality(moved'[t]) \in Nat
    BY <2>2, <2>3, FS_Subset, FS_CardinalityType
  <2> QED
    BY <2>4
<1>2. WSInv /\ [WSNext]_wsVars
        => [\A t \in Process :
              (wpc[t] = "compare" /\ wpc'[t] = "collect_new")
                 => Cardinality(moved'[t]) > Cardinality(moved[t])]_wsVars
  BY <1>1 DEF WSInv
<1> QED
  BY <1>2, WSInvCorrect, PTL DEF WSSpec, BoundedCollects
-----------------------------------------------------------------------------
(* The inductive invariant of the tagged stack *)

\* n is in t's hands: in a push() that has not linked it, or in a pop() that
\* has unlinked it and not deleted it.
Mine(t, n) ==
    \/ tpc[t] = "push_cas" /\ new_node[t] = n
    \/ tpc[t] \in {"pop_take", "pop_delete"} /\ cur[t].ptr = n

InStack(n) == n \in Node /\ n \notin free /\ \A t \in Thread : ~Mine(t, n)

Listed == {n \in Node : InStack(n)}

TGLocals ==
    \A t \in Thread :
        /\ tpc[t] = "push_cas" => new_node[t] \in Node
        /\ tpc[t] \in {"pop_next", "pop_cas", "pop_take", "pop_delete"} => cur[t].ptr \in Node

OneHolder ==
    \A t \in Thread, n \in Node : Mine(t, n) =>
        n \notin free /\ \A u \in Thread : Mine(u, n) => u = t

\* Along nx from h, inside L: no two nodes have the same successor, and none has h.
Shape(h, nx, L) ==
    /\ h # None => h \in L
    /\ \A n \in L : nx[n] # None =>
          /\ nx[n] \in L
          /\ nx[n] # h
          /\ \A m \in L : nx[m] = nx[n] => m = n

ListShape == Shape(head.ptr, next, Listed)

\* Up to the first wrap-around the tag counts the exchanges, so a thread whose
\* word carries the present tag has missed none: the word is the head, and the
\* successor it has read is still the successor.
TagsCount ==
    /\ head.tag = exchanges
    /\ \A t \in Thread : tpc[t] \in {"push_cas", "pop_next", "pop_cas"} =>
          /\ cur[t].tag <= exchanges
          /\ cur[t].tag = exchanges => cur[t] = head
          /\ tpc[t] = "push_cas" => next[new_node[t]] = cur[t].ptr
          /\ tpc[t] = "pop_cas" /\ cur[t].tag = exchanges => nxt[t] = next[head.ptr]

TGTyped == TGTypeOK /\ TGLocals

TGInv == TGTyped /\ OneHolder /\ ListShape /\ TagsCount

TGInvUnwrapped == exchanges < TagModulus => TGInv

-----------------------------------------------------------------------------
(* Types, also after the tag has wrapped around *)

LEMMA DesiredFacts ==
    ASSUME NEW p \in Pointer, NEW c \in Packed
    PROVE  /\ Desired(p, c) \in Packed
           /\ Desired(p, c).ptr = p
           /\ c.tag + 1 < TagModulus => Desired(p, c).tag = c.tag + 1
<1>1. \A a \in Nat, b \in Nat \ {0} : a % b \in 0..(b - 1) /\ (a < b => a % b = a)
  OBVIOUS
<1>2. c.tag + 1 \in Nat
  BY TagModulusPositive DEF Packed, Tag
<1>3. (c.tag + 1) % TagModulus \in 0..(TagModulus - 1)
  BY <1>1, <1>2, TagModulusPositive
<1>4. c.tag + 1 < TagModulus => (c.tag + 1) % TagModulus = c.tag + 1
  BY <1>1, <1>2, TagModulusPositive
<1> QED
  BY <1>3, <1>4 DEF Desired, Packed, Tag

LEMMA TypedInit == TGInit => TGTyped
<1> SUFFICES ASSUME TGInit PROVE TGTyped
  OBVIOUS
<1>1. Nil \in Packed
  BY TagModulusPositive DEF Nil, Packed, Pointer, Tag
<1>2. TGTypeOK
  BY <1>1, MaxCallsNat DEF TGInit, TGTypeOK, Pointer
<1> QED
  BY <1>2 DEF TGInit, TGTyped, TGLocals

LEMMA TypedStep == TGTyped /\ [TGNext]_tgVars => TGTyped'
<1> SUFFICES ASSUME TGTyped, [TGNext]_tgVars PROVE TGTyped'
  OBVIOUS
<1>0. TGTypeOK /\ TGLocals
  BY DEF TGTyped
<1> USE DEF heapVars, tgLocals, TGGoto
<1>1. ASSUME NEW t \in Thread, NEW v \in Value, NEW n \in Node, PushAlloc(t, v, n)
      PROVE  TGTyped'
  <2>1. head.ptr \in Pointer
    BY <1>0 DEF TGTypeOK, Packed
  <2>2. TGTypeOK'
    <3>1. next' \in [Node -> Pointer] /\ data' \in [Node -> Value] /\ free' \in SUBSET Node
      BY <1>0, <1>1, <2>1 DEF PushAlloc, TGTypeOK
    <3>2. new_node' \in [Thread -> Pointer] /\ cur' \in [Thread -> Packed]
      BY <1>0, <1>1 DEF PushAlloc, TGTypeOK, Pointer
    <3>3. tpc' \in [Thread -> {"idle", "push_cas", "pop_next", "pop_cas", "pop_take", "pop_delete"}]
      BY <1>0, <1>1 DEF PushAlloc, TGTypeOK
    <3>4. calls' \in [Thread -> 0..MaxCalls]
      BY <1>0, <1>1, MaxCallsNat DEF PushAlloc, Call, TGTypeOK
    <3> QED
      BY <1>0, <1>1, <3>1, <3>2, <3>3, <3>4 DEF PushAlloc, TGTypeOK
  <2>3. TGLocals'
    BY <1>0, <1>1 DEF PushAlloc, TGTypeOK, TGLocals
  <2> QED
    BY <2>2, <2>3 DEF TGTyped
<1>2. ASSUME NEW t \in Thread, PushCAS(t) PROVE TGTyped'
  <2>1. head' \in Packed
    BY <1>0, <1>2, DesiredFacts DEF PushCAS, Exchange, TGTypeOK
  <2>2. TGTypeOK'
    BY <1>0, <1>2, <2>1 DEF PushCAS, Exchange, TGTypeOK
  <2>3. TGLocals'
    BY <1>0, <1>2 DEF PushCAS, TGTypeOK, TGLocals
  <2> QED
    BY <2>2, <2>3 DEF TGTyped
<1>3. ASSUME NEW t \in Thread, PushRetry(t) PROVE TGTyped'
  <2>1. head.ptr \in Pointer
    BY <1>0 DEF TGTypeOK, Packed
  <2>2. TGTypeOK'
    BY <1>0, <1>3, <2>1 DEF PushRetry, TGTypeOK
  <2>3. TGLocals'
    BY <1>0, <1>3 DEF PushRetry, TGTypeOK, TGLocals
  <2> QED
    BY <2>2, <2>3 DEF TGTyped
<1>4. ASSUME NEW t \in Thread, PopCall(t) \/ PopRetry(t) PROVE TGTyped'
  <2>1. calls' \in [Thread -> 0..MaxCalls]
    BY <1>0, <1>4, MaxCallsNat DEF PopCall, Call, PopRetry, TGTypeOK
  <2>2. TakeHead(t)
    BY <1>4 DEF PopCall, PopRetry
  <2>3. head.ptr \in Pointer
    BY <1>0 DEF TGTypeOK, Packed
  <2>4. TGTypeOK'
    BY <1>0, <2>1, <2>2 DEF TakeHead, TGTypeOK
  <2>5. TGLocals'
    BY <1>0, <2>2, <2>3 DEF TakeHead, TGTypeOK, TGLocals, Pointer
  <2> QED
    BY <2>4, <2>5 DEF TGTyped
<1>5. ASSUME NEW t \in Thread, PopNext(t) PROVE TGTyped'
  <2>1. PICK p \in Pointer : nxt' = [nxt EXCEPT ![t] = p]
    BY <1>0, <1>5 DEF PopNext, TGTypeOK, TGLocals
  <2>2. TGTypeOK'
    BY <1>0, <1>5, <2>1 DEF PopNext, TGTypeOK
  <2>3. TGLocals'
    BY <1>0, <1>5 DEF PopNext, TGTypeOK, TGLocals
  <2> QED
    BY <2>2, <2>3 DEF TGTyped
<1>6. ASSUME NEW t \in Thread, PopCAS(t) PROVE TGTyped'
  <2>1. head' \in Packed
    BY <1>0, <1>6, DesiredFacts DEF PopCAS, Exchange, TGTypeOK
  <2>2. TGTypeOK'
    BY <1>0, <1>6, <2>1 DEF PopCAS, Exchange, TGTypeOK
  <2>3. TGLocals'
    BY <1>0, <1>6 DEF PopCAS, TGTypeOK, TGLocals
  <2> QED
    BY <2>2, <2>3 DEF TGTyped
<1>7. ASSUME NEW t \in Thread, PopTake(t) PROVE TGTyped'
  <2>1. TGTypeOK'
    BY <1>0, <1>7 DEF PopTake, TGTypeOK, TGLocals
  <2>2. TGLocals'
    BY <1>0, <1>7 DEF PopTake, TGTypeOK, TGLocals
  <2> QED
    BY <2>1, <2>2 DEF TGTyped
<1>8. ASSUME NEW t \in Thread, PopDelete(t) PROVE TGTyped'
  <2>1. TGTypeOK'
    BY <1>0, <1>8 DEF PopDelete, TGTypeOK, TGLocals
  <2>2. TGLocals'
    BY <1>0, <1>8 DEF PopDelete, TGTypeOK, TGLocals
  <2> QED
    BY <2>1, <2>2 DEF TGTyped
<1>9. CASE UNCHANGED tgVars
  BY <1>0, <1>9 DEF tgVars, TGTypeOK, TGLocals, TGTyped
<1> QED
  BY <1>1, <1>2, <1>3, <1>4, <1>5, <1>6, <1>7, <1>8, <1>9 DEF TGNext, TGStep, Terminated

\* The state is well typed for any number of threads, addresses, tags and calls.
LEMMA TypedCorrect == TGSpec => []TGTyped
  BY TypedInit, TypedStep, PTL DEF TGSpec

-----------------------------------------------------------------------------
(* The rest of the invariant, before the tag wraps around *)

LEMMA ShapeMoves ==
    ASSUME NEW h, NEW nx, NEW L, None \notin L, Shape(h, nx, L)
    PROVE  /\ \A my : (\A n \in L : my[n] = nx[n]) => Shape(h, my, L)
           /\ \A n : n \notin L /\ n # None /\ nx[n] = h => Shape(n, nx, L \union {n})
           /\ h \in L => Shape(nx[h], nx, L \ {h})
  BY DEF Shape

LEMMA InvInit == TGInit => TGInv
<1> SUFFICES ASSUME TGInit PROVE TGInv
  OBVIOUS
<1>1. \A t \in Thread, n \in Node : ~Mine(t, n)
  BY DEF TGInit, Mine
<1>2. \A n \in Node : ~InStack(n)
  BY DEF TGInit, InStack
<1>3. ListShape
  BY <1>2 DEF TGInit, ListShape, Nil, Shape, Listed
<1>4. TagsCount
  BY DEF TGInit, TagsCount, Nil
<1> QED
  BY <1>1, <1>3, <1>4, TypedInit DEF TGInv, OneHolder

LEMMA PushAllocKeeps ==
    ASSUME TGInv, NEW t \in Thread, NEW v \in Value, NEW n \in Node, PushAlloc(t, v, n)
    PROVE  OneHolder' /\ ListShape' /\ TagsCount'
<1> USE DEF heapVars, tgLocals, TGGoto
<1>0. TGTypeOK /\ TGLocals /\ n \in free
  BY DEF TGInv, TGTyped, PushAlloc
<1>1. /\ head' = head /\ free' = free \ {n} /\ nxt' = nxt /\ exchanges' = exchanges
      /\ \A m \in Node : next'[m] = IF m = n THEN head.ptr ELSE next[m]
      /\ \A u \in Thread : new_node'[u] = IF u = t THEN n ELSE new_node[u]
      /\ \A u \in Thread : cur'[u] = IF u = t THEN head ELSE cur[u]
      /\ \A u \in Thread : tpc'[u] = IF u = t THEN "push_cas" ELSE tpc[u]
      /\ tpc[t] = "idle"
  BY <1>0 DEF PushAlloc, Call, TGTypeOK
<1>2. \A u \in Thread, m \in Node : Mine(u, m)' <=> Mine(u, m) \/ (u = t /\ m = n)
  BY <1>1 DEF Mine
<1>3. \A u \in Thread : ~Mine(u, n)
  BY <1>0 DEF TGInv, OneHolder
<1>4. OneHolder'
  BY <1>1, <1>2, <1>3 DEF TGInv, OneHolder, Mine
<1>5. \A m \in Node : InStack(m)' <=> InStack(m)
  BY <1>0, <1>1, <1>2 DEF InStack
<1>6. ~InStack(n)
  BY <1>0 DEF InStack
<1>7. head.ptr \in Pointer
  BY <1>0 DEF TGTypeOK, Packed
<1>8. ListShape'
  <2>1. Listed' = Listed /\ n \notin Listed /\ None \notin Listed
    BY <1>5, <1>6, NoneIsNoNode DEF Listed
  <2>2. \A m \in Listed : next'[m] = next[m]
    BY <1>1, <2>1 DEF Listed
  <2>3. Shape(head.ptr, next, Listed)
    BY DEF TGInv, ListShape
  <2>4. Shape(head.ptr, next', Listed)
    <3>1. \A my : (\A m \in Listed : my[m] = next[m]) => Shape(head.ptr, my, Listed)
      BY <2>1, <2>3, ShapeMoves
    <3> QED
      BY <2>2, <3>1
  <2> QED
    BY <1>1, <2>1, <2>4 DEF ListShape
<1>9. TagsCount'
  <2>1. head'.tag = exchanges' /\ exchanges \in Nat
    BY <1>0, <1>1 DEF TGInv, TagsCount, TGTypeOK
  <2>2. ASSUME NEW u \in Thread, tpc'[u] \in {"push_cas", "pop_next", "pop_cas"}
        PROVE  /\ cur'[u].tag <= exchanges'
               /\ cur'[u].tag = exchanges' => cur'[u] = head'
               /\ tpc'[u] = "push_cas" => next'[new_node'[u]] = cur'[u].ptr
               /\ tpc'[u] = "pop_cas" /\ cur'[u].tag = exchanges'
                     => nxt'[u] = next'[head'.ptr]
    <3>1. CASE u = t
      BY <1>1, <2>1, <3>1
    <3>2. CASE u # t
      <4>1. tpc[u] = "push_cas" => new_node[u] \in Node /\ new_node[u] # n
        BY <1>0, <1>3 DEF TGLocals, Mine
      <4>2. tpc[u] = "pop_cas" /\ cur[u].tag = exchanges => head.ptr \in Node /\ head.ptr # n
        <5> SUFFICES ASSUME tpc[u] = "pop_cas", cur[u].tag = exchanges
                     PROVE  head.ptr \in Node /\ head.ptr # n
          OBVIOUS
        <5>1. cur[u] = head /\ cur[u].ptr \in Node
          BY <1>0 DEF TGInv, TagsCount, TGLocals
        <5>2. InStack(head.ptr)
          BY <5>1, NoneIsNoNode DEF TGInv, ListShape, Shape, Listed
        <5> QED
          BY <1>6, <5>1, <5>2
      <4> QED
        BY <1>1, <2>2, <3>2, <4>1, <4>2 DEF TGInv, TagsCount
    <3> QED
      BY <3>1, <3>2
  <2> QED
    BY <2>1, <2>2 DEF TagsCount
<1> QED
  BY <1>4, <1>8, <1>9

LEMMA PushCASKeeps ==
    ASSUME TGInv, NEW t \in Thread, PushCAS(t), exchanges' < TagModulus
    PROVE  OneHolder' /\ ListShape' /\ TagsCount'
<1> USE DEF heapVars, tgLocals, TGGoto
<1>0. TGTypeOK /\ TGLocals
  BY DEF TGInv, TGTyped
<1>1. /\ next' = next /\ free' = free /\ new_node' = new_node /\ cur' = cur /\ nxt' = nxt
      /\ exchanges' = exchanges + 1 /\ head = cur[t]
      /\ \A u \in Thread : tpc'[u] = IF u = t THEN "idle" ELSE tpc[u]
      /\ tpc[t] = "push_cas"
  BY <1>0 DEF PushCAS, Exchange, TGTypeOK
<1>2. PICK n \in Node : n = new_node[t]
  BY <1>0, <1>1 DEF TGLocals
<1>3. /\ Mine(t, n) /\ next[n] = head.ptr /\ head.tag = exchanges
      /\ head.ptr \in Pointer /\ exchanges \in Nat
  BY <1>0, <1>1, <1>2 DEF Mine, TGInv, TagsCount, TGTypeOK, Packed
<1>4. head'.ptr = n /\ head'.tag = exchanges'
  <2>1. head' = Desired(n, head) /\ n \in Pointer /\ head \in Packed
    BY <1>0, <1>1, <1>2 DEF PushCAS, Exchange, TGTypeOK, Pointer
  <2> QED
    BY <1>1, <1>3, <2>1, DesiredFacts
<1>5. \A u \in Thread, m \in Node : Mine(u, m)' <=> Mine(u, m) /\ u # t
  BY <1>1 DEF Mine
<1>6. OneHolder'
  BY <1>1, <1>5 DEF TGInv, OneHolder
<1>7. \A m \in Node : Mine(t, m) => m = n
  BY <1>1, <1>2 DEF Mine
<1>8. \A m \in Node : InStack(m)' <=> InStack(m) \/ m = n
  BY <1>1, <1>3, <1>5, <1>7 DEF InStack, TGInv, OneHolder
<1>9. ~InStack(n)
  BY <1>3 DEF InStack
<1>10. ListShape'
  <2>1. Listed' = Listed \union {n} /\ n \notin Listed /\ None \notin Listed /\ n # None
    BY <1>8, <1>9, NoneIsNoNode DEF Listed
  <2> QED
    BY <1>1, <1>3, <1>4, <2>1, ShapeMoves DEF TGInv, ListShape
<1>11. TagsCount'
  <2>1. ASSUME NEW u \in Thread, tpc'[u] \in {"push_cas", "pop_next", "pop_cas"}
        PROVE  u # t /\ cur[u].tag <= exchanges /\ cur[u].tag \in Nat
    BY <1>0, <1>1, <2>1 DEF TGInv, TagsCount, TGTypeOK, Packed, Tag
  <2>2. ASSUME NEW u \in Thread, tpc'[u] \in {"push_cas", "pop_next", "pop_cas"}
        PROVE  cur'[u].tag <= exchanges' /\ cur'[u].tag # exchanges'
    BY <1>1, <1>3, <2>1, <2>2
  <2>3. ASSUME NEW u \in Thread, tpc'[u] = "push_cas"
        PROVE  next'[new_node'[u]] = cur'[u].ptr
    BY <1>1, <2>3 DEF TGInv, TagsCount
  <2> QED
    BY <1>4, <2>2, <2>3 DEF TagsCount
<1> QED
  BY <1>6, <1>10, <1>11

\* In the middle of an exchange that is going to succeed the head is on the list.
LEMMA CurrentInStack ==
    ASSUME TGInv, NEW t \in Thread, tpc[t] \in {"pop_next", "pop_cas"},
           cur[t].tag = exchanges
    PROVE  cur[t] = head /\ head.ptr \in Listed
  BY NoneIsNoNode DEF TGInv, TGTyped, TGLocals, TagsCount, ListShape, Shape

LEMMA PushRetryKeeps ==
    ASSUME TGInv, NEW t \in Thread, PushRetry(t)
    PROVE  OneHolder' /\ ListShape' /\ TagsCount'
<1> USE DEF heapVars, tgLocals, TGGoto
<1>0. TGTypeOK /\ TGLocals
  BY DEF TGInv, TGTyped
<1>1. /\ head' = head /\ free' = free /\ tpc' = tpc /\ new_node' = new_node
      /\ nxt' = nxt /\ exchanges' = exchanges /\ tpc[t] = "push_cas"
      /\ \A m \in Node : next'[m] = IF m = new_node[t] THEN head.ptr ELSE next[m]
      /\ \A u \in Thread : cur'[u] = IF u = t THEN head ELSE cur[u]
  BY <1>0 DEF PushRetry, TGTypeOK
<1>2. PICK n \in Node : n = new_node[t]
  BY <1>0, <1>1 DEF TGLocals
<1>3. \A u \in Thread, m \in Node : Mine(u, m)' <=> Mine(u, m)
  BY <1>1 DEF Mine
<1>4. OneHolder'
  BY <1>1, <1>3 DEF TGInv, OneHolder
<1>5. \A m \in Node : InStack(m)' <=> InStack(m)
  BY <1>1, <1>3 DEF InStack
<1>6. Mine(t, n) /\ ~InStack(n)
  BY <1>1, <1>2 DEF InStack, Mine
<1>7. Listed' = Listed /\ n \notin Listed /\ None \notin Listed
  BY <1>5, <1>6, NoneIsNoNode DEF Listed
<1>8. ListShape'
  <2>1. \A m \in Listed : next'[m] = next[m]
    BY <1>1, <1>2, <1>7 DEF Listed
  <2> QED
    BY <1>1, <1>7, <2>1, ShapeMoves DEF TGInv, ListShape
<1>9. TagsCount'
  <2>1. head.tag = exchanges /\ exchanges \in Nat
    BY <1>0 DEF TGInv, TagsCount, TGTypeOK
  <2>2. ASSUME NEW u \in Thread, tpc[u] \in {"push_cas", "pop_next", "pop_cas"}
        PROVE  /\ cur'[u].tag <= exchanges
               /\ cur'[u].tag = exchanges => cur'[u] = head
               /\ tpc[u] = "push_cas" => next'[new_node[u]] = cur'[u].ptr
               /\ tpc[u] = "pop_cas" /\ cur'[u].tag = exchanges => nxt[u] = next'[head.ptr]
    <3>1. CASE u = t
      BY <1>1, <1>2, <2>1, <3>1
    <3>2. CASE u # t
      <4>1. tpc[u] = "push_cas" => new_node[u] \in Node /\ new_node[u] # n
        BY <1>0, <1>6, <3>2 DEF TGLocals, Mine, TGInv, OneHolder
      <4>2. tpc[u] = "pop_cas" /\ cur[u].tag = exchanges => head.ptr \in Node /\ head.ptr # n
        BY <1>7, CurrentInStack DEF Listed
      <4> QED
        BY <1>1, <1>2, <2>2, <3>2, <4>1, <4>2 DEF TGInv, TagsCount
    <3> QED
      BY <3>1, <3>2
  <2> QED
    BY <1>1, <2>1, <2>2 DEF TagsCount
<1> QED
  BY <1>4, <1>8, <1>9

\* The steps that touch no node and take none.
LEMMA StillKeeps ==
    ASSUME TGInv, NEW t \in Thread, head' = head, next' = next, free' = free,
           new_node' = new_node, exchanges' = exchanges,
           \A u \in Thread : u # t => tpc'[u] = tpc[u] /\ cur'[u] = cur[u] /\ nxt'[u] = nxt[u],
           \/ tpc'[t] = "idle" /\ tpc[t] \in {"idle", "pop_cas"}
           \/ tpc'[t] = "pop_next" /\ tpc[t] \in {"idle", "pop_cas"} /\ cur'[t] = head
           \/ /\ tpc'[t] = "pop_cas" /\ tpc[t] = "pop_next" /\ cur'[t] = cur[t]
              /\ cur[t].tag = exchanges => nxt'[t] = next[head.ptr]
           \/ tpc'[t] = "pop_delete" /\ tpc[t] = "pop_take" /\ cur'[t] = cur[t]
    PROVE  OneHolder' /\ ListShape' /\ TagsCount'
<1>1. \A u \in Thread, m \in Node : Mine(u, m)' <=> Mine(u, m)
  BY DEF Mine
<1>2. OneHolder'
  BY <1>1 DEF TGInv, OneHolder
<1>3. Listed' = Listed
  BY <1>1 DEF InStack, Listed
<1>4. ListShape'
  BY <1>3 DEF TGInv, ListShape
<1>5. TagsCount'
  <2>1. head.tag = exchanges /\ exchanges \in Nat
    BY DEF TGInv, TGTyped, TagsCount, TGTypeOK
  <2>2. ASSUME NEW u \in Thread, tpc'[u] \in {"push_cas", "pop_next", "pop_cas"}
        PROVE  /\ cur'[u].tag <= exchanges
               /\ cur'[u].tag = exchanges => cur'[u] = head
               /\ tpc'[u] = "push_cas" => next[new_node[u]] = cur'[u].ptr
               /\ tpc'[u] = "pop_cas" /\ cur'[u].tag = exchanges => nxt'[u] = next[head.ptr]
    BY <2>1, <2>2 DEF TGInv, TagsCount
  <2> QED
    BY <2>1, <2>2 DEF TagsCount
<1> QED
  BY <1>2, <1>4, <1>5

LEMMA PopNextKeeps ==
    ASSUME TGInv, NEW t \in Thread, PopNext(t)
    PROVE  OneHolder' /\ ListShape' /\ TagsCount'
<1> USE DEF heapVars, tgLocals, TGGoto
<1>0. TGTypeOK
  BY DEF TGInv, TGTyped
<1>1. /\ head' = head /\ next' = next /\ free' = free /\ new_node' = new_node
      /\ exchanges' = exchanges /\ cur' = cur /\ tpc[t] = "pop_next" /\ tpc'[t] = "pop_cas"
      /\ \A u \in Thread : u # t => tpc'[u] = tpc[u] /\ nxt'[u] = nxt[u]
  BY <1>0 DEF PopNext, TGTypeOK
<1>2. ASSUME cur[t].tag = exchanges PROVE nxt'[t] = next[head.ptr]
  <2>1. cur[t] = head /\ cur[t].ptr \notin free
    BY <1>1, <1>2, CurrentInStack DEF Listed, InStack
  <2> QED
    BY <1>0, <2>1 DEF PopNext, TGTypeOK
<1> QED
  BY <1>1, <1>2, StillKeeps

LEMMA TakeHeadKeeps ==
    ASSUME TGInv, NEW t \in Thread, tpc[t] \in {"idle", "pop_cas"}, TakeHead(t)
    PROVE  OneHolder' /\ ListShape' /\ TagsCount'
<1> USE DEF heapVars, tgLocals, TGGoto
<1>0. TGTypeOK
  BY DEF TGInv, TGTyped
<1>1. /\ head' = head /\ next' = next /\ free' = free /\ new_node' = new_node
      /\ exchanges' = exchanges /\ nxt' = nxt /\ cur'[t] = head
      /\ tpc'[t] \in {"idle", "pop_next"}
      /\ \A u \in Thread : u # t => tpc'[u] = tpc[u] /\ cur'[u] = cur[u]
  BY <1>0 DEF TakeHead, TGTypeOK
<1> QED
  BY <1>1, StillKeeps

LEMMA PopTakeKeeps ==
    ASSUME TGInv, NEW t \in Thread, PopTake(t)
    PROVE  OneHolder' /\ ListShape' /\ TagsCount'
<1> USE DEF heapVars, tgLocals, TGGoto
<1>0. TGTypeOK
  BY DEF TGInv, TGTyped
<1>1. /\ head' = head /\ next' = next /\ free' = free /\ new_node' = new_node
      /\ exchanges' = exchanges /\ nxt' = nxt /\ cur' = cur
      /\ tpc'[t] = "pop_delete" /\ tpc[t] = "pop_take"
      /\ \A u \in Thread : u # t => tpc'[u] = tpc[u]
  BY <1>0 DEF PopTake, TGTypeOK
<1> QED
  BY <1>1, StillKeeps

LEMMA PopCASKeeps ==
    ASSUME TGInv, NEW t \in Thread, PopCAS(t), exchanges' < TagModulus
    PROVE  OneHolder' /\ ListShape' /\ TagsCount'
<1> USE DEF heapVars, tgLocals, TGGoto
<1>0. TGTypeOK /\ TGLocals
  BY DEF TGInv, TGTyped
<1>1. /\ next' = next /\ free' = free /\ new_node' = new_node /\ cur' = cur /\ nxt' = nxt
      /\ exchanges' = exchanges + 1 /\ head = cur[t]
      /\ \A u \in Thread : tpc'[u] = IF u = t THEN "pop_take" ELSE tpc[u]
      /\ tpc[t] = "pop_cas"
  BY <1>0 DEF PopCAS, Exchange, TGTypeOK
<1>2. head.tag = exchanges /\ exchanges \in Nat
  BY <1>0 DEF TGInv, TagsCount, TGTypeOK
<1>3. head.ptr \in Listed /\ nxt[t] = next[head.ptr]
  BY <1>1, <1>2, CurrentInStack DEF TGInv, TagsCount
<1>4. head'.ptr = next[head.ptr] /\ head'.tag = exchanges'
  <2>1. head' = Desired(nxt[t], head) /\ nxt[t] \in Pointer /\ head \in Packed
    BY <1>0, <1>1 DEF PopCAS, Exchange, TGTypeOK
  <2> QED
    BY <1>1, <1>2, <1>3, <2>1, DesiredFacts
<1>5. \A u \in Thread, m \in Node : Mine(u, m)' <=> Mine(u, m) \/ (u = t /\ m = head.ptr)
  BY <1>1 DEF Mine
<1>6. OneHolder'
  BY <1>1, <1>3, <1>5 DEF TGInv, OneHolder, Listed, InStack
<1>7. Listed' = Listed \ {head.ptr} /\ None \notin Listed
  <2>1. \A m \in Node : InStack(m)' <=> InStack(m) /\ m # head.ptr
    BY <1>1, <1>5 DEF InStack
  <2> QED
    BY <2>1, NoneIsNoNode DEF Listed
<1>8. ListShape'
  BY <1>1, <1>3, <1>4, <1>7, ShapeMoves DEF TGInv, ListShape
<1>9. TagsCount'
  <2>1. ASSUME NEW u \in Thread, tpc'[u] \in {"push_cas", "pop_next", "pop_cas"}
        PROVE  u # t /\ cur[u].tag <= exchanges /\ cur[u].tag \in Nat
    BY <1>0, <1>1, <2>1 DEF TGInv, TagsCount, TGTypeOK, Packed, Tag
  <2>2. ASSUME NEW u \in Thread, tpc'[u] \in {"push_cas", "pop_next", "pop_cas"}
        PROVE  cur'[u].tag <= exchanges' /\ cur'[u].tag # exchanges'
    BY <1>1, <1>2, <2>1, <2>2
  <2>3. ASSUME NEW u \in Thread, tpc'[u] = "push_cas"
        PROVE  next'[new_node'[u]] = cur'[u].ptr
    BY <1>1, <2>3 DEF TGInv, TagsCount
  <2> QED
    BY <1>4, <2>2, <2>3 DEF TagsCount
<1> QED
  BY <1>6, <1>8, <1>9

LEMMA PopDeleteKeeps ==
    ASSUME TGInv, NEW t \in Thread, PopDelete(t)
    PROVE  OneHolder' /\ ListShape' /\ TagsCount'
<1> USE DEF heapVars, tgLocals, TGGoto
<1>0. TGTypeOK /\ TGLocals
  BY DEF TGInv, TGTyped
<1>1. /\ head' = head /\ next' = next /\ new_node' = new_node /\ cur' = cur /\ nxt' = nxt
      /\ exchanges' = exchanges /\ free' = free \union {cur[t].ptr}
      /\ \A u \in Thread : tpc'[u] = IF u = t THEN "idle" ELSE tpc[u]
      /\ tpc[t] = "pop_delete" /\ cur[t].ptr \in Node
  BY <1>0 DEF PopDelete, TGTypeOK, TGLocals
<1>2. \A u \in Thread, m \in Node : Mine(u, m)' <=> Mine(u, m) /\ u # t
  BY <1>1 DEF Mine
<1>3. Mine(t, cur[t].ptr) /\ \A m \in Node : Mine(t, m) => m = cur[t].ptr
  BY <1>1 DEF Mine
<1>4. OneHolder'
  BY <1>1, <1>2, <1>3 DEF TGInv, OneHolder
<1>5. Listed' = Listed
  BY <1>1, <1>2, <1>3 DEF InStack, Listed
<1>6. ListShape'
  BY <1>1, <1>5 DEF TGInv, ListShape
<1>7. TagsCount'
  BY <1>1 DEF TGInv, TagsCount
<1> QED
  BY <1>4, <1>6, <1>7

LEMMA InvStep ==
    TGTyped /\ TGInvUnwrapped /\ [TGNext]_tgVars => TGInvUnwrapped'
<1> SUFFICES ASSUME TGTyped, TGInvUnwrapped, [TGNext]_tgVars, exchanges' < TagModulus
             PROVE  TGInv'
  BY DEF TGInvUnwrapped
<1>1. exchanges' = exchanges \/ exchanges' = exchanges + 1
  BY DEF TGNext, TGStep, PushAlloc, PushCAS, Exchange, PushRetry, PopCall, TakeHead, PopNext,
         PopCAS, PopRetry, PopTake, PopDelete, Terminated, tgVars
<1>2. TGInv /\ TGTyped'
  <2>1. exchanges \in Nat
    BY DEF TGTyped, TGTypeOK
  <2> QED
    BY <1>1, <2>1, TypedStep, TagModulusPositive DEF TGInvUnwrapped
<1>3. CASE UNCHANGED tgVars
  BY <1>2, <1>3 DEF tgVars, heapVars, tgLocals, TGInv, OneHolder, ListShape, Listed, InStack,
                    Mine, TagsCount
<1>4. ASSUME NEW t \in Thread, PopCall(t) \/ PopRetry(t)
      PROVE  OneHolder' /\ ListShape' /\ TagsCount'
  BY <1>2, <1>4, TakeHeadKeeps DEF PopCall, Call, PopRetry
<1> QED
  BY <1>2, <1>3, <1>4, PushAllocKeeps, PushCASKeeps, PushRetryKeeps, PopNextKeeps, PopCASKeeps,
     PopTakeKeeps, PopDeleteKeeps DEF TGNext, TGStep, Terminated, TGInv

LEMMA InvCorrect == TGSpec => []TGInvUnwrapped
<1>1. TGInit => TGInvUnwrapped
  BY InvInit DEF TGInvUnwrapped
<1> QED
  BY <1>1, TypedCorrect, InvStep, PTL DEF TGSpec

\* pop()'s exchange installs the successor of the node it removes although it
\* may have read that node after it was deleted, for any number of threads,
\* addresses and calls, until the tag has wrapped around.
THEOREM NoABACorrect == TGSpec => []NoABA
<1>1. TGTyped /\ TGInvUnwrapped => NoABA
  BY DEF TGInvUnwrapped, TGInv, TagsCount, NoABA
<1> QED
  BY <1>1, TypedCorrect, InvCorrect, PTL

-----------------------------------------------------------------------------
(* The stack as a list *)

StackList == IsList(Chain, head.ptr, next, Listed)

\* What the steps that neither link nor unlink a node leave alone.
Kept ==
    /\ head' = head
    /\ Listed' = Listed
    /\ \A n \in Listed : next'[n] = next[n] /\ data'[n] = data[n]

LEMMA StackMoves ==
    TGInv /\ [TGNext]_tgVars => Kept \/ \E t \in Thread : PushCAS(t) \/ PopCAS(t)
<1> SUFFICES ASSUME TGInv, [TGNext]_tgVars
             PROVE  Kept \/ \E t \in Thread : PushCAS(t) \/ PopCAS(t)
  OBVIOUS
<1>0. TGTypeOK /\ TGLocals
  BY DEF TGInv, TGTyped
<1> USE DEF heapVars, tgLocals, TGGoto
<1>1. ASSUME NEW t \in Thread, NEW v \in Value, NEW n \in Node, PushAlloc(t, v, n)
      PROVE  Kept
  <2>1. \A m \in Node : InStack(m)' <=> InStack(m)
    BY <1>0, <1>1 DEF PushAlloc, Call, TGTypeOK, InStack, Mine
  <2>2. \A m \in Node : InStack(m) => next'[m] = next[m] /\ data'[m] = data[m]
    BY <1>0, <1>1 DEF PushAlloc, TGTypeOK, InStack
  <2> QED
    BY <1>1, <2>1, <2>2 DEF Kept, Listed, PushAlloc
<1>2. ASSUME NEW t \in Thread, PushRetry(t) PROVE Kept
  <2>1. \A m \in Node : InStack(m)' <=> InStack(m)
    BY <1>2 DEF PushRetry, InStack, Mine
  <2>2. \A m \in Node : InStack(m) => next'[m] = next[m] /\ data'[m] = data[m]
    BY <1>0, <1>2 DEF PushRetry, TGTypeOK, InStack, Mine
  <2> QED
    BY <1>2, <2>1, <2>2 DEF Kept, Listed, PushRetry
<1>3. ASSUME NEW t \in Thread, PopCall(t) \/ PopRetry(t) \/ PopNext(t) \/ PopTake(t)
      PROVE  Kept
  <2>1. head' = head /\ next' = next /\ data' = data /\ free' = free
    BY <1>3 DEF PopCall, PopRetry, TakeHead, PopNext, PopTake
  <2>2. \A u \in Thread, m \in Node : Mine(u, m)' <=> Mine(u, m)
    BY <1>0, <1>3 DEF PopCall, Call, PopRetry, TakeHead, PopNext, PopTake, Mine, TGTypeOK
  <2>3. \A m \in Node : InStack(m)' <=> InStack(m)
    BY <2>1, <2>2 DEF InStack
  <2> QED
    BY <2>1, <2>3 DEF Kept, Listed
<1>4. ASSUME NEW t \in Thread, PopDelete(t) PROVE Kept
  <2>1. Mine(t, cur[t].ptr) /\ \A m \in Node : Mine(t, m) => m = cur[t].ptr
    BY <1>4 DEF PopDelete, Mine
  <2>2. \A u \in Thread, m \in Node : Mine(u, m)' <=> Mine(u, m) /\ u # t
    BY <1>0, <1>4 DEF PopDelete, Mine, TGTypeOK
  <2>3. \A m \in Node : InStack(m)' <=> InStack(m)
    BY <1>4, <2>1, <2>2 DEF PopDelete, InStack
  <2> QED
    BY <1>4, <2>3 DEF Kept, Listed, PopDelete
<1>5. CASE UNCHANGED tgVars
  BY <1>5 DEF tgVars, Kept, Listed, InStack, Mine
<1> QED
  BY <1>1, <1>2, <1>3, <1>4, <1>5 DEF TGNext, TGStep, Terminated

\* What the two exchanges do to the stack.
LEMMA PushMoves ==
    ASSUME TGInv, NEW t \in Thread, PushCAS(t)
    PROVE  /\ new_node[t] \in Node /\ new_node[t] \notin Listed
           /\ next[new_node[t]] = head.ptr /\ head'.ptr = new_node[t]
           /\ Listed' = Listed \union {new_node[t]}
           /\ next' = next /\ data' = data
<1> USE DEF heapVars, tgLocals, TGGoto
<1>1. /\ new_node[t] \in Node /\ next[new_node[t]] = head.ptr
      /\ next' = next /\ data' = data /\ free' = free /\ head = cur[t]
  BY DEF PushCAS, Exchange, TGInv, TGTyped, TGLocals, TagsCount
<1>2. head'.ptr = new_node[t]
  BY DEF PushCAS, Exchange, Desired
<1>3. Mine(t, new_node[t])
  BY DEF PushCAS, Mine
<1>4. \A u \in Thread, m \in Node :
         Mine(u, m)' <=> Mine(u, m) /\ ~(u = t /\ m = new_node[t])
  BY DEF PushCAS, Mine, TGInv, TGTyped, TGTypeOK
<1>5. \A m \in Node : InStack(m)' <=> InStack(m) \/ m = new_node[t]
  BY <1>1, <1>3, <1>4 DEF InStack, TGInv, OneHolder
<1>6. ~InStack(new_node[t])
  BY <1>3 DEF InStack
<1> QED
  BY <1>1, <1>2, <1>5, <1>6 DEF Listed

LEMMA PopMoves ==
    ASSUME TGInv, NEW t \in Thread, PopCAS(t)
    PROVE  /\ head.ptr \in Listed /\ cur[t] = head /\ head'.ptr = next[head.ptr]
           /\ Listed' = Listed \ {head.ptr}
           /\ next' = next /\ data' = data
<1> USE DEF heapVars, tgLocals, TGGoto
<1>1. /\ head = cur[t] /\ tpc[t] = "pop_cas" /\ head.tag = exchanges
      /\ next' = next /\ data' = data /\ free' = free
  BY DEF PopCAS, Exchange, TGInv, TagsCount
<1>2. head.ptr \in Listed /\ nxt[t] = next[head.ptr]
  BY <1>1, CurrentInStack DEF TGInv, TagsCount
<1>3. head'.ptr = next[head.ptr]
  BY <1>2 DEF PopCAS, Exchange, Desired
<1>4. \A u \in Thread, m \in Node : Mine(u, m)' <=> Mine(u, m) \/ (u = t /\ m = head.ptr)
  BY <1>1 DEF PopCAS, Mine, TGInv, TGTyped, TGTypeOK
<1>5. \A m \in Node : InStack(m)' <=> InStack(m) /\ m # head.ptr
  BY <1>1, <1>4 DEF InStack
<1> QED
  BY <1>1, <1>2, <1>3, <1>5 DEF Listed

\* Every step keeps the chain, puts a node in front or takes off the first.
ChainMoves ==
    \/ Kept /\ Chain' = Chain
    \/ \E t \in Thread : PushCAS(t) /\ Chain' = <<new_node[t]>> \o Chain
    \/ \E t \in Thread :
          /\ PopCAS(t) /\ Len(Chain) > 0 /\ Chain[1] = head.ptr /\ Chain' = Tail(Chain)

LEMMA ChainStep ==
    TGInv /\ StackList /\ [TGNext]_tgVars => StackList' /\ ChainMoves
<1> SUFFICES ASSUME TGInv, StackList, [TGNext]_tgVars PROVE StackList' /\ ChainMoves
  OBVIOUS
<1>0. \A s : IsList(s, head'.ptr, next', Listed') => s = Chain' /\ StackList'
  <2> TAKE s
  <2> HAVE IsList(s, head'.ptr, next', Listed')
  <2>1. NodesFrom(head'.ptr, next') = s
    BY WalkFindsList
  <2> QED
    BY <2>1 DEF StackList, Chain
<1>1. CASE Kept
  <2>1. IsList(Chain, head.ptr, next', Listed)
    BY <1>1, SameNodes DEF Kept, StackList
  <2> QED
    BY <1>0, <1>1, <2>1 DEF Kept, ChainMoves
<1>2. ASSUME NEW t \in Thread, PushCAS(t) PROVE StackList' /\ ChainMoves
  <2>1. PICK n \in Node :
           /\ n = new_node[t] /\ n \notin Listed /\ next[n] = head.ptr /\ head'.ptr = n
           /\ Listed' = Listed \union {n} /\ next' = next
    BY <1>2, PushMoves
  <2>2. IsList(<<n>> \o Chain, n, next, Listed \union {n})
    BY <2>1, ListPush DEF StackList
  <2>3. <<n>> \o Chain = Chain' /\ StackList'
    BY <1>0, <2>1, <2>2
  <2> QED
    BY <1>2, <2>1, <2>3 DEF ChainMoves
<1>3. ASSUME NEW t \in Thread, PopCAS(t) PROVE StackList' /\ ChainMoves
  <2>1. PICK h : h = head.ptr
    OBVIOUS
  <2>2. /\ h \in Listed /\ head'.ptr = next[h] /\ Listed' = Listed \ {h} /\ next' = next
    BY <1>3, <2>1, PopMoves
  <2>3. h # None
    BY <2>2, NoneIsNoNode DEF Listed
  <2>4. /\ Len(Chain) > 0 /\ h = Chain[1]
        /\ IsList(Tail(Chain), next[h], next, Listed \ {h})
    <3>1. IsList(Chain, h, next, Listed)
      BY <2>1 DEF StackList
    <3> QED
      BY <2>3, <3>1, ListTail
  <2> QED
    BY <1>0, <1>3, <2>1, <2>2, <2>4 DEF ChainMoves
<1> QED
  BY <1>1, <1>2, <1>3, StackMoves

LEMMA StackListInit == TGInit => StackList
<1> SUFFICES ASSUME TGInit PROVE StackList
  OBVIOUS
<1>1. head.ptr = None /\ Listed = {}
  BY DEF TGInit, Nil, Listed, InStack
<1>2. IsList(<< >>, head.ptr, next, Listed)
  BY <1>1 DEF IsList
<1> QED
  BY <1>2, WalkFindsList DEF StackList, Chain

\* The tag has not wrapped around.
Unwrapped == exchanges < TagModulus

LEMMA StackListCorrect == TGSpec /\ []Unwrapped => [](TGInv /\ StackList)
<1>1. TGInit => StackList
  BY StackListInit
<1>2. TGInv /\ StackList /\ [TGNext]_tgVars => StackList'
  BY ChainStep
<1>3. TGInvUnwrapped /\ Unwrapped => TGInv
  BY DEF TGInvUnwrapped, Unwrapped
<1> QED
  BY <1>1, <1>2, <1>3, InvCorrect, PTL DEF TGSpec

-----------------------------------------------------------------------------
(* Every address has one owner *)

LEMMA DisjointUnion ==
    ASSUME NEW S, NEW T, IsFiniteSet(S), IsFiniteSet(T), S \intersect T = {}
    PROVE  IsFiniteSet(S \union T) /\ Cardinality(S \union T) = Cardinality(S) + Cardinality(T)
<1>1. Cardinality(S) \in Nat /\ Cardinality(T) \in Nat /\ Cardinality(S \intersect T) = 0
  BY FS_CardinalityType, FS_EmptySet
<1>2. /\ IsFiniteSet(S \union T)
      /\ Cardinality(S \union T)
            = Cardinality(S) + Cardinality(T) - Cardinality(S \intersect T)
  BY FS_Union
<1> QED
  BY <1>1, <1>2

LEMMA OwnersCounted == TGInv /\ StackList => OneOwner
<1> SUFFICES ASSUME TGInv, StackList PROVE OneOwner
  OBVIOUS
<1> DEFINE handed == {t \in Thread : InHand(t) # {}}
           inHand == {n \in Node : \E t \in Thread : Mine(t, n)}
<1>1. free \in SUBSET Node /\ inHand \in SUBSET Node /\ Listed \in SUBSET Node
  BY DEF TGInv, TGTyped, TGTypeOK, Listed
<1>2. IsFiniteSet(free) /\ IsFiniteSet(inHand) /\ IsFiniteSet(Listed)
  BY <1>1, FiniteAddresses, FS_Subset
<1>3. \A t \in Thread : \A n : n \in InHand(t) <=> n \in Node /\ Mine(t, n)
  BY DEF InHand, Mine, TGInv, TGTyped, TGLocals
<1>4. Linked = Listed /\ Cardinality(Listed) = Len(Chain)
  BY ListCounts DEF StackList, Linked
<1>5. UNION {InHand(t) : t \in handed} = inHand
  <2>1. \A n : n \in UNION {InHand(t) : t \in handed}
                  <=> \E t \in Thread : n \in InHand(t)
    OBVIOUS
  <2> QED
    BY <1>3, <2>1
<1>6. Cardinality(handed) = Cardinality(inHand)
  <2> DEFINE holder == [n \in inHand |-> CHOOSE t \in Thread : Mine(t, n)]
  <2>1. \A n \in inHand : holder[n] \in Thread /\ Mine(holder[n], n)
    OBVIOUS
  <2>2. \A t \in handed : \E n \in inHand : Mine(t, n)
    BY <1>3
  <2>3. \A t \in Thread : \A m, n : Mine(t, m) /\ Mine(t, n) => m = n
    BY DEF Mine
  <2>4. \A n \in Node : \A t, u \in Thread : Mine(t, n) /\ Mine(u, n) => t = u
    BY DEF TGInv, OneHolder
  <2>5. \A n \in inHand : holder[n] \in handed
    BY <1>3, <2>1
  <2>6. \A m, n \in inHand : holder[m] = holder[n] => m = n
    BY <2>1, <2>3
  <2>7. \A t \in handed : \E n \in inHand : holder[n] = t
    BY <2>1, <2>2, <2>4
  <2>8. holder \in [inHand -> handed]
    BY <2>5
  <2> HIDE DEF holder, handed, inHand
  <2>9. holder \in Bijection(inHand, handed)
    BY <2>6, <2>7, <2>8 DEF Bijection, Injection, Surjection, IsInjective
  <2> QED
    BY <1>2, <2>9, FS_Bijection DEF ExistsBijection
<1>7. free \union Listed \union inHand = Node
  BY <1>1 DEF Listed, InStack
<1>8. free \intersect Listed = {} /\ (free \union Listed) \intersect inHand = {}
  BY DEF Listed, InStack, TGInv, OneHolder
<1>9. Cardinality(free) + Cardinality(Listed) + Cardinality(inHand) = Cardinality(Node)
  <2> HIDE DEF inHand
  <2>1. /\ IsFiniteSet(free \union Listed)
        /\ Cardinality(free \union Listed) = Cardinality(free) + Cardinality(Listed)
    BY <1>2, <1>8, DisjointUnion
  <2>2. Cardinality(free \union Listed \union inHand)
              = Cardinality(free \union Listed) + Cardinality(inHand)
    BY <1>2, <1>8, <2>1, DisjointUnion
  <2> QED
    BY <1>7, <2>1, <2>2
<1> QED
  BY <1>4, <1>5, <1>6, <1>7, <1>9 DEF OneOwner

\* No address leaks, none has two owners and none is deleted twice, as long as
\* the tag has not wrapped around.
THEOREM OneOwnerCorrect == TGSpec /\ []Unwrapped => []OneOwner
  BY StackListCorrect, OwnersCounted, PTL

-----------------------------------------------------------------------------
(* The stack is linearizable *)

Stack == Values(Chain, data)

\* What pop() is to return: its payload is still to be read after the exchange.
Returned ==
    [t \in Thread |-> IF tpc[t] = "pop_take" THEN data[cur[t].ptr] ELSE result[t]]

\* The calls that are about to return keep their answer.
LEMMA ReturnedKept ==
    TGInv /\ [TGNext]_tgVars
        => \/ Returned' = Returned
           \/ \E t \in Thread : PopCAS(t)
           \/ \E t \in Thread : head.ptr = None /\ Returned' = [Returned EXCEPT ![t] = Empty]
<1> SUFFICES ASSUME TGInv, [TGNext]_tgVars
             PROVE  \/ Returned' = Returned
                    \/ \E t \in Thread : PopCAS(t)
                    \/ \E t \in Thread :
                          head.ptr = None /\ Returned' = [Returned EXCEPT ![t] = Empty]
  OBVIOUS
<1> USE DEF heapVars, tgLocals, TGGoto
<1>a. TGTypeOK
  BY DEF TGInv, TGTyped
<1>b. Returned' = [u \in Thread |-> Returned'[u]] /\ Returned = [u \in Thread |-> Returned[u]]
  BY DEF Returned
<1>1. ASSUME NEW t \in Thread, NEW v \in Value, NEW n \in Node, PushAlloc(t, v, n)
      PROVE  Returned' = Returned
  <2>1. \A u \in Thread : tpc'[u] = "pop_take" <=> tpc[u] = "pop_take"
    BY <1>a, <1>1 DEF PushAlloc, Call, TGTypeOK
  <2>2. \A u \in Thread : tpc[u] = "pop_take" => cur[u].ptr \in Node /\ cur[u].ptr # n
    BY <1>1 DEF PushAlloc, TGInv, TGTyped, TGLocals, OneHolder, Mine
  <2>3. \A u \in Thread : tpc[u] = "pop_take" =>
           data'[cur'[u].ptr] = data[cur[u].ptr]
    <3>1. \A u \in Thread : tpc[u] = "pop_take" => cur'[u] = cur[u]
      BY <1>a, <1>1 DEF PushAlloc, Call, TGTypeOK
    <3> QED
      BY <1>a, <1>1, <2>2, <3>1 DEF PushAlloc, TGTypeOK
  <2>4. \A u \in Thread : Returned'[u] = Returned[u]
    BY <1>1, <2>1, <2>3 DEF Returned, PushAlloc
  <2> QED
    BY <1>b, <2>4
<1>2. ASSUME NEW t \in Thread,
             PushCAS(t) \/ PushRetry(t) \/ PopNext(t) \/ PopDelete(t)
      PROVE  Returned' = Returned
  <2>1. /\ \A u \in Thread : tpc'[u] = "pop_take" <=> tpc[u] = "pop_take"
        /\ \A u \in Thread : tpc[u] = "pop_take" => cur'[u] = cur[u]
    BY <1>a, <1>2 DEF PushCAS, PushRetry, PopNext, PopDelete, TGTypeOK
  <2>2. data' = data /\ result' = result
    BY <1>2 DEF PushCAS, PushRetry, PopNext, PopDelete
  <2>3. \A u \in Thread : Returned'[u] = Returned[u]
    BY <2>1, <2>2 DEF Returned
  <2> QED
    BY <1>b, <2>3
<1>3. ASSUME NEW t \in Thread, PopCall(t) \/ PopRetry(t), head.ptr # None
      PROVE  Returned' = Returned
  <2>1. /\ \A u \in Thread : tpc'[u] = "pop_take" <=> tpc[u] = "pop_take"
        /\ \A u \in Thread : tpc[u] = "pop_take" => cur'[u] = cur[u]
    BY <1>a, <1>3 DEF PopCall, Call, PopRetry, TakeHead, TGTypeOK
  <2>2. data' = data /\ result' = result
    BY <1>3 DEF PopCall, PopRetry, TakeHead
  <2>3. \A u \in Thread : Returned'[u] = Returned[u]
    BY <2>1, <2>2 DEF Returned
  <2> QED
    BY <1>b, <2>3
<1>4. ASSUME NEW t \in Thread, PopCall(t) \/ PopRetry(t), head.ptr = None
      PROVE  Returned' = [Returned EXCEPT ![t] = Empty]
  <2>1. /\ \A u \in Thread : tpc'[u] = "pop_take" <=> tpc[u] = "pop_take"
        /\ \A u \in Thread : tpc[u] = "pop_take" => u # t /\ cur'[u] = cur[u]
    BY <1>a, <1>4 DEF PopCall, Call, PopRetry, TakeHead, TGTypeOK
  <2>2. data' = data /\ result' = [result EXCEPT ![t] = Empty]
    BY <1>4 DEF PopCall, PopRetry, TakeHead
  <2>3. \A u \in Thread : Returned'[u] = IF u = t THEN Empty ELSE Returned[u]
    BY <1>a, <2>1, <2>2 DEF Returned, TGTypeOK
  <2> QED
    BY <1>b, <2>3
<1>5. ASSUME NEW t \in Thread, PopTake(t) PROVE Returned' = Returned
  <2>1. \A u \in Thread : u # t => tpc'[u] = tpc[u] /\ result'[u] = result[u]
    BY <1>a, <1>5 DEF PopTake, TGTypeOK
  <2>2. tpc[t] = "pop_take" /\ tpc'[t] = "pop_delete" /\ result'[t] = data[cur[t].ptr]
    BY <1>a, <1>5 DEF PopTake, TGTypeOK
  <2>3. data' = data /\ cur' = cur
    BY <1>5 DEF PopTake
  <2>4. \A u \in Thread : Returned'[u] = Returned[u]
    BY <2>1, <2>2, <2>3 DEF Returned
  <2> QED
    BY <1>b, <2>4
<1>6. CASE UNCHANGED tgVars
  BY <1>6 DEF Returned, tgVars
<1> QED
  BY <1>1, <1>2, <1>3, <1>4, <1>5, <1>6 DEF TGNext, TGStep, Terminated

LEMMA StackSteps ==
    TGInv /\ StackList /\ [TGNext]_tgVars => [TGAbs!ASNext]_<<Stack, Returned>>
<1> SUFFICES ASSUME TGInv, StackList, [TGNext]_tgVars
             PROVE  [TGAbs!ASNext]_<<Stack, Returned>>
  OBVIOUS
<1>0. /\ Chain \in Seq(Node) /\ Len(Chain) \in Nat /\ data \in [Node -> Value]
      /\ \A i \in 1..Len(Chain) : Chain[i] \in Listed
      /\ head.ptr = None => Len(Chain) = 0
  BY NoneIsNoNode DEF StackList, IsList, TGInv, TGTyped, TGTypeOK, Listed
<1>e. ASSUME head.ptr = None PROVE Stack = << >>
  <2>1. Chain = << >>
    BY <1>0, <1>e, EmptySeq
  <2> QED
    BY <2>1 DEF Stack, Values
<1> USE DEF TGAbs!ASNext, TGAbs!ASPopEmpty, TGAbs!ASPush, TGAbs!ASPop, Stack, Returned
<1>1. CASE Kept /\ Chain' = Chain
  <2>1. Stack' = Stack
    <3>1. \A i \in 1..Len(Chain) : data[Chain[i]] = data'[Chain[i]]
      BY <1>0, <1>1 DEF Kept
    <3>2. Values(Chain, data) = Values(Chain, data')
      BY <3>1, SameValues
    <3> QED
      BY <1>1, <3>2
  <2>2. CASE Returned' = Returned
    BY <2>1, <2>2
  <2>3. ASSUME NEW t \in Thread, head.ptr = None, Returned' = [Returned EXCEPT ![t] = Empty]
        PROVE  TGAbs!ASNext
    <3>1. Stack = << >>
      BY <1>e, <2>3
    <3>2. TGAbs!ASPopEmpty(t)
      BY <2>1, <2>3, <3>1
    <3> QED
      BY <3>2
  <2>4. ASSUME NEW t \in Thread, PopCAS(t) PROVE FALSE
    BY <1>1, <2>4, PopMoves DEF Kept, Listed
  <2> QED
    BY <2>2, <2>3, <2>4, ReturnedKept
<1>2. ASSUME NEW t \in Thread, PushCAS(t), Chain' = <<new_node[t]>> \o Chain
      PROVE  [TGAbs!ASNext]_<<Stack, Returned>>
  <2>1. new_node[t] \in Node /\ data' = data
    BY <1>2, PushMoves
  <2>2. Stack' = <<data[new_node[t]]>> \o Stack
    BY <1>0, <1>2, <2>1, ValuesPush
  <2>3. Returned' = Returned
    BY <1>2 DEF PushCAS, TGGoto, TGInv, TGTyped, TGTypeOK, heapVars, tgLocals
  <2>4. TGAbs!ASPush(data[new_node[t]]) /\ data[new_node[t]] \in Value
    BY <1>0, <2>1, <2>2, <2>3
  <2> QED
    BY <2>4
<1>3. ASSUME NEW t \in Thread, PopCAS(t), Len(Chain) > 0, Chain[1] = head.ptr,
             Chain' = Tail(Chain)
      PROVE  [TGAbs!ASNext]_<<Stack, Returned>>
  <2>1. cur[t] = head /\ data' = data
    BY <1>3, PopMoves
  <2>2. Stack # << >> /\ Head(Stack) = data[head.ptr] /\ Stack' = Tail(Stack)
    BY <1>0, <1>3, <2>1, ValuesTail
  <2>3. Returned' = [Returned EXCEPT ![t] = data[head.ptr]]
    <3>1. /\ tpc'[t] = "pop_take" /\ \A u \in Thread : u # t => tpc'[u] = tpc[u]
          /\ cur' = cur /\ result' = result
      BY <1>3 DEF PopCAS, TGGoto, TGInv, TGTyped, TGTypeOK, tgLocals
    <3>2. \A u \in Thread : Returned'[u] = IF u = t THEN data[head.ptr] ELSE Returned[u]
      BY <2>1, <3>1
    <3>3. Returned' = [u \in Thread |-> Returned'[u]]
          /\ Returned = [u \in Thread |-> Returned[u]]
      OBVIOUS
    <3> QED
      BY <3>2, <3>3
  <2>4. TGAbs!ASPop(t)
    BY <2>2, <2>3
  <2> QED
    BY <2>4
<1> QED
  BY <1>1, <1>2, <1>3, ChainStep DEF ChainMoves

\* Every call of push() and pop() takes effect at one instant, although pops read
\* nodes that other pops have deleted, as long as the tag has not wrapped around.
THEOREM TaggedLinearizableCorrect == TGSpec /\ []Unwrapped => TaggedLinearizable
<1>1. TGInit => TGAbs!ASInit
  <2> SUFFICES ASSUME TGInit PROVE TGAbs!ASInit
    OBVIOUS
  <2>1. head.ptr = None /\ StackList /\ Listed = {}
    BY StackListInit DEF TGInit, Nil, Listed, InStack
  <2>2. Chain = << >>
    BY <2>1, EmptySeq DEF StackList, IsList
  <2>3. Stack = << >>
    BY <2>2 DEF Stack, Values
  <2>4. Returned = [t \in Thread |-> Empty]
    BY DEF TGInit, Returned
  <2> QED
    BY <2>3, <2>4 DEF TGAbs!ASInit, Stack, Returned
<1>2. TGInv /\ StackList /\ [TGNext]_tgVars => [TGAbs!ASNext]_<<Stack, Returned>>
  BY StackSteps
<1> QED
  BY <1>1, <1>2, StackListCorrect, PTL
  DEF TGSpec, TaggedLinearizable, TGAbs!ASSpec, Stack, Returned

-----------------------------------------------------------------------------
(* The deque: circular arrays *)

CircularArray ==
    UNION {[capacity : {c}, slots : [0..(c - 1) -> Item \union {Garbage}]] : c \in Nat \ {0}}

LEMMA ArrayFacts ==
    ASSUME NEW a \in CircularArray
    PROVE  /\ a.capacity \in Nat \ {0}
           /\ a.slots \in [0..(a.capacity - 1) -> Item \union {Garbage}]
           /\ a = [capacity |-> a.capacity, slots |-> a.slots]
           /\ \A i \in Nat : i % a.capacity \in 0..(a.capacity - 1)
           /\ \A i \in Nat : Get(a, i) \in Item \union {Garbage}
<1>1. PICK c \in Nat \ {0} : a \in [capacity : {c}, slots : [0..(c - 1) -> Item \union {Garbage}]]
  BY DEF CircularArray
<1>2. a.capacity = c /\ \A i \in Nat : i % c \in 0..(c - 1)
  BY <1>1
<1> QED
  BY <1>1, <1>2 DEF Get

LEMMA ArrayMade ==
    ASSUME NEW c \in Nat \ {0}, NEW s \in [0..(c - 1) -> Item \union {Garbage}]
    PROVE  [capacity |-> c, slots |-> s] \in CircularArray
BY DEF CircularArray

\* Indices nearer than the capacity do not share a slot.
LEMMA SlotsApart ==
    ASSUME NEW c \in Nat \ {0}, NEW i \in Nat, NEW j \in Nat, i < j, j - i < c
    PROVE  i % c # j % c
<1> DEFINE p == i \div c
           q == j \div c
           r == i % c
<1>1. p \in Int /\ q \in Int /\ r \in Int
  OBVIOUS
<1>2. i = c * p + r /\ j = c * q + (j % c)
  OBVIOUS
<1> HIDE DEF p, q, r
<1>3. ASSUME r = j % c PROVE FALSE
  <2>1. j = c * q + r
    BY <1>2, <1>3
  <2> QED
    BY <1>1, <1>2, <2>1
<1> QED
  BY <1>3 DEF r

LEMMA PutFacts ==
    ASSUME NEW a \in CircularArray, NEW b \in Nat, NEW v \in Item
    PROVE  /\ Put(a, b, v) \in CircularArray
           /\ Put(a, b, v).capacity = a.capacity
           /\ Get(Put(a, b, v), b) = v
           /\ \A i \in Nat : i < b /\ b - i < a.capacity => Get(Put(a, b, v), i) = Get(a, i)
<1> DEFINE c == a.capacity
           s == [a.slots EXCEPT ![b % c] = v]
<1>1. /\ c \in Nat \ {0} /\ a.slots \in [0..(c - 1) -> Item \union {Garbage}]
      /\ a = [capacity |-> c, slots |-> a.slots]
      /\ \A i \in Nat : i % c \in 0..(c - 1)
  BY ArrayFacts
<1>2. Put(a, b, v) = [capacity |-> c, slots |-> s]
  <2>1. Put(a, b, v) = [a EXCEPT !.slots = s]
    BY DEF Put
  <2> HIDE DEF s
  <2> QED
    BY <1>1, <2>1
<1>3. s \in [0..(c - 1) -> Item \union {Garbage}] /\ s[b % c] = v
      /\ \A k \in 0..(c - 1) : k # b % c => s[k] = a.slots[k]
  BY <1>1
<1> HIDE DEF c, s
<1>4. Put(a, b, v) \in CircularArray
  BY <1>1, <1>2, <1>3, ArrayMade
<1>5. Put(a, b, v).capacity = c /\ Put(a, b, v).slots = s
  BY <1>2
<1>6. ASSUME NEW i \in Nat, i < b, b - i < c PROVE s[i % c] = a.slots[i % c]
  BY <1>1, <1>3, <1>6, SlotsApart
<1> QED
  BY <1>3, <1>4, <1>5, <1>6 DEF Get, c

LEMMA GrowFacts ==
    ASSUME NEW a \in CircularArray, NEW t \in Nat, NEW b \in Nat
    PROVE  /\ Grow(a, t, b) \in CircularArray
           /\ Grow(a, t, b).capacity = 2 * a.capacity
           /\ b - t <= a.capacity =>
                 \A i \in t..(b - 1) : Get(Grow(a, t, b), i) = Get(a, i)
<1> DEFINE c == 2 * a.capacity
           Home(k) == {i \in t..(b - 1) : i % c = k}
           s == [k \in 0..(c - 1) |->
                    IF Home(k) = {} THEN Garbage ELSE Get(a, CHOOSE i \in Home(k) : TRUE)]
<1>1. a.capacity \in Nat \ {0} /\ c \in Nat \ {0} /\ c > a.capacity
      /\ \A i \in Nat : i % c \in 0..(c - 1)
  <2>1. a.capacity \in Nat \ {0}
    BY ArrayFacts
  <2>2. c \in Nat \ {0} /\ c > a.capacity
    BY <2>1
  <2> HIDE DEF c
  <2> QED
    BY <2>1, <2>2
<1>2. Grow(a, t, b) = [capacity |-> c, slots |-> s]
  BY DEF Grow
<1>3. s \in [0..(c - 1) -> Item \union {Garbage}]
  <2>1. ASSUME NEW k \in 0..(c - 1), Home(k) # {}
        PROVE  Get(a, CHOOSE i \in Home(k) : TRUE) \in Item \union {Garbage}
    <3>1. (CHOOSE i \in Home(k) : TRUE) \in Home(k)
      BY <2>1
    <3>2. (CHOOSE i \in Home(k) : TRUE) \in Nat
      BY <3>1
    <3> QED
      BY <3>2, ArrayFacts
  <2> HIDE DEF Home
  <2> QED
    BY <2>1
<1>4. Grow(a, t, b) \in CircularArray /\ Grow(a, t, b).capacity = c /\ Grow(a, t, b).slots = s
  <2> HIDE DEF c, s
  <2>1. [capacity |-> c, slots |-> s] \in CircularArray
    BY <1>1, <1>3, ArrayMade
  <2> QED
    BY <1>2, <2>1
<1>5. ASSUME b - t <= a.capacity, NEW i \in t..(b - 1) PROVE s[i % c] = Get(a, i)
  <2>1. i \in Nat /\ i % c \in 0..(c - 1)
    BY <1>1
  <2>2. Home(i % c) = {i}
    <3>1. i \in Home(i % c)
      OBVIOUS
    <3>2. ASSUME NEW j \in Home(i % c) PROVE j = i
      <4>1. j \in Nat /\ j \in t..(b - 1) /\ j % c = i % c
        BY <3>2
      <4>2. i - j < c /\ j - i < c
        <5> HIDE DEF c, Home
        <5> QED
          BY <1>1, <1>5, <2>1, <4>1
      <4>3. ~(j < i) /\ ~(i < j)
        <5> HIDE DEF c, Home
        <5> QED
          BY <1>1, <2>1, <4>1, <4>2, SlotsApart
      <4> QED
        BY <2>1, <4>1, <4>3
    <3> HIDE DEF Home
    <3> QED
      BY <3>1, <3>2
  <2> HIDE DEF Home, c
  <2> QED
    BY <2>1, <2>2
<1> QED
  <2> HIDE DEF s
  <2> QED
    BY <1>4, <1>5 DEF Get

LEMMA DoubledPower ==
    ASSUME NEW c \in Nat \ {0}, PowerOfTwo(c) PROVE PowerOfTwo(2 * c)
<1> SUFFICES ASSUME NEW d \in 2..(2 * c), (2 * c) % d = 0, d % 2 # 0 PROVE FALSE
  BY DEF PowerOfTwo
<1> DEFINE m == (2 * c) \div d
           h == m \div 2
           e == d \div 2
<1>1. m \in Int /\ 2 * c = d * m
  BY (2 * c = d * m + ((2 * c) % d))
<1>2. e \in Int /\ d = 2 * e + 1
  OBVIOUS
<1> HIDE DEF m
<1>3. h \in Int /\ m = 2 * h + (m % 2) /\ m % 2 \in 0..1
  BY <1>1
<1> HIDE DEF h, e
<1>4. m = 2 * h
  <2>1. ASSUME m = 2 * h + 1 PROVE FALSE
    <3>1. d * m = 2 * (2 * e * h + e + h) + 1
      BY <1>2, <1>3, <2>1
    <3> QED
      BY <1>1, <1>2, <1>3, <3>1
  <2> QED
    BY <1>3, <2>1
<1>5. c = d * h
  BY <1>1, <1>2, <1>3, <1>4
<1>6. h >= 1 /\ d <= c
  BY <1>3, <1>5
<1>7. c % d = 0
  BY <1>3, <1>5, <1>6
<1> QED
  BY <1>6, <1>7 DEF PowerOfTwo

LEMMA RoundedExists == RoundedCapacity \in Nat \ {0}
<1> DEFINE N == InitialCapacity
           P(c) == PowerOfTwo(c) /\ c >= N /\ (c = 1 \/ c \div 2 < N)
           S == {k \in Nat : k < N /\ N - k \in Nat \ {0} /\ PowerOfTwo(N - k)}
<1>1. \E c \in 1..(2 * N + 1) : P(c)
  <2>1. PowerOfTwo(1)
    BY DEF PowerOfTwo
  <2>2. CASE N <= 1
    BY <2>1, <2>2, CapacityNat
  <2>3. CASE N > 1
    <3>1. N - 1 \in S
      BY <2>1, <2>3, CapacityNat
    <3>2. PICK k \in S : \A j \in S : k <= j
      BY <3>1, LeastNatural
    <3>3. N - k \in Nat \ {0} /\ PowerOfTwo(2 * (N - k)) /\ N - k < 2 * (N - k)
      BY <3>2, CapacityNat, DoubledPower
    <3>4. 2 * (N - k) >= N
      <4>1. SUFFICES ASSUME 2 * (N - k) < N PROVE FALSE
        BY <3>2, CapacityNat
      <4>2. N - 2 * (N - k) \in S
        BY <3>2, <3>3, <4>1, CapacityNat
      <4> QED
        BY <3>2, <3>3, <4>2, CapacityNat
    <3>5. (2 * (N - k)) \div 2 = N - k
      BY <3>3
    <3> QED
      BY <3>2, <3>3, <3>4, <3>5, CapacityNat
  <2> QED
    BY <2>2, <2>3, CapacityNat
<1>2. RoundedCapacity \in 1..(2 * N + 1)
  BY <1>1 DEF RoundedCapacity
<1> QED
  BY <1>2, CapacityNat

-----------------------------------------------------------------------------
(* The items from lo to hi - 1 *)

Window(a, lo, hi) == [i \in 1..(IF hi > lo THEN hi - lo ELSE 0) |-> Get(a, lo + i - 1)]

LEMMA WindowFacts ==
    ASSUME NEW a \in CircularArray, NEW lo \in Nat, NEW hi \in Int
    PROVE  /\ Window(a, lo, hi) \in Seq(Item \union {Garbage})
           /\ Len(Window(a, lo, hi)) = IF hi > lo THEN hi - lo ELSE 0
           /\ \A i \in 1..Len(Window(a, lo, hi)) : Window(a, lo, hi)[i] = Get(a, lo + i - 1)
           /\ Window(a, lo, hi) = << >> <=> hi <= lo
<1> DEFINE n == IF hi > lo THEN hi - lo ELSE 0
           w == Window(a, lo, hi)
<1>1. n \in Nat /\ \A i \in 1..n : lo + i - 1 \in Nat
  OBVIOUS
<1>2. \A i \in 1..n : Get(a, lo + i - 1) \in Item \union {Garbage}
  BY <1>1, ArrayFacts
<1>3. w = [i \in 1..n |-> Get(a, lo + i - 1)]
  BY DEF Window
<1> HIDE DEF n, w
<1>4. w \in Seq(Item \union {Garbage}) /\ Len(w) = n
  BY <1>1, <1>2, <1>3
<1>5. w = << >> <=> n = 0
  <2>1. w = << >> => Len(w) = 0
    BY EmptySeq
  <2>2. Len(w) = 0 => w = << >>
    BY <1>4, EmptySeq
  <2> QED
    BY <1>4, <2>1, <2>2
<1> QED
  BY <1>1, <1>3, <1>4, <1>5 DEF n, w

LEMMA WindowSame ==
    ASSUME NEW a, NEW b, NEW lo \in Nat, NEW hi \in Int,
           \A i \in lo..(hi - 1) : Get(a, i) = Get(b, i)
    PROVE  Window(a, lo, hi) = Window(b, lo, hi)
<1>1. \A i \in 1..(IF hi > lo THEN hi - lo ELSE 0) : lo + i - 1 \in lo..(hi - 1)
  OBVIOUS
<1>2. \A i \in 1..(IF hi > lo THEN hi - lo ELSE 0) : Get(a, lo + i - 1) = Get(b, lo + i - 1)
  BY <1>1
<1> QED
  BY <1>2 DEF Window

LEMMA WindowPush ==
    ASSUME NEW a \in CircularArray, NEW lo \in Nat, NEW hi \in Nat, lo <= hi
    PROVE  Window(a, lo, hi + 1) = Append(Window(a, lo, hi), Get(a, hi))
<1> DEFINE w == Window(a, lo, hi)
           v == Window(a, lo, hi + 1)
           u == Append(w, Get(a, hi))
<1>1. /\ w \in Seq(Item \union {Garbage}) /\ Len(w) = hi - lo
      /\ \A i \in 1..(hi - lo) : w[i] = Get(a, lo + i - 1)
  <2> HIDE DEF w
  <2> QED
    BY WindowFacts DEF w
<1>2. /\ v \in Seq(Item \union {Garbage}) /\ Len(v) = hi + 1 - lo
      /\ \A i \in 1..(hi + 1 - lo) : v[i] = Get(a, lo + i - 1)
  <2> HIDE DEF v
  <2> QED
    BY WindowFacts DEF v
<1>3. Get(a, hi) \in Item \union {Garbage}
  BY ArrayFacts
<1> HIDE DEF w, v
<1>4. /\ u \in Seq(Item \union {Garbage}) /\ Len(u) = hi + 1 - lo
      /\ \A i \in 1..(hi - lo) : u[i] = Get(a, lo + i - 1)
      /\ u[hi + 1 - lo] = Get(a, hi)
  BY <1>1, <1>3
<1> HIDE DEF u
<1>5. \A i \in 1..Len(v) : v[i] = u[i]
  <2> TAKE i \in 1..Len(v)
  <2>1. CASE i = hi + 1 - lo
    <3>1. lo + i - 1 = hi
      BY <2>1
    <3> QED
      BY <1>2, <1>4, <2>1, <3>1
  <2>2. CASE i # hi + 1 - lo
    <3>1. i \in 1..(hi - lo)
      BY <1>2, <2>2
    <3> QED
      BY <1>2, <1>4, <3>1
  <2> QED
    BY <2>1, <2>2
<1>6. v = u
  BY <1>2, <1>4, <1>5, SeqEqual
<1> QED
  BY <1>6 DEF w, v, u

LEMMA WindowPop ==
    ASSUME NEW a \in CircularArray, NEW lo \in Nat, NEW hi \in Nat, lo <= hi
    PROVE  /\ Window(a, lo, hi + 1) # << >>
           /\ Window(a, lo, hi + 1)[Len(Window(a, lo, hi + 1))] = Get(a, hi)
           /\ Window(a, lo, hi) = SubSeq(Window(a, lo, hi + 1), 1, Len(Window(a, lo, hi + 1)) - 1)
<1> DEFINE w == Window(a, lo, hi)
           v == Window(a, lo, hi + 1)
           u == SubSeq(v, 1, Len(v) - 1)
<1>1. /\ w \in Seq(Item \union {Garbage}) /\ Len(w) = hi - lo
      /\ \A i \in 1..(hi - lo) : w[i] = Get(a, lo + i - 1)
  <2> HIDE DEF w
  <2> QED
    BY WindowFacts DEF w
<1>2. /\ v \in Seq(Item \union {Garbage}) /\ Len(v) = hi + 1 - lo /\ v # << >>
      /\ \A i \in 1..(hi + 1 - lo) : v[i] = Get(a, lo + i - 1)
  <2> HIDE DEF v
  <2> QED
    BY WindowFacts DEF v
<1> HIDE DEF w, v
<1>3. v[Len(v)] = Get(a, hi)
  <2>1. Len(v) \in 1..(hi + 1 - lo) /\ lo + Len(v) - 1 = hi
    BY <1>2
  <2> QED
    BY <1>2, <2>1
<1>4. /\ u \in Seq(Item \union {Garbage}) /\ Len(u) = hi - lo
      /\ \A i \in 1..(hi - lo) : u[i] = v[i]
  BY <1>2
<1> HIDE DEF u
<1>5. w = u
  <2>1. \A i \in 1..Len(w) : w[i] = u[i]
    BY <1>1, <1>2, <1>4
  <2> QED
    BY <1>1, <1>4, <2>1, SeqEqual
<1> QED
  BY <1>2, <1>3, <1>5 DEF w, v, u

LEMMA WindowSteal ==
    ASSUME NEW a \in CircularArray, NEW lo \in Nat, NEW hi \in Nat, lo < hi
    PROVE  /\ Window(a, lo, hi) # << >>
           /\ Head(Window(a, lo, hi)) = Get(a, lo)
           /\ Window(a, lo + 1, hi) = Tail(Window(a, lo, hi))
<1> DEFINE w == Window(a, lo + 1, hi)
           v == Window(a, lo, hi)
           u == Tail(v)
<1>1. /\ w \in Seq(Item \union {Garbage}) /\ Len(w) = hi - lo - 1
      /\ \A i \in 1..(hi - lo - 1) : w[i] = Get(a, lo + 1 + i - 1)
  <2> HIDE DEF w
  <2> QED
    BY WindowFacts DEF w
<1>2. /\ v \in Seq(Item \union {Garbage}) /\ Len(v) = hi - lo /\ v # << >>
      /\ \A i \in 1..(hi - lo) : v[i] = Get(a, lo + i - 1)
  <2> HIDE DEF v
  <2> QED
    BY WindowFacts DEF v
<1> HIDE DEF w, v
<1>3. Head(v) = Get(a, lo)
  <2>1. Head(v) = v[1] /\ 1 \in 1..(hi - lo) /\ lo + 1 - 1 = lo
    BY <1>2
  <2> QED
    BY <1>2, <2>1
<1>4. /\ u \in Seq(Item \union {Garbage}) /\ Len(u) = hi - lo - 1
      /\ \A i \in 1..(hi - lo - 1) : u[i] = v[i + 1]
  BY <1>2
<1> HIDE DEF u
<1>5. w = u
  <2>1. ASSUME NEW i \in 1..Len(w) PROVE w[i] = u[i]
    <3>1. i \in 1..(hi - lo - 1) /\ i + 1 \in 1..(hi - lo) /\ lo + 1 + i - 1 = lo + (i + 1) - 1
      BY <1>1
    <3> QED
      BY <1>1, <1>2, <1>4, <3>1
  <2> QED
    BY <1>1, <1>4, <2>1, SeqEqual
<1> QED
  BY <1>2, <1>3, <1>5 DEF w, v, u

-----------------------------------------------------------------------------
(* The inductive invariant of the deque *)

Cur == arrays[array]

OwnerPlaces == {"idle", "push_grow", "push_put", "push_bottom", "pop_top", "pop_cas", "pop_restore"}
ThiefPlaces == {"idle", "steal_bottom", "steal_array", "steal_get", "steal_cas"}

CLTyped ==
    /\ top \in Nat /\ bottom \in Int /\ pushed \in 0..MaxPush
    /\ arrays \in Seq(CircularArray) /\ array \in 1..Len(arrays)
    /\ dpc \in [Threads -> OwnerPlaces \union ThiefPlaces]
    /\ dpc[Owner] \in OwnerPlaces /\ \A t \in Thief : dpc[t] \in ThiefPlaces
    /\ t_ \in [Threads -> Nat]
    /\ a_ \in [Threads -> 1..Len(arrays)]
    /\ item \in [Threads -> Contents]
    /\ got \in [Threads -> Contents]

\* Where bottom_ is when the owner's pop() is over.
Restored ==
    IF dpc[Owner] \in {"pop_top", "pop_cas", "pop_restore"} THEN bottom + 1 ELSE bottom

Pushing == dpc[Owner] \in {"push_grow", "push_put", "push_bottom"}

Indices ==
    /\ top <= Restored
    /\ Restored <= IF Pushing THEN pushed - 1 ELSE pushed
    /\ End - top <= Cur.capacity

\* The owner's locals: top_ has only grown since it was read, so there is room
\* for the item that is pushed, and the last item is read from its slot.
OwnerLocals ==
    /\ Pushing => item[Owner] \in Item /\ t_[Owner] <= top
    /\ dpc[Owner] = "push_grow" => bottom - t_[Owner] <= Cur.capacity
    /\ dpc[Owner] \in {"push_put", "push_bottom"} => bottom - t_[Owner] < Cur.capacity
    /\ dpc[Owner] = "push_bottom" => Get(Cur, bottom) = item[Owner]
    /\ dpc[Owner] = "pop_cas" =>
          bottom \in Nat /\ t_[Owner] = bottom /\ item[Owner] = Get(Cur, bottom)
          /\ top >= bottom
    /\ dpc[Owner] = "pop_restore" => t_[Owner] = top /\ top = bottom + 1

\* A thief whose top is still top_ holds the item there, in whichever array: the
\* owner cannot have taken it without moving top_, nor pushed over it.
ThiefLocals(t) ==
    /\ t_[t] <= top
    /\ t_[t] = top =>
          /\ dpc[t] \in {"steal_array", "steal_get", "steal_cas"} => top < End
          /\ dpc[t] = "steal_get" => Get(arrays[a_[t]], top) = Get(Cur, top)
          /\ dpc[t] = "steal_cas" => item[t] = Get(Cur, top)

CLInv == CLTyped /\ Indices /\ OwnerLocals /\ \A t \in Thief : ThiefLocals(t)

USE OwnerIsNoThief, MaxPushNat

LEMMA CurFacts ==
    ASSUME CLTyped
    PROVE  /\ Cur \in CircularArray /\ Cur.capacity \in Nat \ {0}
           /\ \A i \in Nat : Get(Cur, i) \in Contents
           /\ \A t \in Threads : arrays[a_[t]] \in CircularArray
           /\ \A t \in Threads, i \in Nat : Get(arrays[a_[t]], i) \in Contents
<1>1. Cur \in CircularArray /\ \A t \in Threads : arrays[a_[t]] \in CircularArray
  BY DEF CLTyped, Cur
<1>2. \A a \in CircularArray : a.capacity \in Nat \ {0} /\ \A i \in Nat : Get(a, i) \in Contents
  BY ArrayFacts DEF Contents
<1> QED
  BY <1>1, <1>2

LEMMA CLInitInv == CLInit => CLInv
<1> SUFFICES ASSUME CLInit PROVE CLInv
  OBVIOUS
<1> DEFINE a == NewArray(RoundedCapacity)
<1>1. a \in CircularArray /\ a.capacity \in Nat \ {0}
  <2>1. RoundedCapacity \in Nat \ {0}
    BY RoundedExists
  <2>2. [i \in 0..(RoundedCapacity - 1) |-> Garbage]
             \in [0..(RoundedCapacity - 1) -> Item \union {Garbage}]
    OBVIOUS
  <2> QED
    BY <2>1, <2>2, ArrayMade DEF NewArray
<1> HIDE DEF a
<1>2. arrays = <<a>> /\ arrays \in Seq(CircularArray) /\ Len(arrays) = 1 /\ Cur = a
  BY <1>1 DEF CLInit, a, Cur
<1>3. CLTyped
  BY <1>2 DEF CLInit, CLTyped, OwnerPlaces, ThiefPlaces, Threads, Contents
<1>4. dpc[Owner] = "idle" /\ \A t \in Thief : dpc[t] = "idle" /\ t_[t] = 0
  BY DEF CLInit, Threads
<1>5. Indices /\ OwnerLocals
  BY <1>1, <1>2, <1>4 DEF CLInit, Indices, OwnerLocals, Restored, Pushing, End
<1>6. \A t \in Thief : ThiefLocals(t)
  BY <1>4 DEF CLInit, ThiefLocals
<1> QED
  BY <1>3, <1>5, <1>6 DEF CLInv

\* A step of the owner that leaves the items and top_ where they are.
LEMMA ThievesKept ==
    ASSUME CLInv, top' = top, top < End => top < End',
           arrays' = arrays, array' = array,
           \A t \in Thief : dpc'[t] = dpc[t] /\ t_'[t] = t_[t] /\ a_'[t] = a_[t] /\ item'[t] = item[t]
    PROVE  \A t \in Thief : ThiefLocals(t)'
<1> SUFFICES ASSUME NEW t \in Thief PROVE ThiefLocals(t)'
  OBVIOUS
<1>1. ThiefLocals(t)
  BY DEF CLInv
<1> QED
  BY <1>1 DEF ThiefLocals, Cur

-----------------------------------------------------------------------------
(* The steps of the owner *)

LEMMA PushLoadKeeps == ASSUME CLInv, PushLoad PROVE CLInv'
<1>1. /\ dpc[Owner] = "idle" /\ pushed < MaxPush /\ pushed' = pushed + 1
      /\ top' = top /\ bottom' = bottom /\ arrays' = arrays /\ array' = array
      /\ a_' = a_ /\ got' = got
      /\ t_' = [t_ EXCEPT ![Owner] = top] /\ item' = [item EXCEPT ![Owner] = pushed + 1]
      /\ \/ bottom - top >= Cur.capacity /\ dpc' = [dpc EXCEPT ![Owner] = "push_grow"]
         \/ ~(bottom - top >= Cur.capacity) /\ dpc' = [dpc EXCEPT ![Owner] = "push_put"]
  BY DEF PushLoad, CLGoto, sharedVars, Cur
<1>2. CLTyped /\ Indices /\ Cur.capacity \in Nat \ {0}
  BY CurFacts DEF CLInv
<1>3. CLTyped'
  <2>1. pushed + 1 \in Item /\ pushed' \in 0..MaxPush
    BY <1>1, <1>2 DEF CLTyped, Item
  <2>2. item' \in [Threads -> Contents] /\ t_' \in [Threads -> Nat]
    BY <1>1, <1>2, <2>1 DEF CLTyped, Contents
  <2>3. /\ dpc' \in [Threads -> OwnerPlaces \union ThiefPlaces]
        /\ dpc'[Owner] \in OwnerPlaces /\ \A t \in Thief : dpc'[t] \in ThiefPlaces
    BY <1>1, <1>2 DEF CLTyped, OwnerPlaces, ThiefPlaces, Threads
  <2> QED
    BY <1>1, <1>2, <2>1, <2>2, <2>3 DEF CLTyped
<1>4. /\ dpc'[Owner] \in {"push_grow", "push_put"}
      /\ dpc'[Owner] = "push_put" => bottom - top < Cur.capacity
      /\ t_'[Owner] = top /\ item'[Owner] \in Item
      /\ \A t \in Thief : dpc'[t] = dpc[t] /\ t_'[t] = t_[t] /\ a_'[t] = a_[t] /\ item'[t] = item[t]
  BY <1>1, <1>2 DEF CLTyped, Threads, Item
<1>5. Indices' /\ OwnerLocals'
  BY <1>1, <1>2, <1>4 DEF CLTyped, Indices, OwnerLocals, Restored, Pushing, End, Cur
<1>6. \A t \in Thief : ThiefLocals(t)'
  <2>1. End' = End
    BY <1>1, <1>4 DEF End
  <2> QED
    BY <1>1, <1>4, <2>1, ThievesKept
<1> QED
  BY <1>3, <1>5, <1>6 DEF CLInv

LEMMA PushGrowKeeps == ASSUME CLInv, PushGrow PROVE CLInv'
<1> DEFINE made == Grow(Cur, t_[Owner], bottom)
<1>1. /\ dpc[Owner] = "push_grow" /\ dpc' = [dpc EXCEPT ![Owner] = "push_put"]
      /\ arrays' = Append(arrays, made) /\ array' = Len(arrays')
      /\ UNCHANGED <<top, bottom, pushed, t_, a_, item, got>>
  BY DEF PushGrow, CLGoto, clLocals, Cur
<1>2. /\ CLTyped /\ Indices /\ OwnerLocals /\ Cur \in CircularArray /\ Cur.capacity \in Nat \ {0}
  BY CurFacts DEF CLInv
<1>3. t_[Owner] \in Nat /\ t_[Owner] <= top /\ bottom \in Nat /\ top <= bottom /\ top \in Nat
      /\ bottom - t_[Owner] <= Cur.capacity
  BY <1>1, <1>2 DEF CLTyped, Indices, OwnerLocals, Pushing, Restored, Threads
<1>4. /\ made \in CircularArray /\ made.capacity = 2 * Cur.capacity
      /\ \A i \in t_[Owner]..(bottom - 1) : Get(made, i) = Get(Cur, i)
  BY <1>2, <1>3, GrowFacts
<1> HIDE DEF made
<1>5. /\ arrays' \in Seq(CircularArray) /\ Len(arrays') = Len(arrays) + 1 /\ Cur' = made
      /\ \A k \in 1..Len(arrays) : arrays'[k] = arrays[k]
      /\ Len(arrays) \in Nat
  BY <1>1, <1>2, <1>4 DEF CLTyped, Cur
<1>6. CLTyped'
  <2>1. a_' \in [Threads -> 1..Len(arrays')] /\ array' \in 1..Len(arrays')
    BY <1>1, <1>2, <1>5 DEF CLTyped
  <2>2. /\ dpc' \in [Threads -> OwnerPlaces \union ThiefPlaces]
        /\ dpc'[Owner] \in OwnerPlaces /\ \A t \in Thief : dpc'[t] \in ThiefPlaces
    BY <1>1, <1>2 DEF CLTyped, OwnerPlaces, ThiefPlaces, Threads
  <2> QED
    BY <1>1, <1>2, <1>5, <2>1, <2>2 DEF CLTyped
<1>7. dpc'[Owner] = "push_put" /\ \A t \in Thief : dpc'[t] = dpc[t]
  BY <1>1, <1>2 DEF CLTyped, Threads
<1>8. End = bottom /\ End' = bottom
  BY <1>1, <1>7 DEF End
<1>9. Indices' /\ OwnerLocals'
  BY <1>1, <1>2, <1>3, <1>4, <1>5, <1>7, <1>8
     DEF CLTyped, Indices, OwnerLocals, Restored, Pushing
<1>10. ASSUME NEW t \in Thief PROVE ThiefLocals(t)'
  <2>1. ThiefLocals(t) /\ a_[t] \in 1..Len(arrays)
    BY <1>2 DEF CLInv, CLTyped, Threads
  <2>2. arrays'[a_[t]] = arrays[a_[t]]
    BY <1>5, <2>1
  <2>3. top < End => Get(Cur', top) = Get(Cur, top)
    BY <1>3, <1>4, <1>5, <1>8
  <2>4. /\ t_'[t] = t_[t] /\ item'[t] = item[t] /\ a_'[t] = a_[t] /\ dpc'[t] = dpc[t] /\ top' = top
        /\ arrays'[a_'[t]] = arrays[a_[t]] /\ End' = End
    BY <1>1, <1>7, <1>8, <2>2
  <2> QED
    BY <2>1, <2>3, <2>4 DEF ThiefLocals
<1> QED
  BY <1>6, <1>9, <1>10 DEF CLInv

LEMMA PushPutKeeps == ASSUME CLInv, PushPut PROVE CLInv'
<1> DEFINE made == Put(Cur, bottom, item[Owner])
<1>1. /\ dpc[Owner] = "push_put" /\ dpc' = [dpc EXCEPT ![Owner] = "push_bottom"]
      /\ arrays' = [arrays EXCEPT ![array] = made]
      /\ UNCHANGED <<top, bottom, array, pushed, t_, a_, item, got>>
  BY DEF PushPut, CLGoto, clLocals, Cur
<1>2. /\ CLTyped /\ Indices /\ OwnerLocals /\ Cur \in CircularArray /\ Cur.capacity \in Nat \ {0}
  BY CurFacts DEF CLInv
<1>3. t_[Owner] \in Nat /\ t_[Owner] <= top /\ bottom \in Nat /\ top <= bottom /\ top \in Nat
      /\ bottom - t_[Owner] < Cur.capacity /\ item[Owner] \in Item
  BY <1>1, <1>2 DEF CLTyped, Indices, OwnerLocals, Pushing, Restored, Threads
<1>4. /\ made \in CircularArray /\ made.capacity = Cur.capacity
      /\ Get(made, bottom) = item[Owner]
      /\ \A i \in Nat : i < bottom /\ bottom - i < Cur.capacity => Get(made, i) = Get(Cur, i)
  <2>1. \A b \in Nat, v \in Item :
           /\ Put(Cur, b, v) \in CircularArray
           /\ Put(Cur, b, v).capacity = Cur.capacity
           /\ Get(Put(Cur, b, v), b) = v
           /\ \A i \in Nat : i < b /\ b - i < Cur.capacity => Get(Put(Cur, b, v), i) = Get(Cur, i)
    BY <1>2, PutFacts
  <2> QED
    BY <1>3, <2>1
<1> HIDE DEF made
<1>5. /\ arrays' \in Seq(CircularArray) /\ Len(arrays') = Len(arrays) /\ Cur' = made
      /\ \A k \in 1..Len(arrays) : k # array => arrays'[k] = arrays[k]
      /\ arrays'[array] = made
  BY <1>1, <1>2, <1>4 DEF CLTyped, Cur
<1>6. CLTyped'
  <2>1. /\ dpc' \in [Threads -> OwnerPlaces \union ThiefPlaces]
        /\ dpc'[Owner] \in OwnerPlaces /\ \A t \in Thief : dpc'[t] \in ThiefPlaces
    BY <1>1, <1>2 DEF CLTyped, OwnerPlaces, ThiefPlaces, Threads
  <2> QED
    BY <1>1, <1>2, <1>5, <2>1 DEF CLTyped
<1>7. dpc'[Owner] = "push_bottom" /\ \A t \in Thief : dpc'[t] = dpc[t]
  BY <1>1, <1>2 DEF CLTyped, Threads
<1>8. End = bottom /\ End' = bottom
  BY <1>1, <1>7 DEF End
<1>9. Indices' /\ OwnerLocals'
  BY <1>1, <1>2, <1>3, <1>4, <1>5, <1>7, <1>8
     DEF CLTyped, Indices, OwnerLocals, Restored, Pushing
<1>10. ASSUME NEW t \in Thief PROVE ThiefLocals(t)'
  <2>1. ThiefLocals(t) /\ a_[t] \in 1..Len(arrays)
    BY <1>2 DEF CLInv, CLTyped, Threads
  <2>2. top < End => Get(made, top) = Get(Cur, top)
    BY <1>2, <1>3, <1>4, <1>8
  <2>3. a_[t] = array => arrays'[a_[t]] = made /\ arrays[a_[t]] = Cur
    BY <1>5 DEF Cur
  <2>4. a_[t] # array => arrays'[a_[t]] = arrays[a_[t]]
    BY <1>5, <2>1
  <2>5. /\ t_'[t] = t_[t] /\ item'[t] = item[t] /\ a_'[t] = a_[t] /\ dpc'[t] = dpc[t] /\ top' = top
        /\ arrays'[a_'[t]] = arrays'[a_[t]] /\ End' = End /\ Cur' = made
    BY <1>1, <1>5, <1>7, <1>8
  <2> QED
    BY <2>1, <2>2, <2>3, <2>4, <2>5 DEF ThiefLocals
<1> QED
  BY <1>6, <1>9, <1>10 DEF CLInv

LEMMA PushBottomKeeps == ASSUME CLInv, PushBottom PROVE CLInv'
<1>1. /\ dpc[Owner] = "push_bottom" /\ dpc' = [dpc EXCEPT ![Owner] = "idle"]
      /\ bottom' = bottom + 1
      /\ t_' = [t_ EXCEPT ![Owner] = 0] /\ a_' = [a_ EXCEPT ![Owner] = 1]
      /\ item' = [item EXCEPT ![Owner] = NoItem]
      /\ UNCHANGED <<top, array, arrays, pushed, got>>
  BY DEF PushBottom, CLGoto, Forget
<1>2. /\ CLTyped /\ Indices /\ OwnerLocals /\ Cur.capacity \in Nat \ {0}
  BY CurFacts DEF CLInv
<1>3. CLTyped'
  <2>1. /\ dpc' \in [Threads -> OwnerPlaces \union ThiefPlaces]
        /\ dpc'[Owner] \in OwnerPlaces /\ \A t \in Thief : dpc'[t] \in ThiefPlaces
    BY <1>1, <1>2 DEF CLTyped, OwnerPlaces, ThiefPlaces, Threads
  <2>2. t_' \in [Threads -> Nat] /\ a_' \in [Threads -> 1..Len(arrays)]
    <3>1. 1 \in 1..Len(arrays)
      BY <1>2 DEF CLTyped
    <3> QED
      BY <1>1, <1>2, <3>1 DEF CLTyped
  <2>3. NoItem \in Contents
    BY DEF Contents
  <2>4. item' \in [Threads -> Contents]
    BY <1>1, <1>2, <2>3 DEF CLTyped
  <2> QED
    BY <1>1, <1>2, <2>1, <2>2, <2>4 DEF CLTyped
<1>4. /\ dpc'[Owner] = "idle"
      /\ \A t \in Thief : dpc'[t] = dpc[t] /\ t_'[t] = t_[t] /\ a_'[t] = a_[t] /\ item'[t] = item[t]
  BY <1>1, <1>2 DEF CLTyped, Threads
<1>5. Indices' /\ OwnerLocals'
  <2>1. t_[Owner] \in Nat
    BY <1>2 DEF CLTyped, Threads
  <2> QED
    BY <1>1, <1>2, <1>4, <2>1 DEF CLTyped, Indices, OwnerLocals, Restored, Pushing, End, Cur
<1>6. \A t \in Thief : ThiefLocals(t)'
  <2>1. End = bottom /\ End' = bottom + 1 /\ bottom \in Int /\ top \in Nat
    BY <1>1, <1>2, <1>4 DEF CLTyped, End
  <2> QED
    BY <1>1, <1>4, <2>1, ThievesKept
<1> QED
  BY <1>3, <1>5, <1>6 DEF CLInv

LEMMA PopBottomKeeps == ASSUME CLInv, PopBottom PROVE CLInv'
<1>1. /\ dpc[Owner] = "idle" /\ dpc' = [dpc EXCEPT ![Owner] = "pop_top"]
      /\ bottom' = bottom - 1
      /\ UNCHANGED <<top, array, arrays, pushed, t_, a_, item, got>>
  BY DEF PopBottom, CLGoto, clLocals
<1>2. /\ CLTyped /\ Indices /\ OwnerLocals /\ Cur.capacity \in Nat \ {0}
  BY CurFacts DEF CLInv
<1>3. CLTyped'
  <2>1. /\ dpc' \in [Threads -> OwnerPlaces \union ThiefPlaces]
        /\ dpc'[Owner] \in OwnerPlaces /\ \A t \in Thief : dpc'[t] \in ThiefPlaces
    BY <1>1, <1>2 DEF CLTyped, OwnerPlaces, ThiefPlaces, Threads
  <2> QED
    BY <1>1, <1>2, <2>1 DEF CLTyped
<1>4. /\ dpc'[Owner] = "pop_top"
      /\ \A t \in Thief : dpc'[t] = dpc[t] /\ t_'[t] = t_[t] /\ a_'[t] = a_[t] /\ item'[t] = item[t]
  BY <1>1, <1>2 DEF CLTyped, Threads
<1>5. Indices' /\ OwnerLocals'
  BY <1>1, <1>2, <1>4 DEF CLTyped, Indices, OwnerLocals, Restored, Pushing, End, Cur
<1>6. \A t \in Thief : ThiefLocals(t)'
  <2>1. End' = End
    BY <1>1, <1>2, <1>4 DEF CLTyped, End
  <2> QED
    BY <1>1, <1>4, <2>1, ThievesKept
<1> QED
  BY <1>3, <1>5, <1>6 DEF CLInv

LEMMA PopTopKeeps == ASSUME CLInv, PopTop PROVE CLInv'
<1>1. /\ dpc[Owner] = "pop_top"
      /\ UNCHANGED <<top, bottom, array, arrays, pushed, a_>>
      /\ \/ /\ top < bottom /\ dpc' = [dpc EXCEPT ![Owner] = "idle"]
            /\ got' = [got EXCEPT ![Owner] = Get(Cur, bottom)]
            /\ t_' = t_ /\ item' = item
         \/ /\ top > bottom /\ dpc' = [dpc EXCEPT ![Owner] = "pop_restore"]
            /\ t_' = [t_ EXCEPT ![Owner] = top]
            /\ got' = [got EXCEPT ![Owner] = NoItem] /\ item' = item
         \/ /\ top = bottom /\ dpc' = [dpc EXCEPT ![Owner] = "pop_cas"]
            /\ t_' = [t_ EXCEPT ![Owner] = top]
            /\ item' = [item EXCEPT ![Owner] = Get(Cur, bottom)] /\ got' = got
  BY DEF PopTop, CLGoto, sharedVars, Cur
<1>2. /\ CLTyped /\ Indices /\ OwnerLocals /\ Cur.capacity \in Nat \ {0}
  BY CurFacts DEF CLInv
<1>3. /\ top <= bottom => bottom \in Nat /\ Get(Cur, bottom) \in Contents
      /\ NoItem \in Contents /\ top \in Nat /\ bottom \in Int
  BY <1>2, CurFacts DEF CLTyped, Contents
<1>4. CLTyped'
  <2>1. /\ dpc' \in [Threads -> OwnerPlaces \union ThiefPlaces]
        /\ dpc'[Owner] \in OwnerPlaces /\ \A t \in Thief : dpc'[t] \in ThiefPlaces
    BY <1>1, <1>2 DEF CLTyped, OwnerPlaces, ThiefPlaces, Threads
  <2>2. t_' \in [Threads -> Nat]
    BY <1>1, <1>2, <1>3 DEF CLTyped
  <2>3. item' \in [Threads -> Contents]
    BY <1>1, <1>2, <1>3 DEF CLTyped
  <2>4. got' \in [Threads -> Contents]
    <3>1. got \in [Threads -> Contents]
      BY <1>2 DEF CLTyped
    <3>2. got' = got \/ \E v \in Contents : got' = [got EXCEPT ![Owner] = v]
      BY <1>1, <1>3
    <3> QED
      BY <3>1, <3>2
  <2> QED
    BY <1>1, <1>2, <2>1, <2>2, <2>3, <2>4 DEF CLTyped
<1>5. /\ \/ dpc'[Owner] = "idle" /\ top < bottom
         \/ dpc'[Owner] = "pop_restore" /\ top > bottom /\ t_'[Owner] = top
         \/ /\ dpc'[Owner] = "pop_cas" /\ top = bottom /\ t_'[Owner] = top
            /\ item'[Owner] = Get(Cur, bottom)
      /\ \A t \in Thief : dpc'[t] = dpc[t] /\ t_'[t] = t_[t] /\ a_'[t] = a_[t] /\ item'[t] = item[t]
  BY <1>1, <1>2 DEF CLTyped, Threads
<1>6. Indices'
  BY <1>1, <1>2, <1>3, <1>5 DEF CLTyped, Indices, Restored, Pushing, End, Cur
<1>7. OwnerLocals'
  BY <1>1, <1>2, <1>3, <1>5 DEF Indices, OwnerLocals, Restored, Pushing, Cur
<1>8. \A t \in Thief : ThiefLocals(t)'
  <2>1. top < End => top < End'
    BY <1>1, <1>3, <1>5 DEF End
  <2> QED
    BY <1>1, <1>5, <2>1, ThievesKept
<1> QED
  BY <1>4, <1>6, <1>7, <1>8 DEF CLInv

LEMMA PopLastKeeps == ASSUME CLInv, PopLast PROVE CLInv'
<1>1. /\ dpc[Owner] = "pop_cas" /\ dpc' = [dpc EXCEPT ![Owner] = "pop_restore"]
      /\ t_' = [t_ EXCEPT ![Owner] = t_[Owner] + 1]
      /\ UNCHANGED <<bottom, array, arrays, pushed, a_, item>>
      /\ \/ /\ top = t_[Owner] /\ top' = top + 1
            /\ got' = [got EXCEPT ![Owner] = item[Owner]]
         \/ /\ top # t_[Owner] /\ top' = top
            /\ got' = [got EXCEPT ![Owner] = NoItem]
  BY DEF PopLast, CLGoto
<1>2. /\ CLTyped /\ Indices /\ OwnerLocals /\ Cur.capacity \in Nat \ {0}
  BY CurFacts DEF CLInv
<1>3. /\ bottom \in Nat /\ t_[Owner] = bottom /\ top >= bottom /\ top <= bottom + 1
      /\ top \in Nat /\ top' = bottom + 1 /\ item[Owner] \in Contents /\ NoItem \in Contents
  BY <1>1, <1>2 DEF CLTyped, Indices, OwnerLocals, Restored, Threads, Contents
<1>4. CLTyped'
  <2>1. /\ dpc' \in [Threads -> OwnerPlaces \union ThiefPlaces]
        /\ dpc'[Owner] \in OwnerPlaces /\ \A t \in Thief : dpc'[t] \in ThiefPlaces
    BY <1>1, <1>2 DEF CLTyped, OwnerPlaces, ThiefPlaces, Threads
  <2>2. t_[Owner] + 1 \in Nat /\ top' \in Nat
    BY <1>3
  <2>3. t_' \in [Threads -> Nat]
    BY <1>1, <1>2, <2>2 DEF CLTyped
  <2>4. got' \in [Threads -> Contents]
    BY <1>1, <1>2, <1>3 DEF CLTyped
  <2> QED
    BY <1>1, <1>2, <2>1, <2>2, <2>3, <2>4 DEF CLTyped
<1>5. /\ dpc'[Owner] = "pop_restore" /\ t_'[Owner] = bottom + 1
      /\ \A t \in Thief : dpc'[t] = dpc[t] /\ t_'[t] = t_[t] /\ a_'[t] = a_[t] /\ item'[t] = item[t]
  BY <1>1, <1>2, <1>3 DEF CLTyped, Threads
<1>6. Indices'
  BY <1>1, <1>2, <1>3, <1>5 DEF CLTyped, Indices, Restored, Pushing, End, Cur
<1>7. OwnerLocals'
  BY <1>1, <1>3, <1>5 DEF OwnerLocals, Pushing
<1>8. ASSUME NEW t \in Thief PROVE ThiefLocals(t)'
  <2>1. ThiefLocals(t) /\ t_[t] \in Nat
    BY <1>2 DEF CLInv, CLTyped, Threads
  <2>2. CASE top' = top
    <3>1. top < End => top < End'
      BY <1>1, <1>3, <1>5, <2>2 DEF End
    <3> QED
      BY <1>1, <1>5, <2>2, <3>1, ThievesKept
  <2>3. CASE top' # top
    <3>1. t_[t] < top' /\ top' \in Nat
      BY <1>1, <1>3, <2>1, <2>3 DEF ThiefLocals
    <3>2. t_'[t] = t_[t]
      BY <1>5
    <3> QED
      BY <2>1, <3>1, <3>2 DEF ThiefLocals
  <2> QED
    BY <2>2, <2>3
<1> QED
  BY <1>4, <1>6, <1>7, <1>8 DEF CLInv

LEMMA PopRestoreKeeps == ASSUME CLInv, PopRestore PROVE CLInv'
<1>1. /\ dpc[Owner] = "pop_restore" /\ dpc' = [dpc EXCEPT ![Owner] = "idle"]
      /\ bottom' = t_[Owner]
      /\ t_' = [t_ EXCEPT ![Owner] = 0] /\ a_' = [a_ EXCEPT ![Owner] = 1]
      /\ item' = [item EXCEPT ![Owner] = NoItem]
      /\ UNCHANGED <<top, array, arrays, pushed, got>>
  BY DEF PopRestore, CLGoto, Forget
<1>2. /\ CLTyped /\ Indices /\ OwnerLocals /\ Cur.capacity \in Nat \ {0}
  BY CurFacts DEF CLInv
<1>3. CLTyped'
  <2>1. /\ dpc' \in [Threads -> OwnerPlaces \union ThiefPlaces]
        /\ dpc'[Owner] \in OwnerPlaces /\ \A t \in Thief : dpc'[t] \in ThiefPlaces
    BY <1>1, <1>2 DEF CLTyped, OwnerPlaces, ThiefPlaces, Threads
  <2>2. /\ t_' \in [Threads -> Nat] /\ a_' \in [Threads -> 1..Len(arrays)]
        /\ item' \in [Threads -> Contents] /\ bottom' \in Int
    BY <1>1, <1>2 DEF CLTyped, Contents, Threads
  <2> QED
    BY <1>1, <1>2, <2>1, <2>2 DEF CLTyped
<1>4. /\ dpc'[Owner] = "idle" /\ bottom' = top /\ top = bottom + 1 /\ top \in Nat
      /\ \A t \in Thief : dpc'[t] = dpc[t] /\ t_'[t] = t_[t] /\ a_'[t] = a_[t] /\ item'[t] = item[t]
  BY <1>1, <1>2 DEF CLTyped, Threads, OwnerLocals
<1>5. Indices' /\ OwnerLocals'
  BY <1>1, <1>2, <1>4 DEF CLTyped, Indices, OwnerLocals, Restored, Pushing, End, Cur
<1>6. \A t \in Thief : ThiefLocals(t)'
  <2>1. top < End => top < End'
    BY <1>1, <1>2, <1>4 DEF CLTyped, End
  <2> QED
    BY <1>1, <1>4, <2>1, ThievesKept
<1> QED
  BY <1>3, <1>5, <1>6 DEF CLInv

-----------------------------------------------------------------------------
(* The steps of the thieves *)

\* What a step of thief t changes of the locals.
OnlyOf(t) ==
    \A u \in Threads : u # t =>
        dpc'[u] = dpc[u] /\ t_'[u] = t_[u] /\ a_'[u] = a_[u] /\ item'[u] = item[u]

LEMMA StealKeepsOthers ==
    ASSUME CLInv, NEW t \in Thief, OnlyOf(t), UNCHANGED <<sharedVars, pushed>>
    PROVE  /\ Indices' /\ OwnerLocals' /\ End' = End /\ Cur' = Cur
           /\ \A u \in Thief : u # t => ThiefLocals(u)'
<1>1. /\ dpc'[Owner] = dpc[Owner] /\ t_'[Owner] = t_[Owner] /\ item'[Owner] = item[Owner]
      /\ top' = top /\ bottom' = bottom /\ array' = array /\ arrays' = arrays /\ pushed' = pushed
  BY DEF OnlyOf, Threads, sharedVars
<1>2. Indices' /\ OwnerLocals' /\ End' = End /\ Cur' = Cur
  BY <1>1 DEF CLInv, Indices, OwnerLocals, Restored, Pushing, End, Cur
<1>3. ASSUME NEW u \in Thief, u # t PROVE ThiefLocals(u)'
  <2>1. /\ ThiefLocals(u) /\ dpc'[u] = dpc[u] /\ t_'[u] = t_[u] /\ a_'[u] = a_[u] /\ item'[u] = item[u]
    BY <1>3 DEF CLInv, OnlyOf, Threads
  <2> QED
    BY <1>1, <1>2, <2>1 DEF ThiefLocals
<1> QED
  BY <1>2, <1>3

\* The types of a thief's step.
LEMMA StealTyped ==
    ASSUME CLTyped, NEW t \in Thief, NEW l \in ThiefPlaces, dpc' = [dpc EXCEPT ![t] = l],
           top' \in Nat, bottom' = bottom, arrays' = arrays, array' = array, pushed' = pushed,
           t_' \in [Threads -> Nat], a_' \in [Threads -> 1..Len(arrays)],
           item' \in [Threads -> Contents], got' \in [Threads -> Contents]
    PROVE  CLTyped'
<1>1. /\ dpc' \in [Threads -> OwnerPlaces \union ThiefPlaces]
      /\ dpc'[Owner] \in OwnerPlaces /\ \A u \in Thief : dpc'[u] \in ThiefPlaces
  BY DEF CLTyped, Threads
<1> QED
  BY <1>1 DEF CLTyped

LEMMA Forgotten ==
    ASSUME CLTyped, NEW t \in Thief, Forget(t), NEW l \in ThiefPlaces,
           dpc' = [dpc EXCEPT ![t] = l]
    PROVE  /\ OnlyOf(t) /\ t_'[t] = 0 /\ dpc'[t] = l
           /\ t_' \in [Threads -> Nat] /\ a_' \in [Threads -> 1..Len(arrays)]
           /\ item' \in [Threads -> Contents]
<1>1. 1 \in 1..Len(arrays) /\ NoItem \in Contents /\ t \in Threads
  BY DEF CLTyped, Contents, Threads
<1>2. t_' \in [Threads -> Nat] /\ t_'[t] = 0
  BY <1>1 DEF CLTyped, Forget
<1>3. a_' \in [Threads -> 1..Len(arrays)]
  BY <1>1 DEF CLTyped, Forget
<1>4. item' \in [Threads -> Contents]
  BY <1>1 DEF CLTyped, Forget
<1>5. OnlyOf(t) /\ dpc'[t] = l
  BY <1>1 DEF CLTyped, Forget, OnlyOf
<1> QED
  BY <1>2, <1>3, <1>4, <1>5

LEMMA StealTopKeeps == ASSUME CLInv, NEW t \in Thief, StealTop(t) PROVE CLInv'
<1>1. /\ dpc' = [dpc EXCEPT ![t] = "steal_bottom"] /\ t_' = [t_ EXCEPT ![t] = top]
      /\ UNCHANGED <<sharedVars, pushed>> /\ a_' = a_ /\ item' = item /\ got' = got
      /\ top' = top /\ bottom' = bottom /\ array' = array /\ arrays' = arrays /\ pushed' = pushed
  BY DEF StealTop, CLGoto, sharedVars
<1>2. CLTyped /\ "steal_bottom" \in ThiefPlaces /\ t \in Threads
  BY DEF CLInv, ThiefPlaces, Threads
<1>3. OnlyOf(t) /\ dpc'[t] = "steal_bottom" /\ t_'[t] = top /\ top \in Nat
  BY <1>1, <1>2 DEF CLTyped, OnlyOf
<1>4. t_' \in [Threads -> Nat]
  BY <1>1, <1>2 DEF CLTyped
<1>5. CLTyped'
  <2>1. /\ a_' \in [Threads -> 1..Len(arrays)] /\ item' \in [Threads -> Contents]
        /\ got' \in [Threads -> Contents] /\ top' \in Nat
    BY <1>1, <1>2 DEF CLTyped
  <2> QED
    BY <1>1, <1>2, <1>4, <2>1, StealTyped
<1>6. ThiefLocals(t)'
  BY <1>1, <1>3 DEF ThiefLocals
<1> QED
  BY <1>1, <1>3, <1>5, <1>6, StealKeepsOthers DEF CLInv

LEMMA StealBottomKeeps == ASSUME CLInv, NEW t \in Thief, StealBottom(t) PROVE CLInv'
<1>1. /\ dpc[t] = "steal_bottom" /\ UNCHANGED <<sharedVars, pushed>>
      /\ top' = top /\ bottom' = bottom /\ array' = array /\ arrays' = arrays /\ pushed' = pushed
  BY DEF StealBottom, CLGoto, sharedVars
<1>2. /\ CLTyped /\ Indices /\ OwnerLocals /\ ThiefLocals(t) /\ t \in Threads
      /\ "steal_array" \in ThiefPlaces /\ "idle" \in ThiefPlaces /\ NoItem \in Contents
      /\ top \in Nat /\ bottom \in Int
  BY DEF CLInv, CLTyped, ThiefPlaces, Threads, Contents
<1>3. CASE t_[t] < bottom
  <2>1. dpc' = [dpc EXCEPT ![t] = "steal_array"] /\ t_' = t_ /\ a_' = a_ /\ item' = item /\ got' = got
    BY <1>3 DEF StealBottom, CLGoto, clLocals
  <2>2. OnlyOf(t) /\ dpc'[t] = "steal_array" /\ t_'[t] = t_[t]
    BY <1>2, <2>1 DEF CLTyped, OnlyOf
  <2>3. CLTyped'
    <3>1. /\ a_' \in [Threads -> 1..Len(arrays)] /\ item' \in [Threads -> Contents]
          /\ got' \in [Threads -> Contents] /\ top' \in Nat /\ t_' \in [Threads -> Nat]
      BY <1>1, <1>2, <2>1 DEF CLTyped
    <3> QED
      BY <1>1, <1>2, <2>1, <3>1, StealTyped
  <2>4. Indices' /\ OwnerLocals' /\ End' = End /\ \A u \in Thief : u # t => ThiefLocals(u)'
    BY <1>1, <2>2, StealKeepsOthers
  <2>5. t_[t] = top => top < End
    BY <1>2, <1>3 DEF End
  <2>6. ThiefLocals(t)'
    BY <1>1, <1>2, <2>2, <2>4, <2>5 DEF ThiefLocals
  <2> QED
    BY <2>3, <2>4, <2>6 DEF CLInv
<1>4. CASE ~(t_[t] < bottom)
  <2>1. dpc' = [dpc EXCEPT ![t] = "idle"] /\ Forget(t) /\ got' = [got EXCEPT ![t] = NoItem]
    BY <1>4 DEF StealBottom, CLGoto
  <2>2. /\ OnlyOf(t) /\ t_'[t] = 0 /\ dpc'[t] = "idle"
        /\ t_' \in [Threads -> Nat] /\ a_' \in [Threads -> 1..Len(arrays)]
        /\ item' \in [Threads -> Contents]
    BY <1>2, <2>1, Forgotten
  <2>3. CLTyped'
    <3>1. got' \in [Threads -> Contents] /\ top' \in Nat
      BY <1>1, <1>2, <2>1 DEF CLTyped
    <3> QED
      BY <1>1, <1>2, <2>1, <2>2, <3>1, StealTyped
  <2>4. ThiefLocals(t)'
    BY <1>1, <1>2, <2>2 DEF ThiefLocals
  <2> QED
    BY <1>1, <2>2, <2>3, <2>4, StealKeepsOthers DEF CLInv
<1> QED
  BY <1>3, <1>4

LEMMA StealArrayKeeps == ASSUME CLInv, NEW t \in Thief, StealArray(t) PROVE CLInv'
<1>1. /\ dpc[t] = "steal_array" /\ dpc' = [dpc EXCEPT ![t] = "steal_get"]
      /\ a_' = [a_ EXCEPT ![t] = array]
      /\ UNCHANGED <<sharedVars, pushed>> /\ t_' = t_ /\ item' = item /\ got' = got
      /\ top' = top /\ bottom' = bottom /\ array' = array /\ arrays' = arrays /\ pushed' = pushed
  BY DEF StealArray, CLGoto, sharedVars
<1>2. CLTyped /\ ThiefLocals(t) /\ "steal_get" \in ThiefPlaces /\ t \in Threads
  BY DEF CLInv, ThiefPlaces, Threads
<1>3. OnlyOf(t) /\ dpc'[t] = "steal_get" /\ t_'[t] = t_[t] /\ a_'[t] = array
  BY <1>1, <1>2 DEF CLTyped, OnlyOf
<1>4. a_' \in [Threads -> 1..Len(arrays)]
  BY <1>1, <1>2 DEF CLTyped
<1>5. CLTyped'
  <2>1. /\ t_' \in [Threads -> Nat] /\ item' \in [Threads -> Contents]
        /\ got' \in [Threads -> Contents] /\ top' \in Nat
    BY <1>1, <1>2 DEF CLTyped
  <2> QED
    BY <1>1, <1>2, <1>4, <2>1, StealTyped
<1>6. /\ Indices' /\ OwnerLocals' /\ End' = End /\ Cur' = Cur
      /\ \A u \in Thief : u # t => ThiefLocals(u)'
  BY <1>1, <1>3, StealKeepsOthers
<1>7. ThiefLocals(t)'
  BY <1>1, <1>2, <1>3, <1>6 DEF ThiefLocals, Cur
<1> QED
  BY <1>5, <1>6, <1>7 DEF CLInv

LEMMA StealGetKeeps == ASSUME CLInv, NEW t \in Thief, StealGet(t) PROVE CLInv'
<1>1. /\ dpc[t] = "steal_get" /\ dpc' = [dpc EXCEPT ![t] = "steal_cas"]
      /\ item' = [item EXCEPT ![t] = Get(arrays[a_[t]], t_[t])]
      /\ UNCHANGED <<sharedVars, pushed>> /\ t_' = t_ /\ a_' = a_ /\ got' = got
      /\ top' = top /\ bottom' = bottom /\ array' = array /\ arrays' = arrays /\ pushed' = pushed
  BY DEF StealGet, CLGoto, sharedVars
<1>2. CLTyped /\ ThiefLocals(t) /\ "steal_cas" \in ThiefPlaces /\ t \in Threads
  BY DEF CLInv, ThiefPlaces, Threads
<1>3. /\ OnlyOf(t) /\ dpc'[t] = "steal_cas" /\ t_'[t] = t_[t]
      /\ item'[t] = Get(arrays[a_[t]], t_[t])
  BY <1>1, <1>2 DEF CLTyped, OnlyOf
<1>4. item' \in [Threads -> Contents]
  <2>1. t_[t] \in Nat
    BY <1>2 DEF CLTyped
  <2>2. Get(arrays[a_[t]], t_[t]) \in Contents
    BY <1>2, <2>1, CurFacts
  <2> QED
    BY <1>1, <1>2, <2>2 DEF CLTyped
<1>5. CLTyped'
  <2>1. /\ t_' \in [Threads -> Nat] /\ a_' \in [Threads -> 1..Len(arrays)]
        /\ got' \in [Threads -> Contents] /\ top' \in Nat
    BY <1>1, <1>2 DEF CLTyped
  <2> QED
    BY <1>1, <1>2, <1>4, <2>1, StealTyped
<1>6. /\ Indices' /\ OwnerLocals' /\ End' = End /\ Cur' = Cur
      /\ \A u \in Thief : u # t => ThiefLocals(u)'
  BY <1>1, <1>3, StealKeepsOthers
<1>7. ThiefLocals(t)'
  BY <1>1, <1>2, <1>3, <1>6 DEF ThiefLocals
<1> QED
  BY <1>5, <1>6, <1>7 DEF CLInv

LEMMA StealCASKeeps == ASSUME CLInv, NEW t \in Thief, StealCAS(t) PROVE CLInv'
<1>1. /\ dpc[t] = "steal_cas" /\ dpc' = [dpc EXCEPT ![t] = "idle"] /\ Forget(t)
      /\ top = t_[t] /\ top' = top + 1 /\ got' = [got EXCEPT ![t] = item[t]]
      /\ bottom' = bottom /\ array' = array /\ arrays' = arrays /\ pushed' = pushed
  BY DEF StealCAS, CLGoto
<1>2. /\ CLTyped /\ Indices /\ OwnerLocals /\ ThiefLocals(t) /\ t \in Threads
      /\ "idle" \in ThiefPlaces /\ top \in Nat /\ bottom \in Int /\ item[t] \in Contents
      /\ Cur.capacity \in Nat
  BY CurFacts DEF CLInv, CLTyped, ThiefPlaces, Threads
<1>3. /\ OnlyOf(t) /\ t_'[t] = 0 /\ dpc'[t] = "idle"
      /\ t_' \in [Threads -> Nat] /\ a_' \in [Threads -> 1..Len(arrays)]
      /\ item' \in [Threads -> Contents]
  BY <1>1, <1>2, Forgotten
<1>4. top < End
  BY <1>1, <1>2 DEF ThiefLocals
<1>5. CLTyped'
  <2>1. got' \in [Threads -> Contents] /\ top' \in Nat
    BY <1>1, <1>2 DEF CLTyped
  <2> QED
    BY <1>1, <1>2, <1>3, <2>1, StealTyped
<1>6. dpc'[Owner] = dpc[Owner] /\ t_'[Owner] = t_[Owner] /\ item'[Owner] = item[Owner]
  BY <1>3 DEF OnlyOf, Threads
<1>7. Indices'
  BY <1>1, <1>2, <1>4, <1>6 DEF Indices, Restored, Pushing, End, Cur
<1>8. OwnerLocals'
  <2>1. t_[Owner] \in Nat
    BY <1>2 DEF CLTyped, Threads
  <2> QED
    BY <1>1, <1>2, <1>4, <1>6, <2>1 DEF OwnerLocals, Pushing, End, Cur
<1>9. ASSUME NEW u \in Thief PROVE ThiefLocals(u)'
  <2>1. t_'[u] \in Nat /\ t_'[u] < top'
    <3>1. ThiefLocals(u) /\ u \in Threads /\ t_[u] \in Nat
      BY <1>2 DEF CLInv, CLTyped, Threads
    <3>2. t_'[u] = t_[u] \/ t_'[u] = 0
      BY <1>3, <3>1 DEF OnlyOf
    <3> QED
      BY <1>1, <1>2, <3>1, <3>2 DEF ThiefLocals
  <2>2. top' \in Nat
    BY <1>1, <1>2
  <2> QED
    BY <2>1, <2>2 DEF ThiefLocals
<1> QED
  BY <1>5, <1>7, <1>8, <1>9 DEF CLInv

LEMMA StealFailKeeps == ASSUME CLInv, NEW t \in Thief, StealFail(t) PROVE CLInv'
<1>1. /\ dpc' = [dpc EXCEPT ![t] = "idle"] /\ Forget(t) /\ got' = [got EXCEPT ![t] = NoItem]
      /\ UNCHANGED <<sharedVars, pushed>>
      /\ top' = top /\ bottom' = bottom /\ array' = array /\ arrays' = arrays /\ pushed' = pushed
  BY DEF StealFail, CLGoto, sharedVars
<1>2. CLTyped /\ "idle" \in ThiefPlaces /\ NoItem \in Contents /\ top \in Nat
  BY DEF CLInv, CLTyped, ThiefPlaces, Contents
<1>3. /\ OnlyOf(t) /\ t_'[t] = 0 /\ dpc'[t] = "idle"
      /\ t_' \in [Threads -> Nat] /\ a_' \in [Threads -> 1..Len(arrays)]
      /\ item' \in [Threads -> Contents]
  BY <1>1, <1>2, Forgotten
<1>4. CLTyped'
  <2>1. got' \in [Threads -> Contents] /\ top' \in Nat
    BY <1>1, <1>2 DEF CLTyped
  <2> QED
    BY <1>1, <1>2, <1>3, <2>1, StealTyped
<1>5. ThiefLocals(t)'
  BY <1>1, <1>2, <1>3 DEF ThiefLocals
<1> QED
  BY <1>1, <1>3, <1>4, <1>5, StealKeepsOthers DEF CLInv

LEMMA CLInvStep == CLInv /\ [CLNext]_clVars => CLInv'
<1> SUFFICES ASSUME CLInv, [CLNext]_clVars PROVE CLInv'
  OBVIOUS
<1>1. CASE OwnerStep
  BY <1>1, PushLoadKeeps, PushGrowKeeps, PushPutKeeps, PushBottomKeeps,
     PopBottomKeeps, PopTopKeeps, PopLastKeeps, PopRestoreKeeps DEF OwnerStep
<1>2. ASSUME NEW t \in Thief, StealStep(t) PROVE CLInv'
  BY <1>2, StealTopKeeps, StealBottomKeeps, StealArrayKeeps, StealGetKeeps,
     StealCASKeeps, StealFailKeeps DEF StealStep
<1>3. CASE UNCHANGED clVars
  <2>1. /\ top' = top /\ bottom' = bottom /\ array' = array /\ arrays' = arrays /\ pushed' = pushed
        /\ dpc' = dpc /\ t_' = t_ /\ a_' = a_ /\ item' = item /\ got' = got
    BY <1>3 DEF clVars, sharedVars, clLocals
  <2> QED
    BY <2>1 DEF CLInv, CLTyped, Indices, OwnerLocals, ThiefLocals, Restored, Pushing, End, Cur
<1> QED
  BY <1>1, <1>2, <1>3 DEF CLNext

LEMMA CLInvCorrect == CLSpec => []CLInv
BY CLInitInv, CLInvStep, PTL DEF CLSpec

-----------------------------------------------------------------------------
(* What the invariant says of the deque *)

LEMMA CLTypes == CLInv => CLTypeOK
<1> SUFFICES ASSUME CLInv PROVE CLTypeOK
  OBVIOUS
<1>1. CLTyped /\ Indices
  BY DEF CLInv
<1>2. top \in 0..MaxPush /\ bottom \in -1..MaxPush
  BY <1>1 DEF CLTyped, Indices, Restored, Pushing
<1>3. ASSUME NEW k \in 1..Len(arrays)
      PROVE  /\ arrays[k].capacity \in Nat \ {0}
             /\ arrays[k].slots \in [0..(arrays[k].capacity - 1) -> Item \union {Garbage}]
  <2>1. arrays[k] \in CircularArray
    BY <1>1 DEF CLTyped
  <2> QED
    BY <2>1, ArrayFacts
<1> QED
  BY <1>1, <1>2, <1>3 DEF CLTyped, CLTypeOK, OwnerPlaces, ThiefPlaces

\* The state of the deque is well typed whatever the threads do.
THEOREM CLTypeCorrect == CLSpec => []CLTypeOK
<1> QED
  BY CLInvCorrect, CLTypes, PTL

\* Live items have a slot each, although push() compares bottom_ with a top_ it
\* read earlier.
THEOREM FitsArrayCorrect == CLSpec => []FitsArray
<1>1. CLInv => FitsArray
  BY DEF CLInv, Indices, FitsArray, Cur
<1> QED
  BY CLInvCorrect, <1>1, PTL

\* A thief whose exchange will succeed has read the item that is at the top, also
\* from an array that has been replaced since.
THEOREM NoStaleStealCorrect == CLSpec => []NoStaleSteal
<1>1. CLInv => NoStaleSteal
  BY DEF CLInv, ThiefLocals, NoStaleSteal, Cur
<1> QED
  BY CLInvCorrect, <1>1, PTL

\* bottom_ is behind top_ only during a pop().
THEOREM BottomRestoredCorrect == CLSpec => []BottomRestored
<1>1. CLInv => BottomRestored
  BY DEF CLInv, Indices, BottomRestored, Restored
<1> QED
  BY CLInvCorrect, <1>1, PTL

-----------------------------------------------------------------------------
(* The deque is linearizable *)

Deque == [i \in 1..(IF End > top THEN End - top ELSE 0) |-> Get(arrays[array], top + i - 1)]

LEMMA DequeSteps == CLInv /\ [CLNext]_clVars => [CLAbs!ADNext]_<<Deque, got>>
<1> SUFFICES ASSUME CLInv, [CLNext]_clVars PROVE [CLAbs!ADNext]_<<Deque, got>>
  OBVIOUS
<1>1. /\ CLTyped /\ Indices /\ OwnerLocals /\ Cur \in CircularArray
      /\ top \in Nat /\ bottom \in Int /\ got \in [Threads -> Contents]
  BY CurFacts DEF CLInv, CLTyped
<1>2. Deque = Window(Cur, top, End) /\ Deque' = Window(Cur', top', End')
  BY DEF Deque, Window, Cur
<1> DEFINE d == Deque
           e == Deque'
<1>3. ASSUME e = d, got' = got PROVE [CLAbs!ADNext]_<<Deque, got>>
  BY <1>3
<1>4. ASSUME PushLoad PROVE e = d /\ got' = got
  <2>1. /\ Cur' = Cur /\ top' = top /\ End' = End /\ got' = got
    BY <1>1, <1>4 DEF PushLoad, CLGoto, sharedVars, Cur, End, CLTyped, Threads
  <2> QED
    BY <1>2, <2>1
<1>5. ASSUME PushGrow PROVE e = d /\ got' = got
  <2>1. /\ top' = top /\ End' = End /\ got' = got /\ End = bottom /\ dpc[Owner] = "push_grow"
    BY <1>1, <1>5 DEF PushGrow, CLGoto, End, CLTyped, Threads
  <2>2. Cur' = Grow(Cur, t_[Owner], bottom)
    BY <1>1, <1>5 DEF PushGrow, Cur, CLTyped
  <2>3. t_[Owner] \in Nat /\ t_[Owner] <= top /\ top <= bottom /\ bottom \in Nat
        /\ bottom - t_[Owner] <= Cur.capacity
    BY <1>1, <2>1 DEF CLTyped, Threads, Indices, OwnerLocals, Restored, Pushing
  <2>4. \A i \in t_[Owner]..(bottom - 1) : Get(Cur', i) = Get(Cur, i)
    BY <1>1, <2>2, <2>3, GrowFacts
  <2>5. \A i \in top..(bottom - 1) : Get(Cur, i) = Get(Cur', i)
    BY <1>1, <2>3, <2>4
  <2>6. Window(Cur, top, bottom) = Window(Cur', top, bottom)
    BY <1>1, <2>5, WindowSame
  <2> QED
    BY <1>2, <2>1, <2>6
<1>6. ASSUME PushPut PROVE e = d /\ got' = got
  <2>1. /\ top' = top /\ End' = End /\ got' = got /\ End = bottom /\ dpc[Owner] = "push_put"
    BY <1>1, <1>6 DEF PushPut, CLGoto, End, CLTyped, Threads
  <2>2. Cur' = Put(Cur, bottom, item[Owner])
    BY <1>1, <1>6 DEF PushPut, Cur, CLTyped
  <2>3. t_[Owner] \in Nat /\ t_[Owner] <= top /\ top <= bottom /\ bottom \in Nat
        /\ bottom - t_[Owner] < Cur.capacity /\ item[Owner] \in Item /\ Cur.capacity \in Nat
    BY <1>1, <2>1, CurFacts DEF CLTyped, Threads, Indices, OwnerLocals, Restored, Pushing
  <2>4. \A i \in Nat : i < bottom /\ bottom - i < Cur.capacity =>
           Get(Put(Cur, bottom, item[Owner]), i) = Get(Cur, i)
    BY <1>1, <2>3, PutFacts
  <2>5. \A i \in top..(bottom - 1) : Get(Cur, i) = Get(Cur', i)
    BY <1>1, <2>2, <2>3, <2>4
  <2>6. Window(Cur, top, bottom) = Window(Cur', top, bottom)
    BY <1>1, <2>5, WindowSame
  <2> QED
    BY <1>2, <2>1, <2>6
<1>7. ASSUME PushBottom PROVE CLAbs!ADNext
  <2>1. /\ dpc[Owner] = "push_bottom" /\ top' = top /\ Cur' = Cur /\ got' = got
        /\ End = bottom /\ End' = bottom + 1
    BY <1>1, <1>7 DEF PushBottom, CLGoto, End, CLTyped, Threads, Cur
  <2>2. top <= bottom /\ bottom \in Nat /\ item[Owner] \in Item /\ Get(Cur, bottom) = item[Owner]
    BY <1>1, <2>1 DEF Indices, Restored, OwnerLocals, Pushing
  <2>3. e = Append(d, item[Owner])
    BY <1>1, <1>2, <2>1, <2>2, WindowPush
  <2>4. CLAbs!ADPush(item[Owner])
    BY <2>1, <2>3 DEF CLAbs!ADPush, Deque
  <2> QED
    BY <2>2, <2>4 DEF CLAbs!ADNext
<1>8. ASSUME PopBottom PROVE e = d /\ got' = got
  <2>1. Cur' = Cur /\ top' = top /\ End' = End /\ got' = got
    BY <1>1, <1>8 DEF PopBottom, CLGoto, Cur, End, CLTyped, Threads
  <2> QED
    BY <1>2, <2>1
<1>9. ASSUME PopTop PROVE [CLAbs!ADNext]_<<Deque, got>>
  <2>1. dpc[Owner] = "pop_top" /\ Cur' = Cur /\ top' = top /\ bottom' = bottom /\ End = bottom + 1
    BY <1>1, <1>9 DEF PopTop, CLGoto, sharedVars, Cur, End
  <2>2. CASE top < bottom
    <3>1. End' = bottom /\ got' = [got EXCEPT ![Owner] = Get(Cur, bottom)]
      BY <1>1, <1>9, <2>1, <2>2 DEF PopTop, CLGoto, End, CLTyped, Threads, Cur
    <3>2. d # << >> /\ d[Len(d)] = Get(Cur, bottom) /\ e = SubSeq(d, 1, Len(d) - 1)
      <4>1. d = Window(Cur, top, bottom + 1) /\ e = Window(Cur, top, bottom)
        BY <1>2, <2>1, <3>1
      <4>2. bottom \in Nat /\ top <= bottom
        BY <1>1, <2>2
      <4> HIDE DEF d, e
      <4> QED
        BY <1>1, <4>1, <4>2, WindowPop
    <3>3. CLAbs!ADPop
      BY <3>1, <3>2 DEF CLAbs!ADPop, Deque
    <3> QED
      BY <3>3 DEF CLAbs!ADNext
  <2>3. CASE top > bottom
    <3>1. End' = bottom /\ got' = [got EXCEPT ![Owner] = NoItem]
      BY <1>1, <1>9, <2>1, <2>3 DEF PopTop, CLGoto, End, CLTyped, Threads
    <3>2. d = << >> /\ e = << >>
      BY <1>1, <1>2, <2>1, <2>3, <3>1, WindowFacts
    <3>3. CLAbs!ADPopEmpty
      BY <3>1, <3>2 DEF CLAbs!ADPopEmpty, Deque
    <3> QED
      BY <3>3 DEF CLAbs!ADNext
  <2>4. CASE top = bottom
    <3>1. End' = End /\ got' = got
      BY <1>1, <1>9, <2>1, <2>4 DEF PopTop, CLGoto, End, CLTyped, Threads
    <3> QED
      BY <1>2, <1>3, <2>1, <3>1
  <2> QED
    BY <1>1, <2>2, <2>3, <2>4
<1>10. ASSUME PopLast PROVE CLAbs!ADNext
  <2>1. /\ dpc[Owner] = "pop_cas" /\ Cur' = Cur /\ bottom' = bottom /\ End = bottom + 1
        /\ End' = bottom
    BY <1>1, <1>10 DEF PopLast, CLGoto, Cur, End, CLTyped, Threads
  <2>2. /\ bottom \in Nat /\ t_[Owner] = bottom /\ item[Owner] = Get(Cur, bottom)
        /\ top >= bottom /\ top <= bottom + 1
    BY <1>1, <2>1 DEF Indices, Restored, OwnerLocals
  <2>3. CASE top = bottom
    <3>1. top' = top + 1 /\ got' = [got EXCEPT ![Owner] = Get(Cur, bottom)]
      BY <1>10, <2>2, <2>3 DEF PopLast
    <3>2. d # << >> /\ d[Len(d)] = Get(Cur, bottom)
          /\ Window(Cur, top, bottom) = SubSeq(d, 1, Len(d) - 1)
      <4>1. d = Window(Cur, top, bottom + 1)
        BY <1>2, <2>1
      <4> HIDE DEF d
      <4> QED
        BY <1>1, <2>2, <2>3, <4>1, WindowPop
    <3>3. e = << >> /\ Window(Cur, top, bottom) = << >>
      BY <1>1, <1>2, <2>1, <2>2, <2>3, <3>1, WindowFacts
    <3>4. CLAbs!ADPop
      BY <3>1, <3>2, <3>3 DEF CLAbs!ADPop, Deque
    <3> QED
      BY <3>4 DEF CLAbs!ADNext
  <2>4. CASE top = bottom + 1
    <3>1. top' = top /\ got' = [got EXCEPT ![Owner] = NoItem]
      BY <1>10, <2>2, <2>4 DEF PopLast
    <3>2. d = << >> /\ e = << >>
      BY <1>1, <1>2, <2>1, <2>4, <3>1, WindowFacts
    <3>3. CLAbs!ADPopEmpty
      BY <3>1, <3>2 DEF CLAbs!ADPopEmpty, Deque
    <3> QED
      BY <3>3 DEF CLAbs!ADNext
  <2> QED
    BY <1>1, <2>2, <2>3, <2>4
<1>11. ASSUME PopRestore PROVE e = d /\ got' = got
  <2>1. /\ dpc[Owner] = "pop_restore" /\ Cur' = Cur /\ top' = top /\ got' = got
        /\ End = bottom /\ End' = bottom' /\ bottom' = t_[Owner]
    BY <1>1, <1>11 DEF PopRestore, CLGoto, Cur, End, CLTyped, Threads
  <2>2. End <= top /\ End' <= top /\ End \in Int /\ End' \in Int
    BY <1>1, <2>1 DEF OwnerLocals
  <2>3. d = << >> /\ e = << >>
    BY <1>1, <1>2, <2>1, <2>2, WindowFacts
  <2> QED
    BY <2>1, <2>3
<1>12. ASSUME NEW t \in Thief, StealTop(t) \/ StealArray(t) \/ StealGet(t) PROVE e = d /\ got' = got
  <2>1. Cur' = Cur /\ top' = top /\ End' = End /\ got' = got
    BY <1>1, <1>12 DEF StealTop, StealArray, StealGet, CLGoto, sharedVars, Cur, End, CLTyped, Threads
  <2> QED
    BY <1>2, <2>1
<1>13. ASSUME NEW t \in Thief, StealBottom(t) \/ StealFail(t)
       PROVE  [CLAbs!ADNext]_<<Deque, got>>
  <2>1. Cur' = Cur /\ top' = top /\ End' = End
    BY <1>1, <1>13 DEF StealBottom, StealFail, CLGoto, sharedVars, Cur, End, CLTyped, Threads
  <2>2. e = d
    BY <1>2, <2>1
  <2>3. got' = got \/ got' = [got EXCEPT ![t] = NoItem]
    BY <1>13 DEF StealBottom, StealFail
  <2>4. ASSUME got' = [got EXCEPT ![t] = NoItem] PROVE CLAbs!ADNext
    <3>1. CLAbs!ADStealNothing(t)
      BY <2>2, <2>4 DEF CLAbs!ADStealNothing, Deque
    <3> QED
      BY <3>1 DEF CLAbs!ADNext
  <2> QED
    BY <1>3, <2>2, <2>3, <2>4
<1>14. ASSUME NEW t \in Thief, StealCAS(t) PROVE CLAbs!ADNext
  <2>1. /\ dpc[t] = "steal_cas" /\ top = t_[t] /\ top' = top + 1 /\ Cur' = Cur /\ End' = End
        /\ got' = [got EXCEPT ![t] = item[t]]
    BY <1>1, <1>14 DEF StealCAS, CLGoto, Cur, End, CLTyped, Threads
  <2>2. top < End /\ item[t] = Get(Cur, top) /\ End \in Nat
    BY <1>1, <2>1 DEF CLInv, ThiefLocals, End
  <2>3. d # << >> /\ Head(d) = item[t] /\ e = Tail(d)
    BY <1>1, <1>2, <2>1, <2>2, WindowSteal
  <2>4. CLAbs!ADSteal(t)
    BY <2>1, <2>3 DEF CLAbs!ADSteal, Deque
  <2> QED
    BY <2>4 DEF CLAbs!ADNext
<1>15. ASSUME UNCHANGED clVars PROVE e = d /\ got' = got
  <2>1. Cur' = Cur /\ top' = top /\ End' = End /\ got' = got
    BY <1>15 DEF clVars, sharedVars, Cur, End
  <2> QED
    BY <1>2, <2>1
<1> HIDE DEF d, e
<1> QED
  BY <1>3, <1>4, <1>5, <1>6, <1>7, <1>8, <1>9, <1>10, <1>11, <1>12, <1>13, <1>14, <1>15
     DEF CLNext, OwnerStep, StealStep

\* Every push(), pop() and steal() takes effect at one instant, and every item is
\* taken once, for any number of thieves and items and any initial capacity.
THEOREM DequeLinearizableCorrect == CLSpec => DequeLinearizable
<1>1. CLInit => CLAbs!ADInit
  <2> SUFFICES ASSUME CLInit PROVE CLAbs!ADInit
    OBVIOUS
  <2>1. CLInv /\ End = 0 /\ top = 0
    BY CLInitInv DEF CLInit, End, Threads
  <2>2. Window(Cur, top, End) = << >>
    BY <2>1, CurFacts, WindowFacts DEF CLInv
  <2>3. Deque = << >>
    BY <2>2 DEF Deque, Window, Cur
  <2>4. got = [t \in Thief \union {Owner} |-> NoItem]
    BY DEF CLInit, Threads
  <2> QED
    BY <2>3, <2>4 DEF CLAbs!ADInit, Deque
<1>2. CLInv /\ [CLNext]_clVars => [CLAbs!ADNext]_<<Deque, got>>
  BY DequeSteps
<1> QED
  BY <1>1, <1>2, CLInvCorrect, PTL DEF CLSpec, DequeLinearizable, CLAbs!ADSpec, Deque

-----------------------------------------------------------------------------
(* The structures together *)

\* What StructuresConsistent says of the deque, the tagged stack and the snapshot
\* holds of them wherever one of them runs, until a tag wraps around.
THEOREM StructuresConsistentCorrect == MCSpec /\ []Unwrapped => []StructuresConsistent
<1>1. MCInit => CLInit /\ TGInit /\ WSInit
  BY DEF MCInit
<1>2. [MCNext]_vars => [CLNext]_clVars /\ [TGNext]_tgVars /\ [WSNext]_wsVars
  BY DEF MCNext, vars
<1>3. MCSpec => CLSpec /\ TGSpec /\ WSSpec
  BY <1>1, <1>2, PTL DEF MCSpec, CLSpec, TGSpec, WSSpec
<1>4. TGTyped => TGTypeOK
  BY DEF TGTyped
<1>5. WSInv => WSTypeOK
  BY DEF WSInv
<1> QED
  BY <1>3, <1>4, <1>5, CLTypeCorrect, FitsArrayCorrect, NoStaleStealCorrect, BottomRestoredCorrect,
     TypedCorrect, NoABACorrect, OneOwnerCorrect, WSInvCorrect, PTL DEF StructuresConsistent
=============================================================================
