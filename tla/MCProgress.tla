------------------------------ MODULE MCProgress ------------------------------
(***************************************************************************)
(* The structures whose operations must end, on small instances: the       *)
(* consensus object, the sequencers, the announce queue, the scheduler and *)
(* the read-copy-update engine.                                            *)
(* They do not interact; each behaviour runs one of them, named by "part". *)
(***************************************************************************)
EXTENDS WaitFreeObjects, AnnounceQueue, WorkScheduler, Rcu, SequenceTheorems, FiniteSetTheorems,
        TLAPS

VARIABLE part

vars == <<part, csVars, sqVars, aqVars, wkVars, rcuVars>>

MCInit ==
    /\ part \in {"consensus", "sequencers", "announce queue", "scheduler", "rcu"}
    /\ CSInit /\ SQInit /\ AQInit /\ WKInit /\ RcuInit
    /\ part # "consensus" => proposal = [t \in Proposer |-> CHOOSE v \in Value : TRUE]

MCNext ==
    /\ \/ part = "consensus" /\ CSNext /\ UNCHANGED <<sqVars, aqVars, wkVars, rcuVars>>
       \/ part = "sequencers" /\ SQNext /\ UNCHANGED <<csVars, aqVars, wkVars, rcuVars>>
       \/ part = "announce queue" /\ AQNext /\ UNCHANGED <<csVars, sqVars, wkVars, rcuVars>>
       \/ part = "scheduler" /\ WKNext /\ UNCHANGED <<csVars, sqVars, aqVars, rcuVars>>
       \/ part = "rcu" /\ RcuNext /\ UNCHANGED <<csVars, sqVars, aqVars, wkVars>>
    /\ UNCHANGED part

\* The fairness of CSFairSpec, SQFairSpec, AQFairSpec, WKFairSpec and
\* RcuFairSpec.
Fairness ==
    /\ \A t \in Proposer : WF_csVars(part = "consensus" /\ Decide(t) /\ cpc[t] # "idle")
    /\ \A t \in CASThread : /\ WF_sqVars(part = "sequencers" /\ (CAS(t) \/ CASFail(t)))
                             /\ SF_sqVars(part = "sequencers" /\ CAS(t))
    /\ \A t \in Thread : WF_aqVars(part = "announce queue" /\ InCall(t))
    /\ WF_wkVars(part = "scheduler" /\ MainStep)
    /\ \A w \in Worker : WF_wkVars(part = "scheduler" /\ WorkerStep(w))
    /\ \A r \in Reader : /\ WF_rcuVars(part = "rcu" /\ ReadLockStore(r))
                          /\ WF_rcuVars(part = "rcu" /\ ReadUnlock(r))
    /\ \A w \in Writer :
        WF_rcuVars(part = "rcu" /\ (AdvanceEpoch(w) \/ ObserveReader(w) \/ Delete(w)))

MCSpec == MCInit /\ [][MCNext]_vars /\ Fairness

\* The variables keep their types, decisions are proposals, no ticket is drawn
\* twice or skipped, and the announce table points to no finished operation;
\* the inductive invariant of the read-copy-update engine.
StructuresConsistent ==
    /\ CSTypeOK /\ Validity
    /\ TicketsExact
    /\ AQTypeOK /\ TableAlive
    /\ WKTypeOK
    /\ RcuInv

\* decide() and execute_op() are wait-free, the CAS sequencer is lock-free,
\* the parallel computation ends and so does every update of the RCU engine.
OperationsEnd ==
    DecideWaitFree /\ LockFree /\ QueueWaitFree /\ Terminates /\ UpdatesEnd
-----------------------------------------------------------------------------
(* Proofs of the consensus object and the sequencers, for any threads *)

\* Why decisions agree: the winner is set once, before anyone decides or reads it.
CSInv ==
    /\ CSTypeOK
    /\ \A t \in Proposer : cpc[t] # "idle" => t \in registry
    /\ \A t \in Proposer : cpc[t] = "read" => proposed_winner # NoValue
    /\ proposed_winner # NoValue => proposed_winner \in registry
    /\ \A t \in Proposer :
          decision[t] # NoValue => /\ proposed_winner # NoValue
                                   /\ decision[t] = proposal[proposed_winner]

\* At first nobody has decided.
LEMMA CSInvInit == CSInit => CSInv
BY NoneIsNoThread, NoneIsNoValue DEF CSInit, CSInv, CSTypeOK

\* Every step of decide() keeps the invariant.
LEMMA CSInvStep == CSInv /\ [CSNext]_csVars => CSInv'
<1> SUFFICES ASSUME CSInv, [CSNext]_csVars  PROVE CSInv'
  OBVIOUS
<1> USE NoneIsNoThread, NoneIsNoValue DEF CSInv, CSTypeOK, CSGoto
<1>1. ASSUME NEW t \in Proposer, Register(t)  PROVE CSInv'
  BY <1>1 DEF Register
<1>2. ASSUME NEW t \in Proposer, Win(t)  PROVE CSInv'
  <2>1. \A u \in Proposer : decision[u] = NoValue
    BY <1>2 DEF Win
  <2>2. CSTypeOK'
    BY <1>2 DEF Win
  <2> QED
    BY <1>2, <2>1, <2>2 DEF Win
<1>3. ASSUME NEW t \in Proposer, Lose(t)  PROVE CSInv'
  BY <1>3 DEF Lose
<1>4. ASSUME NEW t \in Proposer, Read(t)  PROVE CSInv'
  <2>1. proposed_winner \in Proposer
    BY <1>4 DEF Read
  <2> QED
    BY <1>4, <2>1 DEF Read
<1>5. CASE UNCHANGED csVars
  BY <1>5 DEF csVars
<1> QED
  BY <1>1, <1>2, <1>3, <1>4, <1>5 DEF CSNext, Decide, CSTerminated

\* The invariant of the consensus object, for any number of threads and proposals.
THEOREM CSInvCorrect == CSSpec => []CSInv
BY CSInvInit, CSInvStep, PTL DEF CSSpec

\* Whatever the number of threads, all decisions agree: what a thread decides is
\* the winner's proposal, and proposed_winner_ is exchanged once.
THEOREM AgreementCorrect == CSSpec => []Agreement
<1>1. CSInv => Agreement
  BY DEF CSInv, Agreement
<1> QED
  BY <1>1, CSInvCorrect, PTL

\* A decision is a proposal of a thread in the registry, where it stays alive.
THEOREM ValidityCorrect == CSSpec => []Validity
<1>1. CSInv => Validity
  BY DEF CSInv, CSTypeOK, Validity
<1> QED
  BY <1>1, CSInvCorrect, PTL

\* Why tickets are exact: a thread's ticket is a number the counter has passed,
\* and an exchange succeeds only on the value it read.
SQInv ==
    /\ faa_counter \in Nat /\ cas_counter \in Nat
    /\ current \in [CASThread -> Nat]
    /\ spc \in [CASThread -> {"idle", "cas"}]
    /\ tickets \in [Client -> SUBSET Nat]
    /\ TicketsExact

\* At first no ticket is drawn.
LEMMA SQInvInit == SQInit => SQInv
BY KindsDisjoint DEF SQInv, Client, SQInit, TicketsExact

\* Every step of either sequencer keeps the invariant.
LEMMA SQInvStep == SQInv /\ [SQNext]_sqVars => SQInv'
<1> USE KindsDisjoint DEF SQInv, Client
<1> SUFFICES ASSUME SQInv, [SQNext]_sqVars  PROVE SQInv'
  OBVIOUS
<1>1. ASSUME NEW t \in FAAThread, FetchAdd(t)  PROVE SQInv'
  <2>1. \A u \in FAAThread : faa_counter \notin tickets[u]
    BY DEF TicketsExact
  <2>2. /\ tickets' \in [Client -> SUBSET Nat]
        /\ tickets'[t] = tickets[t] \union {faa_counter}
        /\ \A u \in Client : u # t => tickets'[u] = tickets[u]
    BY <1>1 DEF FetchAdd
  <2>3. TicketsExact'
    <3>1. \A u, v \in FAAThread : u # v => tickets'[u] \intersect tickets'[v] = {}
      BY <2>1, <2>2 DEF TicketsExact
    <3>2. \A u \in CASThread : tickets'[u] = tickets[u]
      BY <2>2
    <3>3. UNION {tickets'[u] : u \in FAAThread}
            = (UNION {tickets[u] : u \in FAAThread}) \union {faa_counter}
      BY <2>2
    <3>4. {k \in 0..(faa_counter + 1) : k < faa_counter + 1}
            = {k \in 0..faa_counter : k < faa_counter} \union {faa_counter}
      OBVIOUS
    <3>5. faa_counter' = faa_counter + 1 /\ cas_counter' = cas_counter
      BY <1>1 DEF FetchAdd
    <3>6. UNION {tickets'[u] : u \in CASThread} = UNION {tickets[u] : u \in CASThread}
      BY <3>2
    <3> QED
      BY <3>1, <3>2, <3>3, <3>4, <3>5, <3>6 DEF TicketsExact
  <2> QED
    BY <1>1, <2>2, <2>3 DEF FetchAdd
<1>2. ASSUME NEW t \in CASThread, LoadCurrent(t)  PROVE SQInv'
  BY <1>2 DEF LoadCurrent, TicketsExact
<1>3. ASSUME NEW t \in CASThread, CAS(t)  PROVE SQInv'
  <2>1. \A u \in CASThread : cas_counter \notin tickets[u]
    BY DEF TicketsExact
  <2>2. /\ tickets' \in [Client -> SUBSET Nat]
        /\ tickets'[t] = tickets[t] \union {cas_counter}
        /\ \A u \in Client : u # t => tickets'[u] = tickets[u]
    BY <1>3 DEF CAS
  <2>3. TicketsExact'
    <3>1. \A u, v \in CASThread : u # v => tickets'[u] \intersect tickets'[v] = {}
      BY <2>1, <2>2 DEF TicketsExact
    <3>2. \A u \in FAAThread : tickets'[u] = tickets[u]
      BY <2>2
    <3>3. UNION {tickets'[u] : u \in CASThread}
            = (UNION {tickets[u] : u \in CASThread}) \union {cas_counter}
      BY <2>2
    <3>4. {k \in 0..(cas_counter + 1) : k < cas_counter + 1}
            = {k \in 0..cas_counter : k < cas_counter} \union {cas_counter}
      OBVIOUS
    <3>5. cas_counter' = cas_counter + 1 /\ faa_counter' = faa_counter
      BY <1>3 DEF CAS
    <3>6. UNION {tickets'[u] : u \in FAAThread} = UNION {tickets[u] : u \in FAAThread}
      BY <3>2
    <3> QED
      BY <3>1, <3>2, <3>3, <3>4, <3>5, <3>6 DEF TicketsExact
  <2> QED
    BY <1>3, <2>2, <2>3 DEF CAS
<1>4. ASSUME NEW t \in CASThread, CASFail(t)  PROVE SQInv'
  BY <1>4 DEF CASFail, TicketsExact
<1>5. CASE UNCHANGED sqVars
  BY <1>5 DEF sqVars, TicketsExact
<1> QED
  BY <1>1, <1>2, <1>3, <1>4, <1>5 DEF SQNext, SQTerminated

\* No number of threads draws a ticket twice or skips one.
THEOREM TicketsExactCorrect == SQSpec => []TicketsExact
<1>1. SQInv => TicketsExact
  BY DEF SQInv
<1> QED
  BY <1>1, SQInvInit, SQInvStep, PTL DEF SQSpec

-----------------------------------------------------------------------------
(* Proof: the announce table, for any threads, retries and calls *)

\* Why no slot is stale: only its owner writes it, and removes its frame before
\* it leaves the slow path; a helper looks at what it found in a slot.
AQInv ==
    /\ AQTypeOK
    /\ \A t \in Thread :
        /\ announce_table[t] \in {t, Null}
        /\ announce_table[t] # Null => apc[t] \in {"help", "check", "apply", "complete"}
        /\ apc[t] \in {"check", "apply", "complete"} => op[t] # Null /\ i[t] <= N

\* At first the table is empty.
LEMMA AQInvInit == AQInit => AQInv
BY AQSizes, MaxCallsNat DEF AQInit, AQInv, AQTypeOK, Thread, Null, Slow

\* Every step of execute_op() and help_all() keeps the invariant.
LEMMA AQInvStep == AQInv /\ [AQNext]_aqVars => AQInv'
<1> SUFFICES ASSUME AQInv, [AQNext]_aqVars  PROVE AQInv'
  OBVIOUS
<1> USE AQSizes, MaxCallsNat DEF AQInv, AQTypeOK, AQGoto, localVars, Slow
<1>0. N \in Nat /\ Null \notin Thread
  BY DEF Thread, Null
<1>1. ASSUME NEW t \in Thread, Call(t)  PROVE AQInv'
  BY <1>0, <1>1 DEF Call
<1>2. ASSUME NEW t \in Thread, FastLoad(t)  PROVE AQInv'
  BY <1>0, <1>2 DEF FastLoad
<1>3. ASSUME NEW t \in Thread, FastCAS(t)  PROVE AQInv'
  BY <1>0, <1>3 DEF FastCAS
<1>4. ASSUME NEW t \in Thread, FastFail(t)  PROVE AQInv'
  BY <1>0, <1>4 DEF FastFail
<1>5. ASSUME NEW t \in Thread, Announce(t)  PROVE AQInv'
  BY <1>0, <1>5 DEF Announce
<1>6. ASSUME NEW t \in Thread, HelpLoad(t)  PROVE AQInv'
  <2>1. i[t] \in 1..(N + 1) /\ i[t] <= N
    BY <1>6 DEF HelpLoad
  <2>2. i[t] \in Thread /\ i[t] + 1 \in 1..(N + 1)
    BY ONLY <1>0, <2>1 DEF Thread
  <2> QED
    BY <1>0, <1>6, <2>2 DEF HelpLoad
<1>7. ASSUME NEW t \in Thread, HelpCheck(t)  PROVE AQInv'
  BY <1>0, <1>7 DEF HelpCheck
<1>8. ASSUME NEW t \in Thread, HelpApply(t)  PROVE AQInv'
  <2>1. global_log_head' \in Nat
    BY <1>8 DEF HelpApply
  <2>2. applied' \in [Thread -> Nat]
    BY <1>8 DEF HelpApply
  <2> QED
    BY <1>0, <1>8, <2>1, <2>2 DEF HelpApply
<1>9. ASSUME NEW t \in Thread, HelpComplete(t)  PROVE AQInv'
  BY <1>0, <1>9 DEF HelpComplete
<1>10. ASSUME NEW t \in Thread, Retract(t)  PROVE AQInv'
  BY <1>0, <1>10 DEF Retract
<1>11. ASSUME NEW t \in Thread, Return(t)  PROVE AQInv'
  BY <1>0, <1>11 DEF Return
<1>12. CASE UNCHANGED aqVars
  BY <1>12 DEF aqVars
<1> QED
  BY <1>1, <1>2, <1>3, <1>4, <1>5, <1>6, <1>7, <1>8, <1>9, <1>10, <1>11, <1>12
  DEF AQNext, InCall, AQTerminated

\* A slot that is found occupied is one of an operation in progress.
LEMMA TableAliveHolds == AQInv => TableAlive
BY DEF AQInv, TableAlive, Alive, Slow, Null

\* help_all() never loads from the table a frame whose call is over, for any
\* number of threads (what it does with the pointer later is another matter: see
\* HelpsValidPayload).
THEOREM TableAliveCorrect == AQSpec => []TableAlive
BY AQInvInit, AQInvStep, TableAliveHolds, PTL DEF AQSpec

-----------------------------------------------------------------------------
(* Proof: the work is conserved, for any number of workers and elements *)

\* Before the first task there is none; a worker has a range while it runs.
WKInv ==
    /\ WKShape
    /\ main = "submit" => /\ summed = {}
                          /\ \A w \in Worker : deques[w] = << >>
    /\ main \in {"submit", "start"} => \A w \in Worker : kpc[w] = "new"
    /\ \A w \in Worker : kpc[w] = "run" <=> range[w] # NoTask
    /\ WorkConserved

Element == 0..(NumElements - 1)

\* The middle of a range lies in it.
LEMMA MidInside ==
    ASSUME NEW r \in Interval
    PROVE  Mid(r) \in r[1]..r[2]
BY WKSizes DEF Mid, Interval

\* The halves of a range are ranges, and share out its elements.
LEMMA Halves ==
    ASSUME NEW r \in Interval
    PROVE  /\ <<r[1], Mid(r)>> \in Interval
           /\ <<Mid(r), r[2]>> \in Interval
           /\ \A k \in Element :
                 /\ k \in Elements(<<r[1], Mid(r)>>) <=> k \in Elements(r) /\ k < Mid(r)
                 /\ k \in Elements(<<Mid(r), r[2]>>) <=> k \in Elements(r) /\ k >= Mid(r)
<1>1. Mid(r) \in r[1]..r[2]
  BY MidInside
<1>2. /\ r[1] \in 0..NumElements /\ r[2] \in 0..NumElements /\ r # NoTask
      /\ <<r[1], Mid(r)>> # NoTask /\ <<Mid(r), r[2]>> # NoTask
  BY DEF Interval, NoTask
<1> QED
  BY <1>1, <1>2, WKSizes DEF Interval, Elements, Element

\* No task has no elements.
LEMMA NothingHeld == Elements(NoTask) = {}
BY DEF Elements

\* What is left of a deque whose last task was popped.
LEMMA FrontFacts ==
    ASSUME NEW S, NEW s \in Seq(S), s # << >>
    PROVE  /\ Len(s) \in Nat \ {0} /\ Last(s) = s[Len(s)] /\ Last(s) \in S
           /\ Front(s) \in Seq(S) /\ Len(Front(s)) = Len(s) - 1
           /\ \A p \in 1..(Len(s) - 1) : Front(s)[p] = s[p]
<1>1. Len(s) \in Nat \ {0}
  OBVIOUS
<1>2. \A p \in 1..Len(s) : s[p] \in S
  OBVIOUS
<1>3. Last(s) = s[Len(s)] /\ Last(s) \in S
  BY <1>1, <1>2 DEF Last
<1> DEFINE m == Len(s) - 1
<1>4. m \in Nat /\ m <= Len(s)
  BY <1>1
<1>5. SubSeq(s, 1, m) \in Seq(S)
  BY <1>2, <1>4
<1>6. Len(SubSeq(s, 1, m)) = m
  <2>1. \A p \in 1..m : s[p] \in S
    BY <1>2, <1>4
  <2>2. Len(SubSeq(s, 1, m)) = IF 1 <= m THEN m - 1 + 1 ELSE 0
    BY <1>4, <2>1, SubSeqProperties
  <2> HIDE DEF m
  <2>3. m = 0 \/ 1 <= m
    BY <1>4
  <2> QED
    BY <1>4, <2>2, <2>3
<1>7. \A p \in 1..m : SubSeq(s, 1, m)[p] = s[p]
  BY <1>4
<1> QED
  BY <1>1, <1>3, <1>5, <1>6, <1>7 DEF Front

\* What is left of a deque whose first task was stolen.
LEMMA TailFacts ==
    ASSUME NEW S, NEW s \in Seq(S), s # << >>
    PROVE  /\ Len(s) \in Nat \ {0} /\ Head(s) = s[1] /\ Head(s) \in S
           /\ Tail(s) \in Seq(S) /\ Len(Tail(s)) = Len(s) - 1
           /\ \A p \in 1..(Len(s) - 1) : Tail(s)[p] = s[p + 1]
OBVIOUS

\* What is on a deque after a task was pushed.
LEMMA AppendFacts ==
    ASSUME NEW S, NEW s \in Seq(S), NEW x \in S
    PROVE  /\ Len(s) \in Nat
           /\ Append(s, x) \in Seq(S) /\ Len(Append(s, x)) = Len(s) + 1
           /\ Append(s, x)[Len(s) + 1] = x
           /\ \A p \in 1..Len(s) : Append(s, x)[p] = s[p]
OBVIOUS

\* At first nothing is summed and no task exists.
LEMMA WKInvInit == WKInit => WKInv
BY WKSizes DEF WKInit, WKInv, WKShape, WorkConserved, NoTask

\* Every step of every thread keeps the invariant.
LEMMA WKInvStep == WKInv /\ [WKNext]_wkVars => WKInv'
<1> USE WKSizes DEF WKShape
<1> SUFFICES ASSUME WKInv, [WKNext]_wkVars  PROVE WKInv'
  OBVIOUS
<1> USE DEF WKInv
<1> DEFINE Was(u, p, k) == /\ p \in 0..Len(deques[u])
                           /\ k \in Elements(IF p = 0 THEN range[u] ELSE deques[u][p])
           Is(u, p, k) == /\ p \in 0..Len(deques'[u])
                          /\ k \in Elements(IF p = 0 THEN range'[u] ELSE deques'[u][p])
           Kept == \A k \in Element :
                     /\ k \in summed' <=> \A u \in Worker, p \in Nat : ~Is(u, p, k)
                     /\ \A u, v \in Worker, p, j \in Nat :
                          Is(u, p, k) /\ Is(v, j, k) => u = v /\ p = j
<1>0. ASSUME main # "submit", NEW k \in Element
      PROVE  /\ k \in summed <=> \A u \in Worker, p \in Nat : ~Was(u, p, k)
             /\ \A u, v \in Worker, p, j \in Nat :
                  Was(u, p, k) /\ Was(v, j, k) => u = v /\ p = j
  BY <1>0 DEF WorkConserved, Holds, TaskAt, Element
<1>a. ASSUME WKShape', Kept  PROVE WorkConserved'
  BY <1>a DEF WorkConserved, Holds, TaskAt, Elements, Element
<1>b. \A u \in Worker, k \in Element :
         /\ Was(u, 0, k) <=> k \in Elements(range[u])
         /\ \A p \in Nat \ {0} :
              Was(u, p, k) <=> p <= Len(deques[u]) /\ k \in Elements(deques[u][p])
  OBVIOUS
<1>c. ASSUME WKShape'
      PROVE  \A u \in Worker, k \in Element :
               /\ Is(u, 0, k) <=> k \in Elements(range'[u])
               /\ \A p \in Nat \ {0} :
                    Is(u, p, k) <=> p <= Len(deques'[u]) /\ k \in Elements(deques'[u][p])
  BY <1>c
<1> HIDE DEF Was, Is, Kept
<1>1. CASE SubmitInitial
  <2>1. 0 \in Worker
    BY DEF Worker
  <2>2. <<0, NumElements>> \in Interval
    BY DEF Interval
  <2>3. deques[0] = << >>
    BY <1>1, <2>1 DEF SubmitInitial
  <2>4. deques' = [deques EXCEPT ![0] = << <<0, NumElements>> >>]
    BY <1>1, <2>1, <2>2, <2>3 DEF SubmitInitial, Push
  <2>5. WKShape'
    BY <1>1, <2>1, <2>2, <2>4 DEF SubmitInitial
  <2>6. \A u \in Worker, p \in Nat, k \in Element : Is(u, p, k) <=> u = 0 /\ p = 1
    <3>1. \A k \in Element : k \in Elements(<<0, NumElements>>)
      BY DEF Elements, Element, NoTask
    <3>2. \A u \in Worker : range'[u] = NoTask
      BY <1>1 DEF SubmitInitial
    <3>3. \A u \in Worker : /\ u = 0 => deques'[u] = << <<0, NumElements>> >>
                            /\ u # 0 => deques'[u] = << >>
      BY <1>1, <2>1, <2>4 DEF SubmitInitial
    <3> TAKE u \in Worker, p \in Nat, k \in Element
    <3>4. CASE p = 0
      BY <1>c, <2>5, <3>2, <3>4, NothingHeld
    <3>5. CASE p # 0 /\ u # 0
      <4>1. Len(deques'[u]) = 0
        BY <3>3, <3>5
      <4> QED
        BY <1>c, <2>5, <3>5, <4>1
    <3>6. CASE p # 0 /\ u = 0
      <4> DEFINE t == <<0, NumElements>>
      <4>0. deques'[u] = <<t>>
        BY <3>3, <3>6
      <4>2. \A k2 \in Element : k2 \in Elements(t)
        BY <3>1
      <4> HIDE DEF t
      <4>1. Len(deques'[u]) = 1 /\ deques'[u][1] = t
        BY ONLY <4>0
      <4> QED
        BY <1>c, <2>5, <3>6, <4>1, <4>2
    <3> QED
      BY <3>4, <3>5, <3>6
  <2>7. Kept
    BY <1>1, <2>1, <2>6 DEF SubmitInitial, Kept
  <2> QED
    BY <1>1, <1>a, <2>5, <2>7 DEF SubmitInitial
<1>2. ASSUME UNCHANGED <<deques, summed, range>>, main # "submit", WKShape'
      PROVE  WorkConserved'
  <2>1. \A u \in Worker, p \in Nat, k \in Element : Is(u, p, k) <=> Was(u, p, k)
    BY <1>2 DEF Is, Was
  <2>2. Kept
    BY <1>0, <1>2, <2>1 DEF Kept
  <2> QED
    BY <1>2, <1>a, <2>2
<1>3. CASE Start
  BY <1>3, <1>2 DEF Start
<1>4. CASE Stop
  BY <1>4, <1>2 DEF Stop
<1>5. CASE Join
  BY <1>5, <1>2 DEF Join
<1>6. ASSUME NEW w \in Worker, Loop(w)  PROVE WKInv'
  BY <1>6, <1>2 DEF Loop, WKGoto
<1>7. ASSUME NEW w \in Worker, PopOwn(w)  PROVE WKInv'
  <2>1. main \notin {"submit", "start"} /\ UNCHANGED <<main, summed>> /\ range[w] = NoTask
    BY <1>7 DEF PopOwn, WKGoto
  <2>2. CASE deques[w] = << >>
    BY <1>7, <1>2, <2>1, <2>2 DEF PopOwn, WKGoto
  <2>3. CASE deques[w] # << >>
    <3> DEFINE n == Len(deques[w])
    <3>1. /\ n \in Nat \ {0} /\ deques[w][n] \in Interval
          /\ Front(deques[w]) \in Seq(Interval) /\ Len(Front(deques[w])) = n - 1
          /\ \A p \in 1..(n - 1) : Front(deques[w])[p] = deques[w][p]
          /\ Last(deques[w]) = deques[w][n]
      <4> DEFINE s == deques[w]
      <4>1. s \in Seq(Interval) /\ s # << >>
        BY <2>3
      <4> HIDE DEF s
      <4>2. /\ Len(s) \in Nat \ {0} /\ Last(s) = s[Len(s)] /\ Last(s) \in Interval
            /\ Front(s) \in Seq(Interval) /\ Len(Front(s)) = Len(s) - 1
            /\ \A p \in 1..(Len(s) - 1) : Front(s)[p] = s[p]
        BY ONLY <4>1, FrontFacts
      <4> QED
        BY <4>2 DEF s
    <3>2. /\ range' = [range EXCEPT ![w] = deques[w][n]]
          /\ deques' = [deques EXCEPT ![w] = Front(deques[w])]
          /\ WKGoto(w, "pop", "run")
      BY <1>7, <2>3, <3>1 DEF PopOwn
    <3>3. WKShape'
      BY <2>1, <3>1, <3>2 DEF WKGoto
    <3>4. \A u \in Worker, p \in Nat, k \in Element :
             Is(u, p, k) <=> IF u # w THEN Was(u, p, k)
                             ELSE IF p = 0 THEN Was(w, n, k) ELSE p # n /\ Was(w, p, k)
      <4> TAKE u \in Worker, p \in Nat, k \in Element
      <4> HIDE DEF n
      <4>1. CASE u # w
        <5>1. deques'[u] = deques[u] /\ range'[u] = range[u]
          BY <3>2, <4>1
        <5> QED
          BY <4>1, <5>1 DEF Is, Was
      <4>2. CASE u = w /\ p = 0
        BY <1>b, <1>c, <3>1, <3>2, <3>3, <4>2 DEF n
      <4>3. CASE u = w /\ p # 0
        <5>1. deques'[w] = Front(deques[w])
          BY <3>2
        <5>2. Is(w, p, k) <=> p <= n - 1 /\ k \in Elements(Front(deques[w])[p])
          BY <1>c, <3>1, <3>3, <4>3, <5>1 DEF n
        <5>3. Was(w, p, k) <=> p <= n /\ k \in Elements(deques[w][p])
          BY <1>b, <4>3 DEF n
        <5>4. p \in 1..(n - 1) => Front(deques[w])[p] = deques[w][p]
          BY <3>1 DEF n
        <5>5. p <= n - 1 => p \in 1..(n - 1)
          BY <3>1, <4>3 DEF n
        <5>6. p <= n /\ p # n <=> p <= n - 1
          BY <3>1 DEF n
        <5> QED
          BY <4>3, <5>2, <5>3, <5>4, <5>5, <5>6
      <4> QED
        BY <4>1, <4>2, <4>3
    <3>5. \A k \in Element : ~Was(w, 0, k)
      BY <2>1, <1>b, NothingHeld
    <3>6. Kept
      <4> HIDE DEF n
      <4> SUFFICES ASSUME NEW k \in Element
                   PROVE  /\ k \in summed' <=> \A u \in Worker, p \in Nat : ~Is(u, p, k)
                          /\ \A u, x \in Worker, p, j \in Nat :
                               Is(u, p, k) /\ Is(x, j, k) => u = x /\ p = j
        BY DEF Kept
      <4>1. /\ k \in summed <=> \A u \in Worker, p \in Nat : ~Was(u, p, k)
            /\ \A u, x \in Worker, p, j \in Nat :
                 Was(u, p, k) /\ Was(x, j, k) => u = x /\ p = j
        BY <1>0, <2>1
      <4>2. n \in Nat /\ n # 0 /\ 0 \in Nat
        BY <3>1 DEF n
      <4>3. \A u \in Worker, p \in Nat :
               /\ Is(u, p, k) => \/ u = w /\ p = 0 /\ Was(w, n, k)
                                 \/ Was(u, p, k) /\ ~(u = w /\ p = n)
               /\ Was(u, p, k) => Is(u, p, k) \/ (u = w /\ p = n /\ Is(w, 0, k))
        BY <3>4, <3>5, <4>2
      <4> QED
        BY <2>1, <4>1, <4>2, <4>3
    <3>7. NoTask \notin Interval
      BY DEF NoTask, Interval
    <3> QED
      BY <1>a, <2>1, <3>1, <3>2, <3>3, <3>6, <3>7 DEF WKGoto
  <2> QED
    BY <2>2, <2>3
<1>8. ASSUME NEW w \in Worker, Steal(w)  PROVE WKInv'
  <2>1. main \notin {"submit", "start"} /\ UNCHANGED <<main, summed>> /\ range[w] = NoTask
    BY <1>8 DEF Steal, WKGoto
  <2>2. CASE UNCHANGED <<deques, range>>
    BY <1>8, <1>2, <2>1, <2>2 DEF Steal, WKGoto
  <2>3. ASSUME NEW v \in Worker \ {w}, deques[v] # << >>, WKGoto(w, "steal", "run"),
               range' = [range EXCEPT ![w] = Head(deques[v])],
               deques' = [deques EXCEPT ![v] = Tail(deques[v])]
        PROVE WKInv'
    <3>1. /\ Head(deques[v]) = deques[v][1] /\ deques[v][1] \in Interval
          /\ Tail(deques[v]) \in Seq(Interval)
          /\ Len(deques[v]) \in Nat \ {0}
          /\ Len(Tail(deques[v])) = Len(deques[v]) - 1
          /\ \A p \in 1..(Len(deques[v]) - 1) : Tail(deques[v])[p] = deques[v][p + 1]
      BY <2>3, TailFacts
    <3>2. WKShape'
      BY <2>1, <2>3, <3>1 DEF WKGoto
    <3>3. \A u \in Worker, p \in Nat, k \in Element :
             Is(u, p, k) <=> IF u = w /\ p = 0 THEN Was(v, 1, k)
                             ELSE IF u = v /\ p # 0 THEN Was(v, p + 1, k)
                             ELSE Was(u, p, k)
      <4> TAKE u \in Worker, p \in Nat, k \in Element
      <4>1. CASE u = w /\ p = 0
        BY <1>b, <1>c, <2>3, <3>1, <3>2, <4>1
      <4>2. CASE u = v /\ p # 0
        <5> DEFINE s == deques[v]
        <5>1. deques'[v] = Tail(s) /\ Len(deques'[v]) = Len(s) - 1
          BY <2>3, <3>1
        <5>2. Is(v, p, k) <=> p <= Len(s) - 1 /\ k \in Elements(Tail(s)[p])
          <6>1. Is(v, p, k) <=> p <= Len(deques'[v]) /\ k \in Elements(deques'[v][p])
            BY <1>c, <3>2, <4>2
          <6> QED
            BY <5>1, <6>1
        <5>3. Was(v, p + 1, k) <=> p + 1 <= Len(s) /\ k \in Elements(s[p + 1])
          BY <1>b, <4>2
        <5>4. p \in 1..(Len(s) - 1) => Tail(s)[p] = s[p + 1]
          BY <3>1
        <5> HIDE DEF s
        <5>5. Len(s) \in Nat
          BY <3>1 DEF s
        <5>6. /\ p <= Len(s) - 1 => p \in 1..(Len(s) - 1)
              /\ p + 1 <= Len(s) <=> p <= Len(s) - 1
          BY <4>2, <5>5
        <5> QED
          BY <2>3, <4>2, <5>2, <5>3, <5>4, <5>6
      <4>3. CASE p = 0 /\ u # w
        BY <1>b, <1>c, <2>3, <3>2, <4>3
      <4>4. CASE p # 0 /\ u # v
        BY <1>b, <1>c, <2>3, <3>2, <4>4
      <4> QED
        BY <2>3, <4>1, <4>2, <4>3, <4>4
    <3>4. \A k \in Element : ~Was(w, 0, k)
      BY <2>1, <1>b, NothingHeld
    <3>5. Kept
      <4> SUFFICES ASSUME NEW k \in Element
                   PROVE  /\ k \in summed' <=> \A u \in Worker, p \in Nat : ~Is(u, p, k)
                          /\ \A u, x \in Worker, p, j \in Nat :
                               Is(u, p, k) /\ Is(x, j, k) => u = x /\ p = j
        BY DEF Kept
      <4>1. /\ k \in summed <=> \A u \in Worker, p \in Nat : ~Was(u, p, k)
            /\ \A u, x \in Worker, p, j \in Nat :
                 Was(u, p, k) /\ Was(x, j, k) => u = x /\ p = j
        BY <1>0, <2>1
      <4>2. \A u \in Worker, p \in Nat :
               /\ Is(u, p, k) => \/ u = w /\ p = 0 /\ Was(v, 1, k)
                                 \/ u = v /\ p # 0 /\ Was(v, p + 1, k)
                                 \/ Was(u, p, k) /\ ~(u = v /\ p # 0)
               /\ Was(u, p, k) => \/ Is(u, p, k)
                                  \/ u = v /\ p = 1 /\ Is(w, 0, k)
                                  \/ u = v /\ p - 1 \in Nat /\ Is(v, p - 1, k)
        <5> HIDE DEF Is, Was
        <5>1. \A p \in Nat \ {0} : p = 1 \/ (p - 1 \in Nat \ {0} /\ (p - 1) + 1 = p)
          OBVIOUS
        <5>2. \A p \in Nat : 1 \in Nat /\ 0 \in Nat /\ p + 1 \in Nat
          OBVIOUS
        <5>3. w # v /\ 1 \in Nat \ {0} /\ ~Was(w, 0, k)
          BY <2>3, <3>4
        <5> TAKE u \in Worker, p \in Nat
        <5>4. CASE u = w /\ p = 0
          BY <3>3, <5>3, <5>4
        <5>5. CASE u = v /\ p # 0
          <6>1. Is(v, p, k) => Was(v, p + 1, k)
            BY <3>3, <5>3, <5>5
          <6>2. p = 1 /\ Was(v, p, k) => Is(w, 0, k)
            BY <3>3, <5>2
          <6>3. p # 1 /\ Was(v, p, k) => p - 1 \in Nat /\ Is(v, p - 1, k)
            BY <3>3, <5>1, <5>3, <5>5
          <6> QED
            BY <5>5, <6>1, <6>2, <6>3
        <5>6. CASE ~(u = w /\ p = 0) /\ ~(u = v /\ p # 0)
          BY <3>3, <5>6
        <5> QED
          BY <5>4, <5>5, <5>6
      <4> QED
        BY <2>1, <2>3, <4>1, <4>2
    <3>6. NoTask \notin Interval
      BY DEF NoTask, Interval
    <3> QED
      BY <1>a, <2>1, <2>3, <3>1, <3>2, <3>5, <3>6 DEF WKGoto
  <2> QED
    BY <1>8, <2>2, <2>3 DEF Steal
<1>9. ASSUME NEW w \in Worker, Split(w)  PROVE WKInv'
  <2> DEFINE r == range[w]
             left == <<r[1], Mid(r)>>
             right == <<Mid(r), r[2]>>
             n == Len(deques[w])
  <2>1. /\ main \notin {"submit", "start"} /\ UNCHANGED <<main, summed, kpc>>
        /\ r \in Interval
        /\ range' = [range EXCEPT ![w] = left]
        /\ deques' = [deques EXCEPT ![w] = Append(deques[w], right)]
    BY <1>9 DEF Split, Push
  <2>2. /\ left \in Interval /\ right \in Interval
        /\ \A k \in Element :
              /\ k \in Elements(left) <=> k \in Elements(r) /\ k < Mid(r)
              /\ k \in Elements(right) <=> k \in Elements(r) /\ k >= Mid(r)
    BY <2>1, Halves
  <2>3. Mid(r) \in Int /\ NoTask \notin Interval
    BY <2>1, MidInside DEF Interval, NoTask
  <2> HIDE DEF r, left, right
  <2>4. /\ n \in Nat
        /\ Append(deques[w], right) \in Seq(Interval)
        /\ Len(Append(deques[w], right)) = n + 1
        /\ Append(deques[w], right)[n + 1] = right
        /\ \A p \in 1..n : Append(deques[w], right)[p] = deques[w][p]
    BY <2>2, AppendFacts
  <2>5. WKShape'
    BY <2>1, <2>2, <2>4
  <2>6. \A u \in Worker, p \in Nat, k \in Element :
           Is(u, p, k) <=> IF u # w THEN Was(u, p, k)
                           ELSE IF p = 0 THEN Was(w, 0, k) /\ k < Mid(r)
                           ELSE IF p = n + 1 THEN Was(w, 0, k) /\ k >= Mid(r)
                           ELSE Was(w, p, k)
    <3> TAKE u \in Worker, p \in Nat, k \in Element
    <3>1. CASE u # w
      <4>1. deques'[u] = deques[u] /\ range'[u] = range[u]
        BY <2>1, <3>1
      <4> QED
        BY <3>1, <4>1 DEF Is, Was
    <3>2. CASE u = w /\ p = 0
      BY <1>b, <1>c, <2>1, <2>2, <2>5, <3>2 DEF r
    <3>3. CASE u = w /\ p = n + 1
      BY <1>b, <1>c, <2>1, <2>2, <2>4, <2>5, <3>3 DEF r
    <3>4. CASE u = w /\ p # 0 /\ p # n + 1
      BY <1>b, <1>c, <2>1, <2>4, <2>5, <3>4
    <3> QED
      BY <3>1, <3>2, <3>3, <3>4
  <2>7. \A k \in Element : ~Was(w, n + 1, k)
    BY <1>b, <2>4
  <2>8. \A k \in Element : k < Mid(r) <=> ~(k >= Mid(r))
    BY <2>3 DEF Element
  <2>9. Kept
    <3> HIDE DEF n
    <3> SUFFICES ASSUME NEW k \in Element
                 PROVE  /\ k \in summed' <=> \A u \in Worker, p \in Nat : ~Is(u, p, k)
                        /\ \A u, x \in Worker, p, j \in Nat :
                             Is(u, p, k) /\ Is(x, j, k) => u = x /\ p = j
      BY DEF Kept
    <3>1. /\ k \in summed <=> \A u \in Worker, p \in Nat : ~Was(u, p, k)
          /\ \A u, x \in Worker, p, j \in Nat :
               Was(u, p, k) /\ Was(x, j, k) => u = x /\ p = j
      BY <1>0, <2>1
    <3>2. 0 \in Nat /\ n + 1 \in Nat /\ n + 1 # 0
      BY <2>4
    <3>3. k < Mid(r) <=> ~(k >= Mid(r))
      BY <2>8
    <3>4. \A u \in Worker, p \in Nat :
             /\ Is(u, p, k) => \/ Was(u, p, k) /\ ~(u = w /\ p = n + 1)
                                               /\ (u = w /\ p = 0 => k < Mid(r))
                               \/ u = w /\ p = n + 1 /\ Was(w, 0, k) /\ k >= Mid(r)
             /\ Was(u, p, k) => Is(u, p, k) \/ (u = w /\ p = 0 /\ Is(w, n + 1, k))
      BY <2>6, <2>7, <3>2, <3>3
    <3> QED
      BY <2>1, <3>1, <3>2, <3>3, <3>4
  <2> QED
    <3>1. WorkConserved'
      BY <1>a, <2>5, <2>9
    <3>2. \A u \in Worker : kpc'[u] = "run" <=> range'[u] # NoTask
      <4>1. /\ kpc[w] = "run" /\ left # NoTask
            /\ \A u \in Worker : range'[u] = IF u = w THEN left ELSE range[u]
        BY <1>9, <2>1, <2>2, <2>3 DEF Split
      <4> QED
        BY <2>1, <4>1
    <3> QED
      BY <2>1, <2>5, <3>1, <3>2
<1>10. ASSUME NEW w \in Worker, Sum(w)  PROVE WKInv'
  <2>1. /\ main \notin {"submit", "start"} /\ UNCHANGED <<main, deques>>
        /\ range' = [range EXCEPT ![w] = NoTask]
        /\ summed' = summed \union Elements(range[w])
    BY <1>10 DEF Sum, WKGoto
  <2>2. WKShape'
    BY <1>10, <2>1 DEF Sum, WKGoto, Elements
  <2>3. \A u \in Worker, p \in Nat, k \in Element :
           Is(u, p, k) <=> Was(u, p, k) /\ ~(u = w /\ p = 0)
    <3> TAKE u \in Worker, p \in Nat, k \in Element
    <3>1. CASE u # w
      BY <2>1, <3>1 DEF Is, Was
    <3>2. CASE p # 0
      BY <1>b, <1>c, <2>1, <2>2, <3>2
    <3>3. CASE u = w /\ p = 0
      BY <1>c, <2>1, <2>2, <3>3, NothingHeld
    <3> QED
      BY <3>1, <3>2, <3>3
  <2>4. \A k \in Element : k \in Elements(range[w]) <=> Was(w, 0, k)
    BY <1>b
  <2>5. Kept
    BY <1>0, <2>1, <2>3, <2>4 DEF Kept
  <2> QED
    BY <1>a, <1>10, <2>1, <2>2, <2>5 DEF Sum, WKGoto
<1>11. ASSUME NEW w \in Worker, Complete(w)  PROVE WKInv'
  BY <1>11, <1>2 DEF Complete, WKGoto
<1>12. CASE UNCHANGED wkVars
  <2>1. WKShape'
    BY <1>12 DEF wkVars
  <2> QED
    BY <1>12, <1>2, <2>1 DEF wkVars, WorkConserved
<1> QED
  BY <1>1, <1>3, <1>4, <1>5, <1>6, <1>7, <1>8, <1>9, <1>10, <1>11, <1>12
  DEF WKNext, MainStep, WorkerStep, Finished

\* The invariant holds at first and is kept by every step of every thread.
THEOREM WKInvCorrect == WKSpec => []WKInv
BY WKInvInit, WKInvStep, PTL DEF WKSpec

\* Whoever pops, splits or steals, for any number of workers and elements: every
\* element is summed or waits in exactly one task.
THEOREM WorkConservedCorrect == WKSpec => []WorkConserved
<1>1. WKInv => WorkConserved
  BY DEF WKInv
<1> QED
  BY <1>1, WKInvCorrect, PTL

-----------------------------------------------------------------------------
(* Proof: no task is left behind *)

\* Where the tasks of deques d and of workers at labels k are: one place each.
InHand(k, w) == k[w] \in {"run", "delete"}

PlacesAt(w, d, k) == {w} \X {p \in 0..Len(d[w]) : p = 0 => InHand(k, w)}

PlacesOf(d, k) == UNION {PlacesAt(w, d, k) : w \in Worker}

NonEmpty(r) == r[1] < r[2]

\* Every task made is counted or in one place; ranges are never empty, so that a
\* task that is left holds an element that is not summed.
WKCount ==
    /\ WKTypeOK
    /\ IsFiniteSet(PlacesOf(deques, kpc))
    /\ tasks = Cardinality(PlacesOf(deques, kpc))
    /\ made = completed_tasks + tasks
    /\ \A w \in Worker : /\ range[w] # NoTask => NonEmpty(range[w])
                         /\ \A p \in 1..Len(deques[w]) : NonEmpty(deques[w][p])
    /\ main \in {"join", "done"} => summed = Element
    /\ main = "done" => \A w \in Worker : kpc[w] = "exited"

\* Counting a set of places after one was added, removed, or exchanged.
LEMMA CountUp ==
    ASSUME NEW S, NEW x, IsFiniteSet(S), x \notin S
    PROVE  IsFiniteSet(S \union {x}) /\ Cardinality(S \union {x}) = Cardinality(S) + 1
BY FS_AddElement

LEMMA CountDown ==
    ASSUME NEW S, NEW x, IsFiniteSet(S), x \in S
    PROVE  IsFiniteSet(S \ {x}) /\ Cardinality(S \ {x}) = Cardinality(S) - 1
BY FS_RemoveElement

LEMMA CountSame ==
    ASSUME NEW S, NEW x, NEW y, IsFiniteSet(S), x \in S, y \notin S
    PROVE  /\ IsFiniteSet((S \ {x}) \union {y})
           /\ Cardinality((S \ {x}) \union {y}) = Cardinality(S)
<1>1. IsFiniteSet(S \ {x}) /\ Cardinality(S \ {x}) = Cardinality(S) - 1
  BY CountDown
<1>2. y \notin S \ {x}
  OBVIOUS
<1>3. /\ IsFiniteSet((S \ {x}) \union {y})
      /\ Cardinality((S \ {x}) \union {y}) = Cardinality(S \ {x}) + 1
  BY <1>1, <1>2, CountUp
<1>4. Cardinality(S) \in Nat
  BY FS_CardinalityType
<1> QED
  BY <1>1, <1>3, <1>4

\* The places of a worker: its hand, 0, and the positions of its deque.
LEMMA PlaceIn ==
    ASSUME NEW d, NEW k, \A u \in Worker : Len(d[u]) \in Nat
    PROVE  /\ PlacesOf(d, k) \subseteq Worker \X Nat
           /\ \A u \in Worker, p \in Nat :
                <<u, p>> \in PlacesOf(d, k)
                   <=> p <= Len(d[u]) /\ (p = 0 => InHand(k, u))
BY DEF PlacesOf, PlacesAt

LEMMA SamePlaces ==
    ASSUME NEW A \in SUBSET (Worker \X Nat), NEW B \in SUBSET (Worker \X Nat),
           \A u \in Worker, p \in Nat : <<u, p>> \in A <=> <<u, p>> \in B
    PROVE  A = B
OBVIOUS

\* A task pushed takes a new place.
LEMMA PlacePushed ==
    ASSUME NEW d, NEW e, NEW k, NEW w \in Worker,
           \A u \in Worker : Len(d[u]) \in Nat,
           \A u \in Worker : Len(e[u]) = IF u = w THEN Len(d[w]) + 1 ELSE Len(d[u])
    PROVE  /\ PlacesOf(e, k) = PlacesOf(d, k) \union {<<w, Len(e[w])>>}
           /\ <<w, Len(e[w])>> \notin PlacesOf(d, k)
<1> DEFINE A == PlacesOf(e, k)
           B == PlacesOf(d, k)
<1>1. \A u \in Worker : Len(e[u]) \in Nat
  OBVIOUS
<1>2. /\ A \subseteq Worker \X Nat /\ B \subseteq Worker \X Nat
      /\ \A u \in Worker, p \in Nat :
            /\ <<u, p>> \in A <=> p <= Len(e[u]) /\ (p = 0 => InHand(k, u))
            /\ <<u, p>> \in B <=> p <= Len(d[u]) /\ (p = 0 => InHand(k, u))
  BY <1>1, PlaceIn
<1> HIDE DEF A, B
<1>3. <<w, Len(e[w])>> \notin B /\ <<w, Len(e[w])>> \in Worker \X Nat
  BY <1>1, <1>2
<1>4. \A u \in Worker, p \in Nat : <<u, p>> \in A <=> <<u, p>> \in B \union {<<w, Len(e[w])>>}
  <2> TAKE u \in Worker, p \in Nat
  <2>1. <<u, p>> \in B \union {<<w, Len(e[w])>>} <=> <<u, p>> \in B \/ (u = w /\ p = Len(e[w]))
    OBVIOUS
  <2>2. CASE u = w
    BY <1>1, <1>2, <2>1, <2>2
  <2>3. CASE u # w
    BY <1>1, <1>2, <2>1, <2>3
  <2> QED
    BY <2>2, <2>3
<1>5. A = B \union {<<w, Len(e[w])>>}
  BY <1>2, <1>3, <1>4, SamePlaces
<1> QED
  BY <1>3, <1>5 DEF A, B

\* From deques d and labels k worker w took a task off v's deque, and runs it.
Took(d, k, e, m, v, w) ==
    /\ \A u \in Worker : Len(d[u]) \in Nat
    /\ \A u \in Worker : Len(e[u]) = IF u = v THEN Len(d[v]) - 1 ELSE Len(d[u])
    /\ \A u \in Worker : InHand(m, u) <=> u = w \/ InHand(k, u)
    /\ Len(d[v]) # 0
    /\ ~InHand(k, w)

\* A task popped or stolen goes from the last place of the deque into a hand.
LEMMA PlaceTaken ==
    ASSUME NEW d, NEW k, NEW e, NEW m, NEW v \in Worker, NEW w \in Worker,
           Took(d, k, e, m, v, w)
    PROVE  /\ PlacesOf(e, m) = (PlacesOf(d, k) \ {<<v, Len(d[v])>>}) \union {<<w, 0>>}
           /\ <<v, Len(d[v])>> \in PlacesOf(d, k)
           /\ <<w, 0>> \notin PlacesOf(d, k)
<1> DEFINE A == PlacesOf(e, m)
           B == PlacesOf(d, k)
           C == (B \ {<<v, Len(d[v])>>}) \union {<<w, 0>>}
<1> USE DEF Took
<1>1. \A u \in Worker : Len(e[u]) \in Nat
  OBVIOUS
<1>3. /\ A \subseteq Worker \X Nat /\ B \subseteq Worker \X Nat
      /\ \A u \in Worker, p \in Nat :
            /\ <<u, p>> \in A <=> p <= Len(e[u]) /\ (p = 0 => InHand(m, u))
            /\ <<u, p>> \in B <=> p <= Len(d[u]) /\ (p = 0 => InHand(k, u))
  BY <1>1, PlaceIn
<1> HIDE DEF A, B
<1>4. /\ <<v, Len(d[v])>> \in B /\ <<w, 0>> \notin B
      /\ <<w, 0>> \in Worker \X Nat
  BY <1>1, <1>3
<1>5. \A u \in Worker, p \in Nat : <<u, p>> \in A <=> <<u, p>> \in C
  <2> TAKE u \in Worker, p \in Nat
  <2>1. <<u, p>> \in C
           <=> (<<u, p>> \in B /\ ~(u = v /\ p = Len(d[v]))) \/ (u = w /\ p = 0)
    OBVIOUS
  <2> HIDE DEF C
  <2>2. CASE u = v /\ p # 0
    <3>1. p <= Len(e[v]) <=> p <= Len(d[v]) /\ p # Len(d[v])
      BY <1>1, <2>2
    <3> QED
      BY <1>3, <2>1, <2>2, <3>1
  <2>3. CASE u # v /\ p # 0
    BY <1>1, <1>3, <2>1, <2>3
  <2>4. CASE p = 0
    <3>1. 0 <= Len(e[u]) /\ 0 <= Len(d[u]) /\ Len(d[v]) # 0
      BY <1>1
    <3> QED
      BY <1>3, <2>1, <2>4, <3>1
  <2> QED
    BY <2>2, <2>3, <2>4
<1>6. C \subseteq Worker \X Nat
  BY <1>3, <1>4
<1> HIDE DEF C
<1>7. A = C
  BY <1>3, <1>5, <1>6, SamePlaces
<1> QED
  BY <1>4, <1>7 DEF A, B, C

\* A task done leaves its worker's hand.
LEMMA PlaceLeft ==
    ASSUME NEW d, NEW k, NEW m, NEW w \in Worker, k[w] = "delete",
           \A u \in Worker : Len(d[u]) \in Nat,
           \A u \in Worker : InHand(m, u)
                                <=> u # w /\ InHand(k, u)
    PROVE  /\ PlacesOf(d, m) = PlacesOf(d, k) \ {<<w, 0>>}
           /\ <<w, 0>> \in PlacesOf(d, k)
<1> DEFINE A == PlacesOf(d, m)
           B == PlacesOf(d, k)
<1>2. /\ A \subseteq Worker \X Nat /\ B \subseteq Worker \X Nat
      /\ \A u \in Worker, p \in Nat :
            /\ <<u, p>> \in A <=> p <= Len(d[u]) /\ (p = 0 => InHand(m, u))
            /\ <<u, p>> \in B <=> p <= Len(d[u]) /\ (p = 0 => InHand(k, u))
  BY PlaceIn
<1> HIDE DEF A, B
<1>3. \A u \in Worker, p \in Nat : <<u, p>> \in A <=> <<u, p>> \in B \ {<<w, 0>>}
  BY <1>2
<1>4. <<w, 0>> \in B
  BY <1>2 DEF InHand
<1>5. A = B \ {<<w, 0>>}
  BY <1>2, <1>3, SamePlaces
<1> QED
  BY <1>4, <1>5 DEF A, B

\* Between places that are not hands, the labels do not matter.
LEMMA PlaceKept ==
    ASSUME NEW d, NEW k, NEW m,
           \A u \in Worker : InHand(k, u) <=> InHand(m, u)
    PROVE  PlacesOf(d, k) = PlacesOf(d, m)
BY DEF PlacesOf, PlacesAt

\* Every step keeps the count of the tasks.
LEMMA WKCountStep == WKInv /\ WKInv' /\ WKCount /\ [WKNext]_wkVars => WKCount'
<1> SUFFICES ASSUME WKInv, WKInv', WKCount, [WKNext]_wkVars  PROVE WKCount'
  OBVIOUS
<1> DEFINE Label == {"new", "loop", "pop", "steal", "run", "delete", "exited"}
           P == PlacesOf(deques, kpc)
           Q == PlacesOf(deques', kpc')
           Ranges == \A w \in Worker :
                        /\ range[w] # NoTask => NonEmpty(range[w])
                        /\ \A p \in 1..Len(deques[w]) : NonEmpty(deques[w][p])
           Ranges2 == \A w \in Worker :
                         /\ range'[w] # NoTask => NonEmpty(range'[w])
                         /\ \A p \in 1..Len(deques'[w]) : NonEmpty(deques'[w][p])
<1>a. /\ IsFiniteSet(P) /\ tasks = Cardinality(P) /\ tasks \in Nat
      /\ made = completed_tasks + tasks /\ made \in Nat /\ completed_tasks \in Nat
      /\ stop \in BOOLEAN /\ Ranges
      /\ deques \in [Worker -> Seq(Interval)] /\ kpc \in [Worker -> Label]
      /\ range \in [Worker -> Interval \union {NoTask}]
  <2>1. Ranges
    BY DEF WKCount
  <2> HIDE DEF Ranges
  <2> QED
    BY <2>1 DEF WKCount, WKTypeOK, WKShape
<1>b. ASSUME IsFiniteSet(Q), tasks' = Cardinality(Q), made' = completed_tasks' + tasks',
             completed_tasks' \in Nat, stop' \in BOOLEAN, Ranges2,
             main' \in {"join", "done"} => summed' = Element,
             main' = "done" => \A w \in Worker : kpc'[w] = "exited"
      PROVE  WKCount'
  <2>1. tasks' \in Nat
    BY <1>b, FS_CardinalityType
  <2> QED
    BY <1>b, <2>1 DEF WKCount, WKTypeOK, WKInv
<1>c. main \in {"join", "done"} => summed = Element
  BY DEF WKCount
<1>d. main = "done" => \A w \in Worker : kpc[w] = "exited"
  BY DEF WKCount
<1>1. CASE SubmitInitial
  <2>1. 0 \in Worker /\ <<0, NumElements>> \in Interval /\ NumElements > 0
    BY WKSizes DEF Worker, Interval
  <2>2. deques[0] = << >> /\ Len(deques[0]) = 0
    BY <1>1, <2>1 DEF SubmitInitial, WKInv
  <2> DEFINE s == Append(deques[0], <<0, NumElements>>)
  <2>3. s \in Seq(Interval) /\ Len(s) = 1 /\ s[1] = <<0, NumElements>>
    BY <2>1, <2>2
  <2> HIDE DEF s
  <2>4. /\ deques' = [deques EXCEPT ![0] = s] /\ kpc' = kpc /\ range' = range
        /\ tasks' = tasks + 1 /\ made' = made + 1
        /\ UNCHANGED <<stop, completed_tasks, summed>> /\ main' = "start"
    BY <1>1 DEF SubmitInitial, Push, s
  <2>5. IsFiniteSet(Q) /\ Cardinality(Q) = Cardinality(P) + 1
    <3>1. Len(s) = Len(deques[0]) + 1
      BY <2>2, <2>3
    <3>2. /\ \A u \in Worker : Len(deques[u]) \in Nat
          /\ \A u \in Worker :
                Len(deques'[u]) = IF u = 0 THEN Len(deques[0]) + 1 ELSE Len(deques[u])
      <4>1. deques \in [Worker -> Seq(Interval)]
        BY <1>a DEF WKShape
      <4>2. \A u \in Worker : deques'[u] = IF u = 0 THEN s ELSE deques[u]
        BY <2>4, <4>1
      <4>3. \A u \in Worker : Len(deques[u]) \in Nat
        BY <4>1
      <4> QED
        BY ONLY <3>1, <4>2, <4>3
    <3>3. Q = P \union {<<0, Len(deques'[0])>>} /\ <<0, Len(deques'[0])>> \notin P
      <4> DEFINE d == deques
                 e == deques'
                 k == kpc
      <4>1. /\ 0 \in Worker /\ \A u \in Worker : Len(d[u]) \in Nat
            /\ \A u \in Worker : Len(e[u]) = IF u = 0 THEN Len(d[0]) + 1 ELSE Len(d[u])
        BY <2>1, <3>2
      <4>2. Q = PlacesOf(e, k)
        BY <2>4
      <4> HIDE DEF d, e, k, Q
      <4>3. /\ PlacesOf(e, k) = PlacesOf(d, k) \union {<<0, Len(e[0])>>}
            /\ <<0, Len(e[0])>> \notin PlacesOf(d, k)
        BY ONLY <4>1, PlacePushed
      <4> QED
        BY <4>2, <4>3 DEF d, e, k
    <3> HIDE DEF P, Q
    <3> QED
      BY <1>a, <3>3, CountUp
  <2>6. Ranges2
    <3> TAKE w \in Worker
    <3>1. CASE w = 0
      <4>1. deques'[w] = s /\ range'[w] = range[w] /\ 1..Len(s) = {1}
        BY <1>a, <2>1, <2>3, <2>4, <3>1
      <4>2. NonEmpty(s[1])
        BY <2>1, <2>3, WKSizes DEF NonEmpty
      <4> QED
        BY <1>a, <4>1, <4>2
    <3>2. CASE w # 0
      BY <1>a, <2>4, <3>2
    <3> QED
      BY <3>1, <3>2
  <2> QED
    BY <1>a, <1>b, <2>4, <2>5, <2>6
<1>2. ASSUME Q = P, UNCHANGED <<tasks, made, completed_tasks, deques>>, stop' \in BOOLEAN,
             \A w \in Worker : range'[w] = range[w] \/ range'[w] = NoTask,
             main' \in {"join", "done"} => summed' = Element,
             main' = "done" => \A w \in Worker : kpc'[w] = "exited"
      PROVE  WKCount'
  BY <1>a, <1>b, <1>2
<1>3. CASE Start
  <2>1. \A u \in Worker : kpc[u] = "new" /\ kpc'[u] = "loop"
    BY <1>3 DEF Start, WKInv
  <2>2. Q = P
    BY <1>3, <2>1, PlaceKept DEF Start, InHand
  <2> QED
    BY <1>a, <1>2, <1>3, <2>2 DEF Start
<1>4. CASE Stop
  BY <1>a, <1>2, <1>4 DEF Stop, Element
<1>5. CASE Join
  BY <1>a, <1>c, <1>2, <1>5 DEF Join
<1>6. ASSUME NEW w \in Worker, WorkerStep(w)  PROVE main \notin {"submit", "start", "done"}
  BY <1>6, <1>d DEF WorkerStep, Loop, PopOwn, Steal, Split, Sum, Complete, WKGoto, WKInv
<1>7. ASSUME NEW w \in Worker, Loop(w)  PROVE WKCount'
  <2>1. \A u \in Worker : InHand(kpc, u) <=> InHand(kpc', u)
    BY <1>7, <1>a DEF Loop, WKGoto, InHand
  <2>2. Q = P
    BY <1>7, <2>1, PlaceKept DEF Loop
  <2> QED
    BY <1>a, <1>c, <1>2, <1>6, <1>7, <2>2 DEF Loop, WorkerStep
<1>8. ASSUME NEW w \in Worker, NEW v \in Worker, NEW s \in Seq(Interval), deques[v] # << >>,
             Len(s) = Len(deques[v]) - 1, \A p \in 1..Len(s) : NonEmpty(s[p]),
             kpc[w] \in {"pop", "steal"}, kpc' = [kpc EXCEPT ![w] = "run"],
             deques' = [deques EXCEPT ![v] = s],
             NEW r \in Interval, range' = [range EXCEPT ![w] = r], NonEmpty(r),
             UNCHANGED <<stop, completed_tasks, summed, main, tasks, made>>,
             main # "done"
      PROVE  WKCount'
  <2>1. /\ Q = (P \ {<<v, Len(deques[v])>>}) \union {<<w, 0>>}
        /\ <<v, Len(deques[v])>> \in P /\ <<w, 0>> \notin P
    <3>1. Len(deques[v]) # 0
      BY <1>a, <1>8
    <3>2. ~InHand(kpc, w)
      BY <1>8 DEF InHand
    <3>3. /\ \A u \in Worker : Len(deques[u]) \in Nat
          /\ \A u \in Worker :
                Len(deques'[u]) = IF u = v THEN Len(deques[v]) - 1 ELSE Len(deques[u])
      <4>1. \A u \in Worker : Len(deques[u]) \in Nat
        BY <1>a
      <4>2. \A u \in Worker : deques'[u] = IF u = v THEN s ELSE deques[u]
        BY <1>a, <1>8
      <4> QED
        BY <1>8, <4>1, <4>2
    <3>4. \A u \in Worker : InHand(kpc', u)
                               <=> u = w \/ InHand(kpc, u)
      BY <1>a, <1>8 DEF InHand
    <3> QED
      <4>1. Took(deques, kpc, deques', kpc', v, w)
        BY <3>1, <3>2, <3>3, <3>4 DEF Took
      <4> QED
        BY ONLY <4>1, v \in Worker, w \in Worker, PlaceTaken
  <2>2. IsFiniteSet(Q) /\ Cardinality(Q) = Cardinality(P)
    <3> HIDE DEF P, Q
    <3> QED
      BY <1>a, <2>1, CountSame
  <2>3. Ranges2
    <3> TAKE u \in Worker
    <3>1. range'[u] # NoTask => NonEmpty(range'[u])
      BY <1>a, <1>8
    <3>2. \A p \in 1..Len(deques'[u]) : NonEmpty(deques'[u][p])
      <4>1. CASE u = v
        BY <1>a, <1>8, <4>1
      <4>2. CASE u # v
        BY <1>a, <1>8, <4>2
      <4> QED
        BY <4>1, <4>2
    <3> QED
      BY <3>1, <3>2
  <2> QED
    BY <1>a, <1>b, <1>c, <1>8, <2>2, <2>3
<1>9. ASSUME NEW w \in Worker, PopOwn(w)  PROVE WKCount'
  <2>1. main \notin {"submit", "start", "done"}
    BY <1>6, <1>9 DEF WorkerStep
  <2>2. CASE deques[w] = << >>
    <3>1. kpc[w] = "pop" /\ kpc' = [kpc EXCEPT ![w] = "steal"]
      BY <1>9, <2>2 DEF PopOwn, WKGoto
    <3>2. \A u \in Worker : InHand(kpc, u) <=> InHand(kpc', u)
      BY <1>a, <3>1 DEF InHand
    <3>3. Q = P
      BY <1>9, <2>2, <3>2, PlaceKept DEF PopOwn
    <3> QED
      BY <1>a, <1>c, <1>2, <1>9, <2>1, <2>2, <3>3 DEF PopOwn
  <2>3. CASE deques[w] # << >>
    <3> DEFINE s == deques[w]
               f == Front(s)
               r == Last(s)
    <3>1. s \in Seq(Interval) /\ s # << >>
      BY <1>a, <2>3
    <3>2. \A p \in 1..Len(s) : NonEmpty(s[p])
      BY <1>a
    <3>3. /\ kpc[w] = "pop" /\ kpc' = [kpc EXCEPT ![w] = "run"]
          /\ deques' = [deques EXCEPT ![w] = f] /\ range' = [range EXCEPT ![w] = r]
          /\ UNCHANGED <<stop, completed_tasks, summed, main, tasks, made>>
      BY <1>9, <2>3 DEF PopOwn, WKGoto
    <3>4. /\ Len(s) \in Nat \ {0} /\ r = s[Len(s)] /\ r \in Interval
          /\ f \in Seq(Interval) /\ Len(f) = Len(s) - 1
          /\ \A p \in 1..(Len(s) - 1) : f[p] = s[p]
      <4> HIDE DEF s
      <4> QED
        BY ONLY <3>1, FrontFacts
    <3>5. NonEmpty(r) /\ \A p \in 1..Len(f) : NonEmpty(f[p])
      <4> HIDE DEF s, f, r
      <4>1. Len(s) \in 1..Len(s) /\ \A p \in 1..(Len(s) - 1) : p \in 1..Len(s)
        BY <3>4
      <4> QED
        BY <3>2, <3>4, <4>1
    <3> HIDE DEF f, r
    <3> QED
      BY <1>8, <2>1, <2>3, <3>3, <3>4, <3>5
  <2> QED
    BY <2>2, <2>3
<1>10. ASSUME NEW w \in Worker, Steal(w)  PROVE WKCount'
  <2>1. main \notin {"submit", "start", "done"}
    BY <1>6, <1>10 DEF WorkerStep
  <2>2. CASE WKGoto(w, "steal", "loop") /\ UNCHANGED <<deques, range>>
    <3>1. \A u \in Worker : InHand(kpc, u) <=> InHand(kpc', u)
      BY <1>a, <2>2 DEF WKGoto, InHand
    <3>2. Q = P
      BY <2>2, <3>1, PlaceKept
    <3> QED
      BY <1>a, <1>c, <1>2, <1>10, <2>1, <2>2, <3>2 DEF Steal
  <2>3. ASSUME NEW v \in Worker \ {w}, deques[v] # << >>, WKGoto(w, "steal", "run"),
               range' = [range EXCEPT ![w] = Head(deques[v])],
               deques' = [deques EXCEPT ![v] = Tail(deques[v])]
        PROVE  WKCount'
    <3> DEFINE s == deques[v]
               f == Tail(s)
               r == Head(s)
    <3>1. s \in Seq(Interval) /\ s # << >>
      BY <1>a, <2>3
    <3>2. \A p \in 1..Len(s) : NonEmpty(s[p])
      BY <1>a
    <3>3. /\ kpc[w] = "steal" /\ kpc' = [kpc EXCEPT ![w] = "run"]
          /\ deques' = [deques EXCEPT ![v] = f] /\ range' = [range EXCEPT ![w] = r]
          /\ UNCHANGED <<stop, completed_tasks, summed, main, tasks, made>>
      BY <1>10, <2>3 DEF Steal, WKGoto
    <3>4. /\ Len(s) \in Nat \ {0} /\ r = s[1] /\ r \in Interval
          /\ f \in Seq(Interval) /\ Len(f) = Len(s) - 1
          /\ \A p \in 1..(Len(s) - 1) : f[p] = s[p + 1]
      <4> HIDE DEF s
      <4> QED
        BY ONLY <3>1, TailFacts
    <3>5. NonEmpty(r) /\ \A p \in 1..Len(f) : NonEmpty(f[p])
      <4> HIDE DEF s, f, r
      <4>1. 1 \in 1..Len(s) /\ \A p \in 1..(Len(s) - 1) : p + 1 \in 1..Len(s)
        BY <3>4
      <4> QED
        BY <3>2, <3>4, <4>1
    <3> HIDE DEF f, r
    <3> QED
      BY <1>8, <2>1, <2>3, <3>3, <3>4, <3>5
  <2> QED
    BY <1>10, <2>2, <2>3 DEF Steal
<1>11. ASSUME NEW w \in Worker, Split(w)  PROVE WKCount'
  <2> DEFINE r == range[w]
             left == <<r[1], Mid(r)>>
             right == <<Mid(r), r[2]>>
             s == Append(deques[w], right)
  <2>1. /\ r # NoTask /\ r \in Interval /\ r[2] - r[1] > Grain
        /\ deques' = [deques EXCEPT ![w] = s] /\ kpc' = kpc
        /\ range' = [range EXCEPT ![w] = left]
        /\ tasks' = tasks + 1 /\ made' = made + 1
        /\ UNCHANGED <<stop, completed_tasks, summed, main>>
        /\ main # "done"
    BY <1>a, <1>6, <1>11 DEF Split, Push, WKInv, WorkerStep
  <2>2. left \in Interval /\ right \in Interval
    BY <2>1, Halves
  <2>3. NonEmpty(left) /\ NonEmpty(right)
    <3>1. r[1] \in Int /\ r[2] \in Int /\ r[2] - r[1] > 1
      BY <2>1, WKSizes DEF Interval
    <3> QED
      BY <3>1 DEF NonEmpty, Mid
  <2> HIDE DEF left, right
  <2>4. /\ s \in Seq(Interval) /\ Len(s) = Len(deques[w]) + 1 /\ Len(deques[w]) \in Nat
        /\ s[Len(deques[w]) + 1] = right
        /\ \A p \in 1..Len(deques[w]) : s[p] = deques[w][p]
    BY <1>a, <2>2, AppendFacts
  <2> HIDE DEF s
  <2>5. IsFiniteSet(Q) /\ Cardinality(Q) = Cardinality(P) + 1
    <3>1. /\ \A u \in Worker : Len(deques[u]) \in Nat
          /\ \A u \in Worker :
                Len(deques'[u]) = IF u = w THEN Len(deques[w]) + 1 ELSE Len(deques[u])
      <4>1. \A u \in Worker : deques'[u] = IF u = w THEN s ELSE deques[u]
        BY <1>a, <2>1
      <4>2. \A u \in Worker : Len(deques[u]) \in Nat
        BY <1>a
      <4> QED
        BY <2>4, <4>1, <4>2
    <3>2. Q = P \union {<<w, Len(deques'[w])>>} /\ <<w, Len(deques'[w])>> \notin P
      <4> DEFINE d == deques
                 e == deques'
                 k == kpc
      <4>1. /\ \A u \in Worker : Len(d[u]) \in Nat
            /\ \A u \in Worker : Len(e[u]) = IF u = w THEN Len(d[w]) + 1 ELSE Len(d[u])
        BY <3>1
      <4>2. Q = PlacesOf(e, k)
        BY <2>1
      <4> HIDE DEF d, e, k, Q
      <4>3. /\ PlacesOf(e, k) = PlacesOf(d, k) \union {<<w, Len(e[w])>>}
            /\ <<w, Len(e[w])>> \notin PlacesOf(d, k)
        BY ONLY <4>1, w \in Worker, PlacePushed
      <4> QED
        BY <4>2, <4>3 DEF d, e, k
    <3> HIDE DEF P, Q
    <3> QED
      BY <1>a, <3>2, CountUp
  <2>6. \A p \in 1..Len(s) : NonEmpty(s[p])
    <3> TAKE p \in 1..Len(s)
    <3>1. p \in 1..Len(deques[w]) \/ p = Len(deques[w]) + 1
      BY <2>4
    <3> QED
      BY <1>a, <2>3, <2>4, <3>1
  <2>7. Ranges2
    <3> TAKE u \in Worker
    <3>1. CASE u = w
      BY <1>a, <2>1, <2>3, <2>6, <3>1
    <3>2. CASE u # w
      BY <1>a, <2>1, <3>2
    <3> QED
      BY <3>1, <3>2
  <2> QED
    BY <1>a, <1>b, <1>c, <2>1, <2>5, <2>7
<1>12. ASSUME NEW w \in Worker, Sum(w)  PROVE WKCount'
  <2>1. \A u \in Worker : InHand(kpc, u) <=> InHand(kpc', u)
    BY <1>a, <1>12 DEF Sum, WKGoto, InHand
  <2>2. Q = P
    BY <1>12, <2>1, PlaceKept DEF Sum
  <2>3. main = "join" => summed' = Element
    BY <1>c, <1>12 DEF Sum, Elements, Element
  <2> QED
    BY <1>a, <1>2, <1>6, <1>12, <2>2, <2>3 DEF Sum, WorkerStep
<1>13. ASSUME NEW w \in Worker, Complete(w)  PROVE WKCount'
  <2>1. /\ kpc[w] = "delete" /\ kpc' = [kpc EXCEPT ![w] = "loop"]
        /\ tasks' = tasks - 1 /\ completed_tasks' = completed_tasks + 1
        /\ UNCHANGED <<deques, stop, summed, main, range, made>> /\ main # "done"
    BY <1>6, <1>13 DEF Complete, WKGoto, WorkerStep
  <2>2. \A u \in Worker : Len(deques[u]) \in Nat
    BY <1>a
  <2>3. Q = P \ {<<w, 0>>} /\ <<w, 0>> \in P
    <3>1. \A u \in Worker : InHand(kpc', u)
                               <=> u # w /\ InHand(kpc, u)
      BY <1>a, <2>1 DEF InHand
    <3>2. deques' = deques /\ kpc[w] = "delete"
      BY <2>1
    <3> QED
      BY ONLY <2>2, <3>1, <3>2, w \in Worker, PlaceLeft
  <2>4. IsFiniteSet(Q) /\ Cardinality(Q) = Cardinality(P) - 1
    <3> HIDE DEF P, Q
    <3> QED
      BY <1>a, <2>3, CountDown
  <2> QED
    BY <1>a, <1>b, <1>c, <2>1, <2>4
<1>14. CASE UNCHANGED wkVars
  BY <1>14 DEF wkVars, WKCount, WKTypeOK, WKShape
<1> QED
  BY <1>1, <1>3, <1>4, <1>5, <1>7, <1>9, <1>10, <1>11, <1>12, <1>13, <1>14
  DEF WKNext, MainStep, WorkerStep, Finished

\* At first there is no place and no task.
LEMMA WKCountInit == WKInit => WKCount
<1> SUFFICES ASSUME WKInit  PROVE WKCount
  OBVIOUS
<1>1. \A w \in Worker : deques[w] = << >> /\ kpc[w] = "new" /\ range[w] = NoTask
  BY DEF WKInit
<1>2. \A w \in Worker : Len(deques[w]) = 0 /\ 1..Len(deques[w]) = {}
  BY <1>1
<1>3. PlacesOf(deques, kpc) = {}
  BY <1>1, <1>2 DEF PlacesOf, PlacesAt, InHand
<1>4. WKTypeOK
  <2>1. WKShape
    BY DEF WKInit, WKShape
  <2> QED
    BY <2>1 DEF WKInit, WKTypeOK
<1>5. IsFiniteSet(PlacesOf(deques, kpc)) /\ Cardinality(PlacesOf(deques, kpc)) = 0
  BY <1>3, FS_EmptySet
<1> QED
  BY <1>1, <1>2, <1>4, <1>5 DEF WKInit, WKCount

\* When the threads are joined no place is left: a task on a deque would hold an
\* element that is not summed.
LEMMA NoneInPlace == WKInv /\ WKCount => NothingLeftBehind
<1> SUFFICES ASSUME WKInv, WKCount, main = "done"
             PROVE  /\ \A w \in Worker : deques[w] = << >>
                    /\ tasks = 0
                    /\ completed_tasks = made
  BY DEF NothingLeftBehind
<1>1. \A w \in Worker : deques[w] \in Seq(Interval) /\ kpc[w] = "exited"
  BY DEF WKCount, WKTypeOK, WKShape
<1>2. ASSUME NEW w \in Worker  PROVE deques[w] = << >>
  <2> SUFFICES ASSUME deques[w] # << >>  PROVE FALSE
    OBVIOUS
  <2>1. Len(deques[w]) \in Nat \ {0} /\ deques[w][1] \in Interval
    BY <1>1, TailFacts
  <2>2. 1 \in 1..Len(deques[w]) /\ 1 \in 0..Len(deques[w])
    BY <2>1
  <2>3. NonEmpty(deques[w][1])
    BY <2>2 DEF WKCount
  <2> DEFINE k == deques[w][1][1]
  <2>4. k \in Element /\ k \in Elements(deques[w][1])
    BY <2>1, <2>3, WKSizes DEF NonEmpty, Interval, Element, Elements, NoTask
  <2>5. k \in summed
    BY <2>4 DEF WKCount
  <2>6. Holds(w, 1, k)
    BY <2>2, <2>4 DEF Holds, TaskAt
  <2> QED
    BY <2>2, <2>4, <2>5, <2>6 DEF WKInv, WorkConserved, Element
<1>3. PlacesOf(deques, kpc) = {}
  BY <1>1, <1>2 DEF PlacesOf, PlacesAt, InHand
<1>4. tasks = 0
  BY <1>3, FS_EmptySet DEF WKCount
<1> QED
  BY <1>2, <1>4 DEF WKCount, WKTypeOK

\* stop() and the workers' destructor leave nothing: when the threads are joined,
\* every task was run, counted and deleted, for any number of workers.
THEOREM NothingLeftBehindCorrect == WKSpec => []NothingLeftBehind
<1>1. WKSpec => [](WKInv /\ WKCount)
  BY WKCountInit, WKCountStep, WKInvCorrect, PTL DEF WKSpec
<1> QED
  BY <1>1, NoneInPlace, PTL
-----------------------------------------------------------------------------
(* Proof of the read-copy-update engine: no reader holds a deleted entry,    *)
(* for any number of readers, writers and updates, and the engine keeps the *)
(* promise of GracePeriod.                                                  *)
(* RcuInv relates what a reader holds to the update that replaced it: such  *)
(* an update has still to look at the reader, and will find it in an epoch  *)
(* no later than its target.                                                *)

USE MaxReadersNat, MaxUpdatesNat

\* The program starts in the invariant.
LEMMA RcuInitInv == RcuInit => RcuInv
  BY DEF RcuInit, RcuInv, RcuTypeOK, ReadersAnnounced, OneWriterDeletes,
         WaitersAhead, HeldAccountedFor, Updating, Entry, Reader

\* rcu_read_lock() announces an epoch that is at most one ahead.
LEMMA OrOneBounds == \A n \in Nat : OrOne(n) \in Nat /\ OrOne(n) # 0 /\ OrOne(n) <= n + 1
  BY DEF OrOne

-----------------------------------------------------------------------------
(* The steps of readers.                                                    *)

LEMMA LoadStep == ASSUME RcuInv, NEW r \in Reader, ReadLockLoad(r) PROVE RcuInv'
<1> USE DEF RcuInv, ReadLockLoad
<1>1. RcuTypeOK'
  BY DEF RcuTypeOK, writerVars
<1>2. ReadersAnnounced'
  BY DEF RcuTypeOK, ReadersAnnounced
<1>3. OneWriterDeletes'
  BY DEF OneWriterDeletes, Updating, writerVars
<1>4. WaitersAhead'
  BY DEF RcuTypeOK, WaitersAhead, Updating, writerVars
<1>5. HeldAccountedFor'
  BY DEF HeldAccountedFor, Updating, writerVars
<1> QED BY <1>1, <1>2, <1>3, <1>4, <1>5

LEMMA StoreStep == ASSUME RcuInv, NEW r \in Reader, ReadLockStore(r) PROVE RcuInv'
<1> USE DEF RcuInv, ReadLockStore
<1>0. /\ lock_e[r] \in Nat
      /\ lock_e[r] <= global_epoch
      /\ OrOne(lock_e[r]) \in Nat \ {0}
      /\ OrOne(lock_e[r]) <= global_epoch + 1
  BY OrOneBounds DEF RcuTypeOK, ReadersAnnounced
<1>1. RcuTypeOK'
  BY <1>0 DEF RcuTypeOK, writerVars
<1>2. ReadersAnnounced'
  BY <1>0 DEF RcuTypeOK, ReadersAnnounced
<1>3. OneWriterDeletes'
  BY DEF OneWriterDeletes, Updating, writerVars
<1>4. WaitersAhead'
  BY DEF RcuTypeOK, WaitersAhead, Updating, writerVars
<1>5. HeldAccountedFor'
  BY DEF HeldAccountedFor, Updating, writerVars
<1> QED BY <1>1, <1>2, <1>3, <1>4, <1>5

LEMMA DereferenceStep == ASSUME RcuInv, NEW r \in Reader, Dereference(r) PROVE RcuInv'
<1> USE DEF RcuInv, Dereference
<1>1. RcuTypeOK'
  BY DEF RcuTypeOK, writerVars
<1>2. ReadersAnnounced'
  BY DEF RcuTypeOK, ReadersAnnounced
<1>3. OneWriterDeletes'
  BY DEF OneWriterDeletes, Updating, writerVars
<1>4. WaitersAhead'
  BY DEF WaitersAhead, Updating, writerVars
<1>5. HeldAccountedFor'
  BY DEF RcuTypeOK, HeldAccountedFor, Updating, writerVars
<1> QED BY <1>1, <1>2, <1>3, <1>4, <1>5

\* Leaving a section takes the reader out of every waits[x]; it holds nothing.
LEMMA UnlockStep == ASSUME RcuInv, NEW r \in Reader, ReadUnlock(r) PROVE RcuInv'
<1> USE DEF RcuInv, ReadUnlock
<1>1. RcuTypeOK'
  BY DEF RcuTypeOK, writerVars
<1>2. ReadersAnnounced'
  BY DEF RcuTypeOK, ReadersAnnounced
<1>3. OneWriterDeletes'
  BY DEF OneWriterDeletes, Updating, writerVars
<1>4. WaitersAhead'
  BY DEF RcuTypeOK, WaitersAhead, Updating, writerVars
<1>5. HeldAccountedFor'
  <2> SUFFICES ASSUME NEW q \in Reader, NEW x \in held'[q]
               PROVE x = published_route' \/
                     \E w \in Updating' : old_entry'[w] = x /\ q \in waits'[x]
    BY DEF HeldAccountedFor
  <2>1. q # r /\ x \in held[q] /\ x \in Entry
    BY DEF RcuTypeOK
  <2> QED
    BY <2>1 DEF RcuTypeOK, HeldAccountedFor, Updating, writerVars
<1> QED BY <1>1, <1>2, <1>3, <1>4, <1>5

-----------------------------------------------------------------------------
(* The steps of writers.                                                    *)

\* The new entry is nobody's; the old one passes from "published" to w, and
\* the readers that hold it are inside.
LEMMA PublishStep == ASSUME RcuInv, NEW w \in Writer, Publish(w) PROVE RcuInv'
<1> USE DEF RcuInv, Publish
<1>0. /\ allocated' = allocated + 1 /\ allocated \in Nat /\ allocated' \in Entry
      /\ 0..allocated' = (0..allocated) \union {allocated'}
      /\ allocated' \notin 0..allocated
      /\ published_route \in 0..allocated
      /\ published_route \in Entry
      /\ Updating' = Updating \union {w} /\ w \notin Updating
      /\ old_entry'[w] = published_route
      /\ \A u \in Updating : old_entry'[u] = old_entry[u] /\ wpc'[u] = wpc[u]
  BY DEF RcuTypeOK, OneWriterDeletes, Updating, Entry
<1>1. RcuTypeOK'
  BY <1>0 DEF RcuTypeOK, readerVars, Inside
<1>2. ReadersAnnounced'
  BY DEF ReadersAnnounced, readerVars
<1>3. OneWriterDeletes'
  <2>1. \A u \in Updating : old_entry[u] # published_route
    BY DEF OneWriterDeletes
  <2>2. \A w1, w2 \in Updating' : old_entry'[w1] = old_entry'[w2] => w1 = w2
    BY <1>0, <2>1 DEF OneWriterDeletes
  <2>3. {old_entry'[u] : u \in Updating'}
          = {old_entry[u] : u \in Updating} \union {published_route}
    BY <1>0
  <2>4. 0..allocated' = {published_route'} \union freed'
                          \union {old_entry'[u] : u \in Updating'}
    BY <1>0, <2>3 DEF OneWriterDeletes
  <2>5. allocated' \notin freed /\ \A u \in Updating : old_entry[u] # allocated'
    BY <1>0 DEF OneWriterDeletes
  <2>6. /\ \A u \in Updating' : old_entry'[u] \notin freed' \union {published_route'}
        /\ published_route' \notin freed'
    BY <1>0, <2>5 DEF OneWriterDeletes
  <2> QED BY <2>2, <2>4, <2>6 DEF OneWriterDeletes
<1>4. WaitersAhead'
  <2> SUFFICES ASSUME NEW u \in Updating', NEW r \in waits'[old_entry'[u]]
               PROVE /\ rpc'[r] = "in"
                     /\ wpc'[u] = "wait" => /\ next_reader'[u] <= r
                                            /\ reader_epochs'[r] <= target_epoch'[u]
    BY DEF WaitersAhead
  <2>1. CASE u = w
    <3>1. r \in Inside /\ wpc'[u] = "advance"
      BY <2>1, <1>0 DEF RcuTypeOK
    <3> QED BY <3>1 DEF Inside, readerVars
  <2>2. CASE u # w
    <3>1. u \in Updating /\ old_entry[u] # published_route /\ old_entry[u] \in Entry
      BY <1>0, <2>2 DEF OneWriterDeletes, RcuTypeOK, Updating
    <3>2. r \in waits[old_entry[u]]
      BY <1>0, <3>1 DEF RcuTypeOK
    <3> QED BY <1>0, <3>1, <3>2 DEF WaitersAhead, readerVars
  <2> QED BY <2>1, <2>2
<1>5. HeldAccountedFor'
  <2> SUFFICES ASSUME NEW r \in Reader, NEW x \in held'[r]
               PROVE \E u \in Updating' : old_entry'[u] = x /\ r \in waits'[x]
    BY DEF HeldAccountedFor
  <2>0. x \in held[r] /\ x \in Entry /\ r \in Inside
    BY DEF RcuTypeOK, ReadersAnnounced, readerVars, Inside
  <2>1. CASE x = published_route
    BY <1>0, <2>0, <2>1 DEF RcuTypeOK
  <2>2. CASE x # published_route
    <3>1. PICK u \in Updating : old_entry[u] = x /\ r \in waits[x]
      BY <2>0, <2>2 DEF HeldAccountedFor
    <3> QED BY <1>0, <2>0, <2>2, <3>1 DEF RcuTypeOK
  <2> QED BY <2>1, <2>2
<1> QED BY <1>1, <1>2, <1>3, <1>4, <1>5

\* Every announced epoch is below the target.
LEMMA AdvanceStep == ASSUME RcuInv, NEW w \in Writer, AdvanceEpoch(w) PROVE RcuInv'
<1> USE DEF RcuInv, AdvanceEpoch
<1>0. Updating' = Updating /\ \A u \in Writer : u # w => wpc'[u] = wpc[u]
  BY DEF RcuTypeOK, Updating
<1>1. RcuTypeOK'
  BY DEF RcuTypeOK, readerVars
<1>2. ReadersAnnounced'
  BY DEF RcuTypeOK, ReadersAnnounced, readerVars
<1>3. OneWriterDeletes'
  BY <1>0 DEF OneWriterDeletes
<1>4. WaitersAhead'
  <2> SUFFICES ASSUME NEW u \in Updating', NEW r \in waits'[old_entry'[u]]
               PROVE /\ rpc'[r] = "in"
                     /\ wpc'[u] = "wait" => /\ next_reader'[u] <= r
                                            /\ reader_epochs'[r] <= target_epoch'[u]
    BY DEF WaitersAhead
  <2>1. u \in Updating /\ r \in waits[old_entry[u]] /\ r \in Reader /\ rpc[r] = "in"
    BY <1>0 DEF WaitersAhead, RcuTypeOK, Updating
  <2>2. CASE u = w
    <3>1. target_epoch'[u] = global_epoch + 2 /\ next_reader'[u] = 1
      BY <2>2 DEF RcuTypeOK
    <3>2. reader_epochs[r] <= global_epoch + 1 /\ reader_epochs[r] \in Nat
      BY <2>1 DEF ReadersAnnounced, RcuTypeOK
    <3>3. reader_epochs[r] <= global_epoch + 2 /\ 1 <= r
      BY <2>1, <3>2 DEF Reader, RcuTypeOK
    <3> QED BY <2>1, <3>1, <3>3 DEF readerVars
  <2>3. CASE u # w
    BY <1>0, <2>1, <2>3 DEF WaitersAhead, readerVars, RcuTypeOK, Updating
  <2> QED BY <2>2, <2>3
<1>5. HeldAccountedFor'
  BY <1>0 DEF HeldAccountedFor, readerVars
<1> QED BY <1>1, <1>2, <1>3, <1>4, <1>5

\* The scan passes only readers nobody has to wait for.
LEMMA ObserveStep == ASSUME RcuInv, NEW w \in Writer, ObserveReader(w) PROVE RcuInv'
<1> USE DEF RcuInv, ObserveReader
<1>0. Updating' = Updating
  BY DEF Updating
<1>1. RcuTypeOK'
  <2>1. next_reader[w] + 1 \in 1..MaxReaders + 1
    BY DEF Reader
  <2> QED BY <2>1 DEF RcuTypeOK, readerVars
<1>2. ReadersAnnounced'
  BY DEF ReadersAnnounced, readerVars
<1>3. OneWriterDeletes'
  BY <1>0 DEF OneWriterDeletes
<1>4. WaitersAhead'
  <2> SUFFICES ASSUME NEW u \in Updating, NEW r \in waits[old_entry[u]]
               PROVE /\ rpc[r] = "in"
                     /\ wpc[u] = "wait" => /\ next_reader'[u] <= r
                                           /\ reader_epochs[r] <= target_epoch[u]
    BY <1>0 DEF WaitersAhead, readerVars
  <2>1. r \in Reader /\ rpc[r] = "in" /\ reader_epochs[r] # 0 /\ reader_epochs[r] \in Nat
    BY DEF WaitersAhead, RcuTypeOK, ReadersAnnounced, Updating
  <2>2. CASE u = w
    <3>1. next_reader[w] <= r /\ reader_epochs[r] <= target_epoch[w]
      BY <2>2 DEF WaitersAhead
    <3>2. next_reader[w] # r
      BY <2>1, <3>1 DEF Quiescent, RcuTypeOK
    <3> QED BY <2>1, <2>2, <3>1, <3>2 DEF RcuTypeOK, Reader
  <2>3. CASE u # w
    BY <2>1, <2>3 DEF WaitersAhead, RcuTypeOK, Updating
  <2> QED BY <2>2, <2>3
<1>5. HeldAccountedFor'
  BY <1>0 DEF HeldAccountedFor, readerVars
<1> QED BY <1>1, <1>2, <1>3, <1>4, <1>5

\* When the scan is over nobody is waited for, so nobody holds the old entry.
LEMMA NobodyWaited ==
    ASSUME RcuInv, NEW w \in Writer, Delete(w) PROVE waits[old_entry[w]] = {}
<1> SUFFICES ASSUME NEW r \in waits[old_entry[w]] PROVE FALSE
  OBVIOUS
<1>1. next_reader[w] <= r /\ r \in Reader /\ next_reader[w] = MaxReaders + 1
  BY DEF RcuInv, WaitersAhead, RcuTypeOK, Updating, Delete
<1> QED BY <1>1 DEF Reader

LEMMA DeleteStep == ASSUME RcuInv, NEW w \in Writer, Delete(w) PROVE RcuInv'
<1> USE DEF RcuInv, Delete
<1>0. Updating' = Updating \ {w} /\ w \in Updating
      /\ \A u \in Updating' : wpc'[u] = wpc[u]
  BY DEF Updating, RcuTypeOK
<1>1. RcuTypeOK'
  BY DEF RcuTypeOK, readerVars
<1>2. ReadersAnnounced'
  BY DEF ReadersAnnounced, readerVars
<1>3. OneWriterDeletes'
  <2>1. {old_entry[u] : u \in Updating}
          = {old_entry[u] : u \in Updating'} \union {old_entry[w]}
    BY <1>0
  <2>2. \A u \in Updating' : old_entry[u] # old_entry[w]
    BY <1>0 DEF OneWriterDeletes
  <2> QED BY <1>0, <2>1, <2>2 DEF OneWriterDeletes
<1>4. WaitersAhead'
  BY <1>0 DEF WaitersAhead, readerVars
<1>5. HeldAccountedFor'
  <2> SUFFICES ASSUME NEW r \in Reader, NEW x \in held[r], x # published_route
               PROVE \E u \in Updating' : old_entry[u] = x /\ r \in waits[x]
    BY DEF HeldAccountedFor, readerVars
  <2>1. PICK u \in Updating : old_entry[u] = x /\ r \in waits[x]
    BY DEF HeldAccountedFor
  <2>2. u # w
    BY <2>1, NobodyWaited
  <2> QED BY <1>0, <2>1, <2>2
<1> QED BY <1>1, <1>2, <1>3, <1>4, <1>5

-----------------------------------------------------------------------------
(* The theorems.                                                            *)

LEMMA RcuStep == RcuInv /\ [RcuNext]_rcuVars => RcuInv'
<1> SUFFICES ASSUME RcuInv, [RcuNext]_rcuVars PROVE RcuInv'
  OBVIOUS
<1>1. ASSUME NEW r \in Reader, ReaderNext(r) PROVE RcuInv'
  BY <1>1, LoadStep, StoreStep, DereferenceStep, UnlockStep DEF ReaderNext
<1>2. ASSUME NEW w \in Writer, WriterNext(w) PROVE RcuInv'
  BY <1>2, PublishStep, AdvanceStep, ObserveStep, DeleteStep DEF WriterNext
<1>3. CASE UNCHANGED rcuVars
  BY <1>3 DEF RcuInv, RcuTypeOK, ReadersAnnounced, OneWriterDeletes, WaitersAhead,
       HeldAccountedFor, Updating, rcuVars, readerVars, writerVars
<1> QED BY <1>1, <1>2, <1>3 DEF RcuNext

\* The invariant of SimpleRcuEngine, which contains its types and that every
\* replaced entry is deleted by exactly one writer.
THEOREM RcuInvCorrect == RcuSpec => []RcuInv
  BY RcuInitInv, RcuStep, PTL DEF RcuSpec

\* rcu_dereference() gives nothing that is deleted before rcu_read_unlock().
THEOREM NoReaderHoldsFreedCorrect == RcuSpec => []NoReaderHoldsFreed
<1>1. RcuInv => NoReaderHoldsFreed
  BY DEF RcuInv, NoReaderHoldsFreed, HeldAccountedFor, OneWriterDeletes
<1> QED BY <1>1, RcuInvCorrect, PTL

\* Each writer's old entry has exactly one deleter and nothing leaks.
THEOREM OneWriterDeletesCorrect == RcuSpec => []OneWriterDeletes
<1>1. RcuInv => OneWriterDeletes
  BY DEF RcuInv
<1> QED BY <1>1, RcuInvCorrect, PTL

-----------------------------------------------------------------------------
(* The refinement of GracePeriod.                                           *)

Pending == {old_entry[w] : w \in Updating}

LEMMA GraceStep == RcuInv /\ [RcuNext]_rcuVars => [GP!GPNext]_(GP!gpVars)
<1> SUFFICES ASSUME RcuInv, [RcuNext]_rcuVars PROVE [GP!GPNext]_(GP!gpVars)
  OBVIOUS
<1> USE DEF RcuInv
<1>1. ASSUME NEW r \in Reader, ReadLockLoad(r) PROVE UNCHANGED GP!gpVars
  BY <1>1 DEF ReadLockLoad, GP!gpVars, Inside, Updating, RcuTypeOK, writerVars
<1>2. ASSUME NEW r \in Reader, ReadLockStore(r) PROVE GP!GPPin(r)
  BY <1>2 DEF ReadLockStore, GP!GPPin, Inside, Updating, RcuTypeOK, writerVars
<1>3. ASSUME NEW r \in Reader, Dereference(r) PROVE UNCHANGED GP!gpVars
  BY <1>3 DEF Dereference, GP!gpVars, Inside, Updating, writerVars
<1>4. ASSUME NEW r \in Reader, ReadUnlock(r) PROVE GP!GPUnpin(r)
  BY <1>4 DEF ReadUnlock, GP!GPUnpin, Inside, Updating, RcuTypeOK, writerVars
<1>5. ASSUME NEW w \in Writer, Publish(w), NEW n \in Entry, n = published_route
      PROVE GP!GPRetire(n)
  <2>1. /\ Updating' = Updating \union {w} /\ w \notin Updating
        /\ old_entry'[w] = published_route
        /\ \A u \in Updating : old_entry'[u] = old_entry[u]
    BY <1>5 DEF Publish, Updating, RcuTypeOK
  <2>2. Pending' = Pending \union {published_route}
    BY <2>1 DEF Pending
  <2>3. published_route \notin Pending
    BY DEF OneWriterDeletes, Pending
  <2>4. Inside' = Inside
    BY <1>5 DEF Publish, Inside, readerVars
  <2> QED
    BY <1>5, <2>2, <2>3, <2>4 DEF Publish, GP!GPRetire, Pending, RcuTypeOK
<1>6. ASSUME NEW w \in Writer, AdvanceEpoch(w) PROVE UNCHANGED GP!gpVars
  <2>1. Updating' = Updating /\ Inside' = Inside
    BY <1>6 DEF AdvanceEpoch, Updating, Inside, RcuTypeOK, readerVars
  <2> QED BY <1>6, <2>1 DEF AdvanceEpoch, GP!gpVars
<1>7. ASSUME NEW w \in Writer, ObserveReader(w) PROVE UNCHANGED GP!gpVars
  BY <1>7 DEF ObserveReader, GP!gpVars, Inside, Updating, readerVars
<1>8. ASSUME NEW w \in Writer, Delete(w), NEW n \in Entry, n = old_entry[w]
      PROVE GP!GPReclaim(n)
  <2>1. Updating' = Updating \ {w} /\ w \in Updating
    BY <1>8 DEF Delete, Updating, RcuTypeOK
  <2>2. \A u \in Updating' : old_entry[u] # old_entry[w]
    BY <2>1 DEF OneWriterDeletes
  <2>3. Pending' = Pending \ {old_entry[w]} /\ old_entry[w] \in Pending
    BY <1>8, <2>1, <2>2 DEF Pending, Delete
  <2>4. Inside' = Inside /\ waits' = waits /\ old_entry[w] \in Entry
    BY <1>8 DEF Delete, Inside, readerVars, RcuTypeOK
  <2> QED BY <1>8, <2>3, <2>4, NobodyWaited DEF GP!GPReclaim, Pending
<1>9. CASE UNCHANGED rcuVars
  BY <1>9 DEF GP!gpVars, Inside, Updating, rcuVars, readerVars, writerVars
<1>10. ASSUME NEW r \in Reader, ReaderNext(r) PROVE GP!GPNext \/ UNCHANGED GP!gpVars
  BY <1>10, <1>1, <1>2, <1>3, <1>4 DEF ReaderNext, GP!GPNext
<1>11. ASSUME NEW w \in Writer, WriterNext(w) PROVE GP!GPNext \/ UNCHANGED GP!gpVars
  <2>1. CASE Publish(w)
    <3>1. PICK n \in Entry : n = published_route
      BY DEF RcuTypeOK
    <3> QED BY <2>1, <3>1, <1>5 DEF GP!GPNext
  <2>2. CASE AdvanceEpoch(w)
    BY <2>2, <1>6
  <2>3. CASE ObserveReader(w)
    BY <2>3, <1>7
  <2>4. CASE Delete(w)
    <3>1. PICK n \in Entry : n = old_entry[w]
      BY DEF RcuTypeOK
    <3> QED BY <2>4, <3>1, <1>8 DEF GP!GPNext
  <2> QED BY <1>11, <2>1, <2>2, <2>3, <2>4 DEF WriterNext
<1> QED BY <1>9, <1>10, <1>11 DEF RcuNext

\* synchronize_rcu() is a grace period in the sense of GracePeriod, the
\* promise EpochReclaimer makes too.
THEOREM ImplementsGrace == RcuSpec => GracePeriodKept
<1>1. RcuInit => GP!GPInit
  BY DEF RcuInit, GP!GPInit, Inside, Updating
<1> QED BY <1>1, GraceStep, RcuInvCorrect, PTL DEF RcuSpec, GracePeriodKept, GP!GPSpec

-----------------------------------------------------------------------------
(* Proof: what the run checks of the five together *)

MCInv == CSInv /\ SQInv /\ AQInv /\ WKInv /\ WKCount /\ RcuInv

\* The structures do not interact: each part keeps its invariant, and the others
\* stand still.
LEMMA MCInvStep == MCInv /\ [MCNext]_vars => MCInv'
<1> SUFFICES ASSUME MCInv, [MCNext]_vars  PROVE MCInv'
  OBVIOUS
<1>1. /\ [CSNext]_csVars /\ [SQNext]_sqVars /\ [AQNext]_aqVars
      /\ [WKNext]_wkVars /\ [RcuNext]_rcuVars
  BY DEF MCNext, vars
<1>2. CSInv' /\ SQInv' /\ AQInv' /\ RcuInv'
  BY <1>1, CSInvStep, SQInvStep, AQInvStep, RcuStep DEF MCInv
<1>3. WKInv' /\ WKCount'
  BY <1>1, WKInvStep, WKCountStep DEF MCInv
<1> QED
  BY <1>2, <1>3 DEF MCInv

\* The five structures keep their types and StructuresConsistent for all values of
\* their constants.
THEOREM StructuresConsistentCorrect == MCSpec => []StructuresConsistent
<1>1. MCInit => MCInv
  BY CSInvInit, SQInvInit, AQInvInit, WKInvInit, WKCountInit, RcuInitInv DEF MCInit, MCInv
<1>2. MCInv => StructuresConsistent
  <2>1. CSInv => CSTypeOK /\ Validity
    BY DEF CSInv, CSTypeOK, Validity
  <2> QED
    BY <2>1, TableAliveHolds DEF MCInv, SQInv, AQInv, WKCount, StructuresConsistent
<1> QED
  BY <1>1, <1>2, MCInvStep, PTL DEF MCSpec
=============================================================================
