---------------------------- MODULE WaitFreeObjects ----------------------------
(***************************************************************************)
(* The small objects of lock_free_and_wait_free_basics.cpp.                *)
(*                                                                         *)
(* ConsensusObject (CS): decide() puts its proposal on a registry under a  *)
(* mutex, tries once to make it the winner, and returns the winner's value.*)
(*                                                                         *)
(* WaitFreeFAASequencer and LockFreeCASSequencer (SQ), side by side: each  *)
(* thread draws its tickets from the counter of its kind.                  *)
(***************************************************************************)
EXTENDS Naturals, FiniteSets

-----------------------------------------------------------------------------
(* ConsensusObject *)

CONSTANTS
    Proposer,
    Value,      \* the values proposed
    NoValue        \* nullptr, and the decision of a thread that has none yet

ASSUME NoneIsNoThread == NoValue \notin Proposer
ASSUME NoneIsNoValue == NoValue \notin Value

VARIABLES
    proposal,          \* each thread's my_val
    registry,          \* registry_: whose proposals are kept alive
    proposed_winner,   \* proposed_winner_: whose proposal it points to
    cpc,                \* where a thread is in decide()
    decision           \* what decide() returned

csVars == <<proposal, registry, proposed_winner, cpc, decision>>

CSTypeOK ==
    /\ proposal \in [Proposer -> Value]
    /\ registry \in SUBSET Proposer
    /\ proposed_winner \in Proposer \union {NoValue}
    /\ cpc \in [Proposer -> {"idle", "cas", "read", "done"}]
    /\ decision \in [Proposer -> Value \union {NoValue}]

CSInit ==
    /\ proposal \in [Proposer -> Value]
    /\ registry = {}
    /\ proposed_winner = NoValue
    /\ cpc = [t \in Proposer |-> "idle"]
    /\ decision = [t \in Proposer |-> NoValue]

CSGoto(t, from, to) == cpc[t] = from /\ cpc' = [cpc EXCEPT ![t] = to]

Register(t) ==
    /\ CSGoto(t, "idle", "cas")
    /\ registry' = registry \union {t}
    /\ UNCHANGED <<proposal, proposed_winner, decision>>

Win(t) ==
    /\ CSGoto(t, "cas", "done")
    /\ proposed_winner = NoValue
    /\ proposed_winner' = t
    /\ decision' = [decision EXCEPT ![t] = proposal[t]]
    /\ UNCHANGED <<proposal, registry>>

\* compare_exchange_strong fails only if another proposal is there.
Lose(t) ==
    /\ CSGoto(t, "cas", "read")
    /\ proposed_winner # NoValue
    /\ UNCHANGED <<proposal, registry, proposed_winner, decision>>

\* Mutant: a thread that lost returns its own value.
ReadOwn(t) ==
    /\ CSGoto(t, "read", "done")
    /\ decision' = [decision EXCEPT ![t] = proposal[t]]
    /\ UNCHANGED <<proposal, registry, proposed_winner>>

Read(t) ==
    /\ CSGoto(t, "read", "done")
    /\ decision' = [decision EXCEPT ![t] = proposal[proposed_winner]]
    /\ UNCHANGED <<proposal, registry, proposed_winner>>

CSTerminated == (\A t \in Proposer : cpc[t] = "done") /\ UNCHANGED csVars

Decide(t) == Register(t) \/ Win(t) \/ Lose(t) \/ Read(t)

CSNext == (\E t \in Proposer : Decide(t)) \/ CSTerminated

CSSpec == CSInit /\ [][CSNext]_csVars

\* decide() is wait-free: a thread that keeps running finishes its call.
CSFairSpec == CSSpec /\ \A t \in Proposer : WF_csVars(Decide(t) /\ cpc[t] # "idle")

-----------------------------------------------------------------------------
(* Properties of decide() *)

\* All decisions agree.
Agreement ==
    \A t, u \in Proposer :
        (decision[t] # NoValue /\ decision[u] # NoValue) => decision[t] = decision[u]

\* What is decided was proposed by a thread that has called decide(), and the
\* winner's proposal is kept alive by the registry for those that read it.
Validity ==
    /\ proposed_winner # NoValue => proposed_winner \in registry
    /\ \A t \in Proposer :
          decision[t] # NoValue => \E u \in registry : decision[t] = proposal[u]

\* Every call returns, also when the others stop in the middle of theirs.
DecideWaitFree == \A t \in Proposer : (cpc[t] # "idle") ~> (cpc[t] = "done")
-----------------------------------------------------------------------------
(* The sequencers *)

CONSTANTS
    FAAThread, CASThread,   \* callers of the two sequencers
    MaxTickets              \* bound: next_ticket() calls of each thread

ASSUME KindsDisjoint == FAAThread \intersect CASThread = {}
ASSUME MaxTicketsNat == MaxTickets \in Nat

VARIABLES
    faa_counter, cas_counter,   \* counter_ of the two sequencers
    spc, current,                \* the locals of the CAS loop
    tickets                     \* the tickets each thread has drawn

sqVars == <<faa_counter, cas_counter, spc, current, tickets>>

Client == FAAThread \union CASThread

SQInit ==
    /\ faa_counter = 0
    /\ cas_counter = 0
    /\ spc = [t \in CASThread |-> "idle"]
    /\ current = [t \in CASThread |-> 0]
    /\ tickets = [t \in Client |-> {}]

MayCall(t) == Cardinality(tickets[t]) < MaxTickets

FetchAdd(t) ==
    /\ MayCall(t)
    /\ faa_counter' = faa_counter + 1
    /\ tickets' = [tickets EXCEPT ![t] = @ \union {faa_counter}]
    /\ UNCHANGED <<cas_counter, spc, current>>

LoadCurrent(t) ==
    /\ spc[t] = "idle"
    /\ MayCall(t)
    /\ spc' = [spc EXCEPT ![t] = "cas"]
    /\ current' = [current EXCEPT ![t] = cas_counter]
    /\ UNCHANGED <<faa_counter, cas_counter, tickets>>

CAS(t) ==
    /\ spc[t] = "cas"
    /\ cas_counter = current[t]
    /\ cas_counter' = current[t] + 1
    /\ tickets' = [tickets EXCEPT ![t] = @ \union {current[t]}]
    /\ spc' = [spc EXCEPT ![t] = "idle"]
    /\ UNCHANGED <<faa_counter, current>>

\* The weak exchange fails, perhaps spuriously, and reloads current.
CASFail(t) ==
    /\ spc[t] = "cas"
    /\ current' = [current EXCEPT ![t] = cas_counter]
    /\ UNCHANGED <<faa_counter, cas_counter, spc, tickets>>

SQTerminated ==
    /\ \A t \in Client : ~MayCall(t)
    /\ UNCHANGED sqVars

SQNext ==
    \/ \E t \in FAAThread : FetchAdd(t)
    \/ \E t \in CASThread : LoadCurrent(t) \/ CAS(t) \/ CASFail(t)
    \/ SQTerminated

SQSpec == SQInit /\ [][SQNext]_sqVars

\* A thread in the loop keeps running, and its exchange does not fail
\* spuriously for ever.
SQFairSpec ==
    /\ SQSpec
    /\ \A t \in CASThread :
          /\ WF_sqVars(CAS(t) \/ CASFail(t))
          /\ SF_sqVars(CAS(t))

-----------------------------------------------------------------------------
(* Properties of the tickets *)

\* No two calls draw the same ticket, and the tickets drawn are exactly those
\* below the counter: none is skipped, whichever of the calls has retried.
TicketsExact ==
    /\ \A t, u \in FAAThread : t # u => tickets[t] \intersect tickets[u] = {}
    /\ \A t, u \in CASThread : t # u => tickets[t] \intersect tickets[u] = {}
    /\ UNION {tickets[t] : t \in FAAThread} = {k \in 0..faa_counter : k < faa_counter}
    /\ UNION {tickets[t] : t \in CASThread} = {k \in 0..cas_counter : k < cas_counter}

\* The CAS sequencer is lock-free: while any thread is in its loop, some
\* thread will draw the next ticket.
LockFree ==
    \A k \in 0..(Cardinality(CASThread) * MaxTickets) :
        (cas_counter = k /\ \E t \in CASThread : spc[t] = "cas") ~> (cas_counter > k)
=============================================================================
