----------------------------- MODULE TreiberStack -----------------------------
(***************************************************************************)
(* TreiberStack of concurrent_queues_and_stacks.cpp on top of its          *)
(* EpochReclaimer.  Memory is explicit: a node is an address that the      *)
(* allocator hands out, that the reclaimer's deleter gives back, and that  *)
(* can be handed out again, so use after free and ABA are states.          *)
(*                                                                         *)
(* Every load, store or compare-exchange of shared memory is an action;    *)
(* compare_exchange_weak may fail spuriously.                              *)
(***************************************************************************)
EXTENDS EpochReclaimer

LOCAL INSTANCE TLC

CONSTANTS
    Value,      \* the payloads
    Empty,      \* std::nullopt
    MaxCalls    \* bound: calls each thread makes

VARIABLES
    head,       \* head_
    next,       \* Node::next of every address
    data,       \* Node::data of every address
    free,       \* the allocator: addresses that are not in use
    pc,         \* where a thread is in push() or pop()
    new_node,   \* push()'s local
    old_head,   \* pop()'s local
    nxt,        \* pop()'s local next
    result,     \* what the thread's last pop() returned
    calls       \* calls made so far

heapVars == <<next, data, free>>
localVars == <<new_node, old_head, nxt, result, calls>>
tsVars == <<head, heapVars, pc, localVars, ebrVars>>

Pointer == Node \union {None}

TSTypeOK ==
    /\ EBRTypeOK
    /\ head \in Pointer
    /\ next \in [Node -> Pointer]
    /\ data \in [Node -> Value]
    /\ free \in SUBSET Node
    /\ pc \in [Thread -> {"idle", "push_cas", "pop_pin", "pop_load", "pop_next",
                          "pop_cas", "pop_take", "pop_retire", "pop_unpin", "advance"}]
    /\ new_node \in [Thread -> Pointer]
    /\ old_head \in [Thread -> Pointer]
    /\ nxt \in [Thread -> Pointer]
    /\ result \in [Thread -> Value \union {Empty}]
    /\ calls \in [Thread -> Nat]

TSInit ==
    /\ EBRInit
    /\ head = None
    /\ next = [n \in Node |-> None]
    /\ data \in [Node -> Value]
    /\ free = Node
    /\ pc = [t \in Thread |-> "idle"]
    /\ new_node = [t \in Thread |-> None]
    /\ old_head = [t \in Thread |-> None]
    /\ nxt = [t \in Thread |-> None]
    /\ result = [t \in Thread |-> Empty]
    /\ calls = [t \in Thread |-> 0]

Call(t, label) ==
    /\ pc[t] = "idle"
    /\ rpc[t] = "out"
    /\ calls[t] < MaxCalls
    /\ calls' = [calls EXCEPT ![t] = @ + 1]
    /\ pc' = [pc EXCEPT ![t] = label]

Goto(t, from, to) == pc[t] = from /\ pc' = [pc EXCEPT ![t] = to]

-----------------------------------------------------------------------------
(* push() *)

\* The allocation, the initialisation and the first load of head_.
PushAlloc(t, v, n) ==
    /\ Call(t, "push_cas")
    /\ n \in free
    /\ free' = free \ {n}
    /\ data' = [data EXCEPT ![n] = v]
    /\ next' = [next EXCEPT ![n] = head]
    /\ new_node' = [new_node EXCEPT ![t] = n]
    /\ UNCHANGED <<head, old_head, nxt, result, ebrVars>>

\* Mutant: head_ is overwritten without comparing it with the new node's next.
PushCASUnchecked(t) ==
    /\ Goto(t, "push_cas", "idle")
    /\ head' = new_node[t]
    /\ UNCHANGED <<heapVars, localVars, ebrVars>>

PushCAS(t) ==
    /\ Goto(t, "push_cas", "idle")
    /\ head = next[new_node[t]]
    /\ head' = new_node[t]
    /\ UNCHANGED <<heapVars, localVars, ebrVars>>

\* The failed exchange stores what it found in new_node->next.
PushRetry(t) ==
    /\ pc[t] = "push_cas"
    /\ next' = [next EXCEPT ![new_node[t]] = head]
    /\ UNCHANGED <<head, data, free, pc, localVars, ebrVars>>

-----------------------------------------------------------------------------
(* pop() *)

PopCall(t) ==
    /\ Call(t, "pop_pin")
    /\ UNCHANGED <<head, heapVars, new_node, old_head, nxt, result, ebrVars>>

\* EpochGuard's constructor: pin().
PopPin(t) ==
    /\ pc[t] = "pop_pin"
    /\ \/ /\ Register(t) \/ PinLoad(t) \/ PinStore(t)
          /\ UNCHANGED pc
       \/ /\ PinActivate(t)
          /\ pc' = [pc EXCEPT ![t] = "pop_load"]
    /\ UNCHANGED <<head, heapVars, localVars>>

\* old_head takes the value of head_: the loop ends if it is nullptr.
TakeHead(t) ==
    /\ old_head' = [old_head EXCEPT ![t] = head]
    /\ IF head = None
         THEN /\ result' = [result EXCEPT ![t] = Empty]
              /\ pc' = [pc EXCEPT ![t] = "pop_unpin"]
         ELSE /\ pc' = [pc EXCEPT ![t] = "pop_next"]
              /\ UNCHANGED result
    /\ UNCHANGED <<head, heapVars, new_node, nxt, calls, ebrVars>>

PopLoad(t) ==
    /\ pc[t] = "pop_load"
    /\ TakeHead(t)

PopNext(t) ==
    /\ Goto(t, "pop_next", "pop_cas")
    /\ nxt' = [nxt EXCEPT ![t] = next[old_head[t]]]
    /\ UNCHANGED <<head, heapVars, new_node, old_head, result, calls, ebrVars>>

\* Mutant: head_ is overwritten without comparing it with old_head.
PopCASUnchecked(t) ==
    /\ Goto(t, "pop_cas", "pop_take")
    /\ head' = nxt[t]
    /\ UNCHANGED <<heapVars, localVars, ebrVars>>

PopCAS(t) ==
    /\ Goto(t, "pop_cas", "pop_take")
    /\ head = old_head[t]
    /\ head' = nxt[t]
    /\ UNCHANGED <<heapVars, localVars, ebrVars>>

PopRetry(t) ==
    /\ pc[t] = "pop_cas"
    /\ TakeHead(t)

PopTake(t) ==
    /\ Goto(t, "pop_take", "pop_retire")
    /\ result' = [result EXCEPT ![t] = data[old_head[t]]]
    /\ UNCHANGED <<head, heapVars, new_node, old_head, nxt, calls, ebrVars>>

\* Mutant: the node is deleted at once.
PopRetireDeletes(t) ==
    /\ Goto(t, "pop_retire", "pop_unpin")
    /\ free' = free \union {old_head[t]}
    /\ UNCHANGED <<head, next, data, localVars, ebrVars>>

PopRetire(t) ==
    /\ Goto(t, "pop_retire", "pop_unpin")
    /\ RetireEnter(t, old_head[t])
    /\ UNCHANGED <<head, heapVars, localVars>>

\* EpochGuard's destructor, once retire() is over.
PopUnpin(t) ==
    /\ Goto(t, "pop_unpin", "idle")
    /\ Unpin(t)
    /\ UNCHANGED <<head, heapVars, localVars>>

-----------------------------------------------------------------------------
(* The reclaimer's own steps, in whatever call the thread is *)

AdvanceCall(t) ==
    /\ Call(t, "advance")
    /\ TryAdvance(t)
    /\ UNCHANGED <<head, heapVars, new_node, old_head, nxt, result>>

AdvanceReturn(t) ==
    /\ Goto(t, "advance", "idle")
    /\ rpc[t] = "out"
    /\ UNCHANGED <<head, heapVars, localVars, ebrVars>>

Reclaim(t) ==
    /\ RetirePush(t) \/ ScanStep(t)
    /\ UNCHANGED <<head, heapVars, pc, localVars>>

\* The deleter gives the address back to the allocator.
Delete(t) ==
    /\ \E n \in Node : FreeOne(t, n) /\ free' = free \union {n}
    /\ UNCHANGED <<head, next, data, pc, localVars>>

AllReturned == \A t \in Thread : pc[t] = "idle" /\ calls[t] = MaxCalls

\* drain_all() after the threads were joined.
Drain(t) ==
    /\ AllReturned
    /\ DrainAll(t)
    /\ UNCHANGED <<head, heapVars, pc, localVars>>

Terminated ==
    /\ AllReturned
    /\ InReclaimer = {}
    /\ UNCHANGED tsVars

PushStep(t) ==
    \/ \E v \in Value, n \in Node : PushAlloc(t, v, n)
    \/ PushCAS(t)
    \/ PushRetry(t)

PopStep(t) ==
    \/ PopCall(t) \/ PopPin(t) \/ PopLoad(t) \/ PopNext(t)
    \/ PopCAS(t) \/ PopRetry(t) \/ PopTake(t) \/ PopRetire(t) \/ PopUnpin(t)

ReclaimStep(t) ==
    AdvanceCall(t) \/ AdvanceReturn(t) \/ Reclaim(t) \/ Delete(t) \/ Drain(t)

TSNext == (\E t \in Thread : PushStep(t) \/ PopStep(t) \/ ReclaimStep(t)) \/ Terminated

TSSpec == TSInit /\ [][TSNext]_tsVars

\* A thread that is in a call keeps taking steps, and the weak exchange of
\* pop() does not fail spuriously for ever.
TSFairness ==
    \A t \in Thread :
        /\ WF_tsVars(PopStep(t) /\ pc[t] # "idle")
        /\ WF_tsVars(PushStep(t) /\ pc[t] # "idle")
        /\ WF_tsVars(AdvanceReturn(t) \/ Reclaim(t) \/ Delete(t) \/ Drain(t))
        /\ SF_tsVars(PopCAS(t))

TSFairSpec == TSSpec /\ TSFairness

-----------------------------------------------------------------------------
(* Properties *)

\* A node that pop() is about to read, or whose address it is about to
\* compare with head_, has not been deleted meanwhile: what pinning the
\* epoch in pop() is for.
NoUseAfterFree ==
    \A t \in Thread :
        pc[t] \in {"pop_next", "pop_cas", "pop_take"} => old_head[t] \notin free

\* When pop()'s exchange succeeds, the successor it read earlier is still the
\* successor of the node it removes (there is no ABA).
NoABA ==
    \A t \in Thread :
        (pc[t] = "pop_cas" /\ head = old_head[t]) => nxt[t] = next[head]

\* The nodes from head_ down, top first.
Chain == NodesFrom(head, next)

Linked == NodesOf(Chain)

\* Unlinked by a pop() that has not called retire() yet, or in a push() that
\* has not linked it yet.
InHand(t) ==
    CASE pc[t] = "push_cas" -> {new_node[t]}
      [] pc[t] \in {"pop_take", "pop_retire"} -> {old_head[t]}
      [] OTHER -> {}

\* Every address is in exactly one place - the allocator, the stack, one
\* thread's hands, the reclaimer - and the stack has no cycle: nothing leaks
\* and nothing has two owners.
OneOwner ==
    LET handed == {t \in Thread : InHand(t) # {}}
    IN  /\ free \union Linked \union InReclaimer
              \union UNION {InHand(t) : t \in handed} = Node
        /\ Cardinality(free) + Len(Chain) + Cardinality(InReclaimer)
              + Cardinality(handed) = Cardinality(Node)

\* Stack and locals keep their types, and every address has its one owner.
TSConsistent == TSTypeOK /\ OneOwner

\* The stack is linearizable: push() acts when its exchange succeeds, pop()
\* when its exchange succeeds or when it finds head_ null, and the value
\* read after the exchange is the one that was on top at the exchange.
Abs == INSTANCE AbstractStack
         WITH stack <- Values(Chain, data),
              ret <- [t \in Thread |-> IF pc[t] = "pop_take"
                                         THEN data[old_head[t]] ELSE result[t]]

Linearizable == Abs!ASSpec

\* Every call returns although the other threads interfere: an exchange fails
\* only because another call made progress.
CallsReturn == \A t \in Thread : (pc[t] # "idle") ~> (pc[t] = "idle")

\* If the threads stop calling, the last drain_all() leaves every address in
\* the stack or with the allocator: allocated equals reclaimed plus linked.
AllReclaimed == AllReturned ~> (AllReturned /\ free \union Linked = Node)
-----------------------------------------------------------------------------
\* Threads are interchangeable, except those with a stale slot, and so are the
\* addresses.
Symmetry == Permutations(Thread \ Stale) \union Permutations(Node)
=============================================================================
