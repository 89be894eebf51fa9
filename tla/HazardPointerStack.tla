-------------------------- MODULE HazardPointerStack --------------------------
(***************************************************************************)
(* HazardPointerStack of hazard_pointers_and_epoch_reclamation.cpp on top  *)
(* of HazardPointers, with the same explicit memory as TreiberStack.       *)
(***************************************************************************)
EXTENDS HazardPointers

CONSTANTS
    Value,      \* the payloads
    Empty,      \* std::nullopt
    MaxCalls    \* bound: calls each thread makes

ASSUME MaxCallsNat == MaxCalls \in Nat

VARIABLES
    head,       \* head_
    next,       \* Node::next of every address
    data,       \* Node::data of every address
    free,       \* the allocator: addresses not in use
    pc,         \* where a thread is in push() or pop()
    new_node,   \* push()'s local
    old_head,   \* pop()'s local
    nxt,        \* pop()'s local next
    result,     \* what the thread's last pop() returned
    calls       \* calls made so far

heapVars == <<next, data, free>>
localVars == <<new_node, old_head, nxt, result, calls>>
hsVars == <<head, heapVars, pc, localVars, hpVars>>

HSTypeOK ==
    /\ HPTypeOK
    /\ head \in Pointer
    /\ next \in [Node -> Pointer]
    /\ data \in [Node -> Value]
    /\ free \in SUBSET Node
    /\ pc \in [Thread -> {"idle", "push_cas", "pop_load", "pop_publish", "pop_validate",
                          "pop_next", "pop_cas", "pop_cleared", "pop_take",
                          "pop_retire", "return", "release"}]
    /\ new_node \in [Thread -> Pointer]
    /\ old_head \in [Thread -> Pointer]
    /\ nxt \in [Thread -> Pointer]
    /\ result \in [Thread -> Value \union {Empty}]
    /\ calls \in [Thread -> 0..MaxCalls]

StackInit ==
    /\ head = None
    /\ next = [n \in Node |-> None]
    /\ data \in [Node -> Value]
    /\ free = Node
    /\ pc = [t \in Thread |-> "idle"]
    /\ new_node = [t \in Thread |-> None]
    /\ old_head = [t \in Thread |-> None]
    /\ nxt = [t \in Thread |-> None]
    /\ result = [t \in Thread |-> Empty]
    /\ calls = [t \in Thread |-> 0]

HSInit == HPInit /\ StackInit

Call(t, label) ==
    /\ pc[t] = "idle"
    /\ calls[t] < MaxCalls
    /\ calls' = [calls EXCEPT ![t] = @ + 1]
    /\ pc' = [pc EXCEPT ![t] = label]

Goto(t, from, to) == pc[t] = from /\ pc' = [pc EXCEPT ![t] = to]

-----------------------------------------------------------------------------
(* push() *)

PushAlloc(t, v, n) ==
    /\ Call(t, "push_cas")
    /\ n \in free
    /\ free' = free \ {n}
    /\ data' = [data EXCEPT ![n] = v]
    /\ next' = [next EXCEPT ![n] = head]
    /\ new_node' = [new_node EXCEPT ![t] = n]
    /\ UNCHANGED <<head, old_head, nxt, result, hpVars>>

\* Mutant: head_ is overwritten without comparing it with the new node's next.
PushCASUnchecked(t) ==
    /\ Goto(t, "push_cas", "idle")
    /\ head' = new_node[t]
    /\ UNCHANGED <<heapVars, localVars, hpVars>>

PushCAS(t) ==
    /\ Goto(t, "push_cas", "idle")
    /\ head = next[new_node[t]]
    /\ head' = new_node[t]
    /\ UNCHANGED <<heapVars, localVars, hpVars>>

PushRetry(t) ==
    /\ pc[t] = "push_cas"
    /\ next' = [next EXCEPT ![new_node[t]] = head]
    /\ UNCHANGED <<head, data, free, pc, localVars, hpVars>>

-----------------------------------------------------------------------------
(* pop() *)

PopCall(t) ==
    /\ Call(t, "pop_load")
    /\ UNCHANGED <<head, heapVars, new_node, old_head, nxt, result, hpVars>>

PopLoad(t) ==
    /\ old_head' = [old_head EXCEPT ![t] = head]
    /\ IF head = None
         THEN /\ Goto(t, "pop_load", "idle")
              /\ result' = [result EXCEPT ![t] = Empty]
         ELSE /\ Goto(t, "pop_load", "pop_publish")
              /\ UNCHANGED result
    /\ UNCHANGED <<head, heapVars, new_node, nxt, calls, hpVars>>

\* publish() gets the thread an id first if it has none.
PopPublish(t) ==
    /\ pc[t] = "pop_publish"
    /\ \/ /\ AcquireEnter(t) \/ AcquireTry(t)
          /\ UNCHANGED pc
       \/ /\ Publish(t, old_head[t])
          /\ pc' = [pc EXCEPT ![t] = "pop_validate"]
    /\ UNCHANGED <<head, heapVars, localVars>>

\* Mutant: head_ is not read again once the hazard pointer is published.
PopValidateNever(t) ==
    /\ Goto(t, "pop_validate", "pop_next")
    /\ UNCHANGED <<head, heapVars, localVars, hpVars>>

PopValidate(t) ==
    /\ head = old_head[t]
    /\ Goto(t, "pop_validate", "pop_next")
    /\ UNCHANGED <<head, heapVars, localVars, hpVars>>

\* The head moved before the hazard pointer was visible: clear it and retry.
PopInvalid(t) ==
    /\ head # old_head[t]
    /\ Goto(t, "pop_validate", "pop_cleared")
    /\ UNCHANGED <<head, heapVars, localVars, hpVars>>

PopNext(t) ==
    /\ Goto(t, "pop_next", "pop_cas")
    /\ nxt' = [nxt EXCEPT ![t] = next[old_head[t]]]
    /\ UNCHANGED <<head, heapVars, new_node, old_head, result, calls, hpVars>>

\* Mutant: head_ is overwritten without comparing it with old_head.
PopCASUnchecked(t) ==
    /\ Goto(t, "pop_cas", "pop_take")
    /\ head' = nxt[t]
    /\ UNCHANGED <<heapVars, localVars, hpVars>>

PopCAS(t) ==
    /\ Goto(t, "pop_cas", "pop_take")
    /\ head = old_head[t]
    /\ head' = nxt[t]
    /\ UNCHANGED <<heapVars, localVars, hpVars>>

\* The exchange failed, perhaps spuriously.
PopFail(t) ==
    /\ Goto(t, "pop_cas", "pop_cleared")
    /\ old_head' = [old_head EXCEPT ![t] = head]
    /\ UNCHANGED <<head, heapVars, new_node, nxt, result, calls, hpVars>>

PopRetry(t) ==
    /\ Goto(t, "pop_cleared", "pop_load")
    /\ Clear(t)
    /\ UNCHANGED <<head, heapVars, localVars>>

\* After the exchange: the slot is cleared before the payload is read.
PopTake(t) ==
    /\ Goto(t, "pop_take", "pop_retire")
    /\ Clear(t)
    /\ UNCHANGED <<head, heapVars, localVars>>

PopRetire(t) ==
    /\ Goto(t, "pop_retire", "return")
    /\ result' = [result EXCEPT ![t] = data[old_head[t]]]
    /\ Retire(t, old_head[t])
    /\ UNCHANGED <<head, heapVars, new_node, old_head, nxt, calls>>

-----------------------------------------------------------------------------
(* The domain's own steps *)

\* scan_and_reclaim(), up to the deletions.
Scan(t) ==
    /\ ScanUse(t) \/ ScanSlot(t) \/ SweepEnd(t)
    /\ UNCHANGED <<head, heapVars, pc, localVars>>

Delete(t) ==
    /\ \E n \in Node : Sweep(t, n) /\ free' = free \union {n}
    /\ UNCHANGED <<head, next, data, pc, localVars>>

\* A thread gives its record back between calls.
ReleaseCall(t) ==
    /\ Call(t, "release")
    /\ ReleaseEnter(t)
    /\ UNCHANGED <<head, heapVars, new_node, old_head, nxt, result>>

Release(t) ==
    /\ ReleaseSlots(t) \/ ReleaseId(t)
    /\ UNCHANGED <<head, heapVars, pc, localVars>>

Return(t) ==
    /\ hpc[t] = "out"
    /\ \/ Goto(t, "return", "idle")
       \/ Goto(t, "release", "idle") /\ ~releasing[t]
    /\ UNCHANGED <<head, heapVars, localVars, hpVars>>

AllReturned == \A t \in Thread : pc[t] = "idle" /\ calls[t] = MaxCalls

Terminated == AllReturned /\ UNCHANGED hsVars

PushStep(t) ==
    \/ \E v \in Value, n \in Node : PushAlloc(t, v, n)
    \/ PushCAS(t)
    \/ PushRetry(t)

PopStep(t) ==
    \/ PopCall(t) \/ PopLoad(t) \/ PopPublish(t) \/ PopValidate(t) \/ PopInvalid(t)
    \/ PopNext(t) \/ PopCAS(t) \/ PopFail(t) \/ PopRetry(t) \/ PopTake(t) \/ PopRetire(t)

DomainStep(t) == Scan(t) \/ Delete(t) \/ ReleaseCall(t) \/ Release(t) \/ Return(t)

HSNext == (\E t \in Thread : PushStep(t) \/ PopStep(t) \/ DomainStep(t)) \/ Terminated

HSSpec == HSInit /\ [][HSNext]_hsVars

-----------------------------------------------------------------------------
(* Properties *)

\* From the validation of its hazard pointer to the exchange, pop() holds a
\* node that has not been deleted; afterwards it owns it.
NoUseAfterFree ==
    \A t \in Thread :
        pc[t] \in {"pop_next", "pop_cas", "pop_take", "pop_retire"}
            => old_head[t] \notin free

\* pop()'s exchange cannot install a stale successor.
NoABA ==
    \A t \in Thread :
        (pc[t] = "pop_cas" /\ head = old_head[t]) => nxt[t] = next[head]

\* The nodes from head_ down, top first.
Chain == NodesFrom(head, next)

Linked == NodesOf(Chain)

InHand(t) ==
    CASE pc[t] = "push_cas" -> {new_node[t]}
      [] pc[t] \in {"pop_take", "pop_retire"} -> {old_head[t]}
      [] OTHER -> {}

\* Every address is with the allocator, in the stack, in one thread's hands
\* or in one thread's retired list, and in no two of them.
OneOwner ==
    LET handed == {t \in Thread : InHand(t) # {}}
        lists == UNION {{<<t, n>> : n \in retired[t]} : t \in Thread}
    IN  /\ free \union Linked \union {p[2] : p \in lists}
              \union UNION {InHand(t) : t \in handed} = Node
        /\ Cardinality(free) + Len(Chain) + Cardinality(lists) + Cardinality(handed)
              = Cardinality(Node)

\* Stack and locals keep their types, every address has its one owner, and an
\* exchange of pop() that will succeed installs the right successor.
HSConsistent == HSTypeOK /\ OneOwner /\ NoABA

\* The stack is linearizable, and the payload read after the hazard pointer
\* is cleared is still the one that was popped.
Abs == INSTANCE AbstractStack
         WITH stack <- Values(Chain, data),
              ret <- [t \in Thread |-> IF pc[t] \in {"pop_take", "pop_retire"}
                                         THEN data[old_head[t]] ELSE result[t]]

Linearizable == Abs!ASSpec

\* When every thread has given its record back, no retired node is left in a
\* list that only an exiting thread could have emptied.
NothingLeaks ==
    (\A t \in Thread : tid[t] = NoId /\ hpc[t] = "out" /\ pc[t] = "idle")
        => \A t \in Thread : retired[t] = {}
=============================================================================
