------------------------------ MODULE TaggedStack ------------------------------
(***************************************************************************)
(* TaggedStack of aba_problem.cpp: the head is one word holding a pointer  *)
(* and a version tag that every successful exchange increments.  There is  *)
(* no safe memory reclamation: pop() deletes the node it unlinks at once,  *)
(* so another pop() may read the successor of a node that is already with  *)
(* the allocator; such a read returns any pointer.                         *)
(***************************************************************************)
EXTENDS LinkedNodes

CONSTANTS
    Value,
    Empty,        \* std::nullopt
    TagModulus,   \* number of tags: 2^16 in the code
    MaxCalls      \* bound: calls each thread makes

ASSUME TagModulusPositive == TagModulus \in Nat \ {0}
ASSUME MaxCallsNat == MaxCalls \in Nat

VARIABLES
    head,       \* head_tagged_: the pointer and the tag
    next,       \* Node::next of every address
    data,       \* Node::data of every address
    free,       \* the allocator: addresses not in use
    tpc,         \* where a thread is in push() or pop()
    new_node,   \* push()'s local
    cur,        \* the local cur, unpacked from cur_raw
    nxt,        \* pop()'s local next
    result,     \* what the thread's last pop() returned
    calls,      \* calls made so far
    exchanges   \* history: successful exchanges, the tag without its modulus

heapVars == <<next, data, free>>
tgLocals == <<new_node, cur, nxt, result, calls>>
tgVars == <<head, heapVars, tpc, tgLocals, exchanges>>

Pointer == Node \union {None}
Tag == 0..(TagModulus - 1)
Packed == [ptr : Pointer, tag : Tag]

TGTypeOK ==
    /\ head \in Packed
    /\ next \in [Node -> Pointer]
    /\ data \in [Node -> Value]
    /\ free \in SUBSET Node
    /\ tpc \in [Thread -> {"idle", "push_cas", "pop_next", "pop_cas", "pop_take", "pop_delete"}]
    /\ new_node \in [Thread -> Pointer]
    /\ cur \in [Thread -> Packed]
    /\ nxt \in [Thread -> Pointer]
    /\ result \in [Thread -> Value \union {Empty}]
    /\ calls \in [Thread -> 0..MaxCalls]
    /\ exchanges \in Nat

Nil == [ptr |-> None, tag |-> 0]

TGInit ==
    /\ head = Nil
    /\ next = [n \in Node |-> None]
    /\ data \in [Node -> Value]
    /\ free = Node
    /\ tpc = [t \in Thread |-> "idle"]
    /\ new_node = [t \in Thread |-> None]
    /\ cur = [t \in Thread |-> Nil]
    /\ nxt = [t \in Thread |-> None]
    /\ result = [t \in Thread |-> Empty]
    /\ calls = [t \in Thread |-> 0]
    /\ exchanges = 0

\* Mutant: the tag is carried over unchanged.
DesiredSameTag(p, c) == [ptr |-> p, tag |-> c.tag]

\* The word that replaces c: uint16_t arithmetic on the tag.
Desired(p, c) == [ptr |-> p, tag |-> (c.tag + 1) % TagModulus]

Call(t) ==
    /\ tpc[t] = "idle"
    /\ calls[t] < MaxCalls
    /\ calls' = [calls EXCEPT ![t] = @ + 1]

TGGoto(t, label) == tpc' = [tpc EXCEPT ![t] = label]

Exchange(t, p) ==
    /\ head = cur[t]
    /\ head' = Desired(p, cur[t])
    /\ exchanges' = exchanges + 1

-----------------------------------------------------------------------------
(* push() *)

PushAlloc(t, v, n) ==
    /\ Call(t)
    /\ n \in free
    /\ free' = free \ {n}
    /\ data' = [data EXCEPT ![n] = v]
    /\ next' = [next EXCEPT ![n] = head.ptr]
    /\ new_node' = [new_node EXCEPT ![t] = n]
    /\ cur' = [cur EXCEPT ![t] = head]
    /\ TGGoto(t, "push_cas")
    /\ UNCHANGED <<head, nxt, result, exchanges>>

PushCAS(t) ==
    /\ tpc[t] = "push_cas"
    /\ Exchange(t, new_node[t])
    /\ TGGoto(t, "idle")
    /\ UNCHANGED <<heapVars, tgLocals>>

\* The failed exchange reloads cur_raw, and next is set again.
PushRetry(t) ==
    /\ tpc[t] = "push_cas"
    /\ cur' = [cur EXCEPT ![t] = head]
    /\ next' = [next EXCEPT ![new_node[t]] = head.ptr]
    /\ UNCHANGED <<head, data, free, tpc, new_node, nxt, result, calls, exchanges>>

-----------------------------------------------------------------------------
(* pop() *)

TakeHead(t) ==
    /\ cur' = [cur EXCEPT ![t] = head]
    /\ IF head.ptr = None
         THEN result' = [result EXCEPT ![t] = Empty] /\ TGGoto(t, "idle")
         ELSE TGGoto(t, "pop_next") /\ UNCHANGED result
    /\ UNCHANGED <<head, heapVars, new_node, nxt, exchanges>>

PopCall(t) == Call(t) /\ TakeHead(t)

\* A node that was deleted meanwhile holds anything.
PopNext(t) ==
    /\ tpc[t] = "pop_next"
    /\ \E p \in IF cur[t].ptr \in free THEN Pointer ELSE {next[cur[t].ptr]} :
          nxt' = [nxt EXCEPT ![t] = p]
    /\ TGGoto(t, "pop_cas")
    /\ UNCHANGED <<head, heapVars, new_node, cur, result, calls, exchanges>>

PopCAS(t) ==
    /\ tpc[t] = "pop_cas"
    /\ Exchange(t, nxt[t])
    /\ TGGoto(t, "pop_take")
    /\ UNCHANGED <<heapVars, tgLocals>>

PopRetry(t) ==
    /\ tpc[t] = "pop_cas"
    /\ TakeHead(t)
    /\ UNCHANGED calls

PopTake(t) ==
    /\ tpc[t] = "pop_take"
    /\ result' = [result EXCEPT ![t] = data[cur[t].ptr]]
    /\ TGGoto(t, "pop_delete")
    /\ UNCHANGED <<head, heapVars, new_node, cur, nxt, calls, exchanges>>

PopDelete(t) ==
    /\ tpc[t] = "pop_delete"
    /\ free' = free \union {cur[t].ptr}
    /\ TGGoto(t, "idle")
    /\ UNCHANGED <<head, next, data, tgLocals, exchanges>>

Terminated ==
    /\ \A t \in Thread : tpc[t] = "idle" /\ calls[t] = MaxCalls
    /\ UNCHANGED tgVars

TGStep(t) ==
    \/ \E v \in Value, n \in Node : PushAlloc(t, v, n)
    \/ PushCAS(t) \/ PushRetry(t)
    \/ PopCall(t) \/ PopNext(t) \/ PopCAS(t) \/ PopRetry(t) \/ PopTake(t) \/ PopDelete(t)

TGNext == (\E t \in Thread : TGStep(t)) \/ Terminated

TGSpec == TGInit /\ [][TGNext]_tgVars

-----------------------------------------------------------------------------
(* Properties *)

\* While the tags have not wrapped around, an exchange that is going to succeed
\* in pop() installs the successor of the node it removes, although that node
\* may have been deleted, allocated and pushed again meanwhile.
NoABA ==
    \A t \in Thread :
        (exchanges < TagModulus /\ tpc[t] = "pop_cas" /\ head = cur[t])
            => nxt[t] = next[head.ptr]

\* pop() reads next and data of nodes that have not been deleted.
NoUseAfterFree ==
    \A t \in Thread :
        tpc[t] \in {"pop_next", "pop_take"} => cur[t].ptr \notin free

\* The nodes from the head down, top first.
Chain == NodesFrom(head.ptr, next)

Linked == NodesOf(Chain)

InHand(t) ==
    CASE tpc[t] = "push_cas" -> {new_node[t]}
      [] tpc[t] \in {"pop_take", "pop_delete"} -> {cur[t].ptr}
      [] OTHER -> {}

\* Every address is with the allocator, in the stack or in one thread's hands,
\* and in no two of them: no node is lost and none is deleted twice.
OneOwner ==
    LET handed == {t \in Thread : InHand(t) # {}}
    IN  /\ free \union Linked \union UNION {InHand(t) : t \in handed} = Node
        /\ Cardinality(free) + Len(Chain) + Cardinality(handed) = Cardinality(Node)

\* The stack is linearizable although its pops may read deleted nodes.
TGAbs == INSTANCE AbstractStack
         WITH stack <- Values(Chain, data),
              ret <- [t \in Thread |-> IF tpc[t] = "pop_take"
                                         THEN data[cur[t].ptr] ELSE result[t]]

TaggedLinearizable == TGAbs!ASSpec
=============================================================================
