-------------------------- MODULE MichaelScottQueue --------------------------
(***************************************************************************)
(* MichaelScottQueue of concurrent_queues_and_stacks.cpp.  Its reclaimer   *)
(* is the abstract one, GracePeriod, which EpochReclaimer is proved to     *)
(* implement: retired nodes come back to the allocator at any moment after *)
(* the threads pinned at their retirement have left.  The second half of   *)
(* the module proves, for any number of threads, addresses, values and     *)
(* calls, that the reclaimer keeps every access safe and that the queue is *)
(* linearizable.                                                           *)
(***************************************************************************)
EXTENDS GracePeriod, Sequences, Integers, SequenceTheorems, TLAPS

CONSTANTS
    None,       \* nullptr
    Value,      \* the payloads
    Empty,      \* std::nullopt
    MaxCalls    \* bound: calls each thread makes

ASSUME NoneIsNoAddress == None \notin Node
\* The constructor finds an address for the sentinel; memory is finite.
ASSUME SomeNode == Node # {}
ASSUME FiniteMemory == IsFiniteSet(Node)
ASSUME MaxCallsNat == MaxCalls \in Nat

\* The lists of addresses, with the lemmas about them.
INSTANCE LinkedNodes

VARIABLES
    head,       \* head_, the sentinel
    tail,       \* tail_
    next,       \* Node::next of every address
    data,       \* Node::data of every address, Empty in the first sentinel
    free,       \* the allocator: addresses not in use
    pc,         \* where a thread is in enqueue() or dequeue()
    new_node,   \* enqueue()'s local
    cur_head,   \* dequeue()'s local
    cur_tail,   \* the local of both
    nxt,        \* the local next of both
    value,      \* dequeue()'s local result
    result,     \* what the thread's last dequeue() returned
    calls,      \* calls made so far
    sawEmpty    \* history: dequeue() calls that overlap an empty queue

listVars == <<head, tail, next, data, free>>
localVars == <<new_node, cur_head, cur_tail, nxt, value, result>>
codeVars == <<listVars, localVars, pc, calls, gpVars>>
msVars == <<codeVars, sawEmpty>>

Pointer == Node \union {None}

DequeueLabels == {"deq_head", "deq_tail", "deq_next", "deq_check",
                  "deq_help", "deq_read", "deq_cas"}

MSTypeOK ==
    /\ GPTypeOK
    /\ head \in Node
    /\ tail \in Node
    /\ next \in [Node -> Pointer]
    /\ data \in [Node -> Value \union {Empty}]
    /\ free \in SUBSET Node
    /\ pc \in [Thread -> {"idle", "enq_pin", "enq_tail", "enq_next", "enq_check",
                          "enq_link", "enq_swing", "enq_help", "deq_pin",
                          "deq_retire", "unpin"} \union DequeueLabels]
    /\ new_node \in [Thread -> Pointer]
    /\ cur_head \in [Thread -> Pointer]
    /\ cur_tail \in [Thread -> Pointer]
    /\ nxt \in [Thread -> Pointer]
    /\ value \in [Thread -> Value \union {Empty}]
    /\ result \in [Thread -> Value \union {Empty}]
    /\ calls \in [Thread -> 0..MaxCalls]
    /\ sawEmpty \in SUBSET Thread

\* The constructor allocates the sentinel.
MSInit ==
    /\ GPInit
    /\ head = CHOOSE n \in Node : TRUE
    /\ tail = head
    /\ next = [n \in Node |-> None]
    /\ data = [n \in Node |-> Empty]
    /\ free = Node \ {head}
    /\ pc = [t \in Thread |-> "idle"]
    /\ new_node = [t \in Thread |-> None]
    /\ cur_head = [t \in Thread |-> None]
    /\ cur_tail = [t \in Thread |-> None]
    /\ nxt = [t \in Thread |-> None]
    /\ value = [t \in Thread |-> Empty]
    /\ result = [t \in Thread |-> Empty]
    /\ calls = [t \in Thread |-> 0]
    /\ sawEmpty = {}

Call(t, label) ==
    /\ pc[t] = "idle"
    /\ calls[t] < MaxCalls
    /\ calls' = [calls EXCEPT ![t] = @ + 1]
    /\ pc' = [pc EXCEPT ![t] = label]

Goto(t, from, to) == pc[t] = from /\ pc' = [pc EXCEPT ![t] = to] /\ UNCHANGED calls

\* EpochGuard's constructor and destructor.
Pin(t, from, to) ==
    /\ Goto(t, from, to)
    /\ GPPin(t)
    /\ UNCHANGED <<listVars, localVars>>

Unpin(t) ==
    /\ Goto(t, "unpin", "idle")
    /\ GPUnpin(t)
    /\ UNCHANGED <<listVars, localVars>>

-----------------------------------------------------------------------------
(* enqueue() *)

EnqAlloc(t, v, n) ==
    /\ Call(t, "enq_pin")
    /\ n \in free
    /\ free' = free \ {n}
    /\ data' = [data EXCEPT ![n] = v]
    /\ next' = [next EXCEPT ![n] = None]
    /\ new_node' = [new_node EXCEPT ![t] = n]
    /\ UNCHANGED <<head, tail, cur_head, cur_tail, nxt, value, result, gpVars>>

EnqTail(t) ==
    /\ Goto(t, "enq_tail", "enq_next")
    /\ cur_tail' = [cur_tail EXCEPT ![t] = tail]
    /\ UNCHANGED <<listVars, new_node, cur_head, nxt, value, result, gpVars>>

EnqNext(t) ==
    /\ Goto(t, "enq_next", "enq_check")
    /\ nxt' = [nxt EXCEPT ![t] = next[cur_tail[t]]]
    /\ UNCHANGED <<listVars, new_node, cur_head, cur_tail, value, result, gpVars>>

\* Mutant: the two cases of a current tail are exchanged.
EnqCheckSwapped(t) ==
    /\ \/ cur_tail[t] # tail /\ Goto(t, "enq_check", "enq_tail")
       \/ cur_tail[t] = tail /\ nxt[t] # None /\ Goto(t, "enq_check", "enq_link")
       \/ cur_tail[t] = tail /\ nxt[t] = None /\ Goto(t, "enq_check", "enq_help")
    /\ UNCHANGED <<listVars, localVars, gpVars>>

\* The check that tail_ has not moved, and the choice it leads to.
EnqCheck(t) ==
    /\ \/ cur_tail[t] # tail /\ Goto(t, "enq_check", "enq_tail")
       \/ cur_tail[t] = tail /\ nxt[t] = None /\ Goto(t, "enq_check", "enq_link")
       \/ cur_tail[t] = tail /\ nxt[t] # None /\ Goto(t, "enq_check", "enq_help")
    /\ UNCHANGED <<listVars, localVars, gpVars>>

EnqLink(t) ==
    /\ Goto(t, "enq_link", "enq_swing")
    /\ next[cur_tail[t]] = None
    /\ next' = [next EXCEPT ![cur_tail[t]] = new_node[t]]
    /\ UNCHANGED <<head, tail, data, free, localVars, gpVars>>

\* The exchange of next fails, perhaps spuriously.
EnqLinkFail(t) ==
    /\ Goto(t, "enq_link", "enq_tail")
    /\ UNCHANGED <<listVars, localVars, gpVars>>

\* Mutant: the exchange compares tail_ with the new node.
SwingTailNever(t, new) ==
    /\ tail' = IF tail = new THEN new ELSE tail
    /\ UNCHANGED <<head, next, data, free, localVars, gpVars>>

SwingTail(t, new) ==
    /\ tail' = IF tail = cur_tail[t] THEN new ELSE tail
    /\ UNCHANGED <<head, next, data, free, localVars, gpVars>>

EnqSwing(t) == Goto(t, "enq_swing", "unpin") /\ SwingTail(t, new_node[t])

EnqHelp(t) == Goto(t, "enq_help", "enq_tail") /\ SwingTail(t, nxt[t])

-----------------------------------------------------------------------------
(* dequeue() *)

DeqCall(t) ==
    /\ Call(t, "deq_pin")
    /\ UNCHANGED <<listVars, localVars, gpVars>>

DeqHead(t) ==
    /\ Goto(t, "deq_head", "deq_tail")
    /\ cur_head' = [cur_head EXCEPT ![t] = head]
    /\ UNCHANGED <<listVars, new_node, cur_tail, nxt, value, result, gpVars>>

DeqTail(t) ==
    /\ Goto(t, "deq_tail", "deq_next")
    /\ cur_tail' = [cur_tail EXCEPT ![t] = tail]
    /\ UNCHANGED <<listVars, new_node, cur_head, nxt, value, result, gpVars>>

DeqNext(t) ==
    /\ Goto(t, "deq_next", "deq_check")
    /\ nxt' = [nxt EXCEPT ![t] = next[cur_head[t]]]
    /\ UNCHANGED <<listVars, new_node, cur_head, cur_tail, value, result, gpVars>>

\* Mutant: dequeue() overtakes a lagging tail_ instead of helping it.
DeqCheckNoHelp(t) ==
    /\ \/ /\ cur_head[t] # head
          /\ Goto(t, "deq_check", "deq_head")
       \/ /\ cur_head[t] = head /\ nxt[t] # None
          /\ Goto(t, "deq_check", "deq_read")
    /\ UNCHANGED <<listVars, localVars, gpVars>>

\* The check that head_ has not moved, and the four ways on from it.
DeqCheck(t) ==
    /\ \/ /\ cur_head[t] # head
          /\ Goto(t, "deq_check", "deq_head")
       \/ /\ cur_head[t] = head /\ cur_head[t] # cur_tail[t]
          /\ Goto(t, "deq_check", IF nxt[t] = None THEN "deq_head" ELSE "deq_read")
       \/ /\ cur_head[t] = head /\ cur_head[t] = cur_tail[t] /\ nxt[t] # None
          /\ Goto(t, "deq_check", "deq_help")
    /\ UNCHANGED <<listVars, localVars, gpVars>>

DeqEmpty(t) ==
    /\ cur_head[t] = head /\ cur_head[t] = cur_tail[t] /\ nxt[t] = None
    /\ Goto(t, "deq_check", "unpin")
    /\ result' = [result EXCEPT ![t] = Empty]
    /\ UNCHANGED <<listVars, new_node, cur_head, cur_tail, nxt, value, gpVars>>

DeqHelp(t) == Goto(t, "deq_help", "deq_head") /\ SwingTail(t, nxt[t])

DeqRead(t) ==
    /\ Goto(t, "deq_read", "deq_cas")
    /\ value' = [value EXCEPT ![t] = data[nxt[t]]]
    /\ UNCHANGED <<listVars, new_node, cur_head, cur_tail, nxt, result, gpVars>>

\* Mutant: head_ moves whatever it is by now.
DeqCASUnchecked(t) ==
    /\ Goto(t, "deq_cas", "deq_retire")
    /\ head' = nxt[t]
    /\ result' = [result EXCEPT ![t] = value[t]]
    /\ UNCHANGED <<tail, next, data, free, new_node, cur_head, cur_tail, nxt, value,
                   gpVars>>

DeqCAS(t) ==
    /\ Goto(t, "deq_cas", "deq_retire")
    /\ head = cur_head[t]
    /\ head' = nxt[t]
    /\ result' = [result EXCEPT ![t] = value[t]]
    /\ UNCHANGED <<tail, next, data, free, new_node, cur_head, cur_tail, nxt, value,
                   gpVars>>

DeqCASFail(t) ==
    /\ Goto(t, "deq_cas", "deq_head")
    /\ UNCHANGED <<listVars, localVars, gpVars>>

DeqRetire(t) ==
    /\ Goto(t, "deq_retire", "unpin")
    /\ GPRetire(cur_head[t])
    /\ UNCHANGED <<listVars, localVars>>

-----------------------------------------------------------------------------

\* The reclaimer runs a deleter.
Delete(n) ==
    /\ GPReclaim(n)
    /\ free' = free \union {n}
    /\ UNCHANGED <<head, tail, next, data, localVars, pc, calls>>

EnqStep(t) ==
    \/ \E v \in Value, n \in Node : EnqAlloc(t, v, n)
    \/ Pin(t, "enq_pin", "enq_tail")
    \/ EnqTail(t) \/ EnqNext(t) \/ EnqCheck(t) \/ EnqLink(t) \/ EnqLinkFail(t)
    \/ EnqSwing(t) \/ EnqHelp(t)

DeqStep(t) ==
    \/ DeqCall(t)
    \/ Pin(t, "deq_pin", "deq_head")
    \/ DeqHead(t) \/ DeqTail(t) \/ DeqNext(t) \/ DeqCheck(t) \/ DeqEmpty(t)
    \/ DeqHelp(t) \/ DeqRead(t) \/ DeqCAS(t) \/ DeqCASFail(t) \/ DeqRetire(t)

AllReturned == \A t \in Thread : pc[t] = "idle" /\ calls[t] = MaxCalls

Terminated == AllReturned /\ retired = {} /\ UNCHANGED codeVars

CodeNext ==
    \/ \E t \in Thread : EnqStep(t) \/ DeqStep(t) \/ Unpin(t)
    \/ \E n \in Node : Delete(n)
    \/ Terminated

\* The list from head_: the sentinel, then one node for each value.
Chain == NodesFrom(head, next)

Linked == NodesOf(Chain)

Dequeuing == {t \in Thread : pc[t] \in DequeueLabels}

SeeEmpty == sawEmpty' = {t \in Dequeuing' : t \in sawEmpty \/ Len(Chain') = 1}

MSNext == CodeNext /\ SeeEmpty

MSSpec == MSInit /\ [][MSNext]_msVars

\* A thread in a call keeps taking steps; the weak exchanges do not fail
\* spuriously for ever.
MSFairness ==
    \A t \in Thread :
        /\ WF_msVars((EnqStep(t) \/ DeqStep(t) \/ Unpin(t)) /\ pc[t] # "idle" /\ SeeEmpty)
        /\ SF_msVars(EnqLink(t) /\ SeeEmpty)
        /\ SF_msVars(DeqCAS(t) /\ SeeEmpty)

MSFairSpec == MSSpec /\ MSFairness

-----------------------------------------------------------------------------
(* Properties *)

\* No thread reads or writes a deleted node through a pointer it loaded
\* before: the sentinel it looks at, the tail it links to, or the successor
\* whose payload it is about to copy.
NoUseAfterFree ==
    \A t \in Thread :
        /\ pc[t] \in {"enq_next", "enq_link"} => cur_tail[t] \notin free
        /\ pc[t] = "deq_next" => cur_head[t] \notin free
        /\ pc[t] = "deq_read" => nxt[t] \notin free

\* tail_ never falls behind head_, it is at most one node from the end of the
\* list however many enqueuers have linked and not yet swung, and the list has
\* no cycle.
TailInList ==
    /\ tail \in Linked
    /\ Cardinality(Linked) = Len(Chain)
    /\ next[tail] # None => next[next[tail]] = None

\* The variables keep their types and the list its shape.
MSConsistent == MSTypeOK /\ TailInList

\* The payloads of the nodes after the sentinel.
Queue == Tail(Values(Chain, data))

\* The queue is linearizable.
Abs == INSTANCE AbstractQueue
         WITH queue <- Queue,
              calling <- Dequeuing,
              ret <- result

Linearizable == Abs!AQSpec

\* Every call returns although the others interfere.
CallsReturn == \A t \in Thread : (pc[t] # "idle") ~> (pc[t] = "idle")
-----------------------------------------------------------------------------
(* The inductive invariant *)

\* n is t's own: allocated by enqueue() and not linked yet.
Fresh(t, n) ==
    /\ pc[t] \in {"enq_pin", "enq_tail", "enq_next", "enq_check", "enq_link", "enq_help"}
    /\ new_node[t] = n

\* n is t's to retire: dequeue() has moved head_ past it.
Leaving(t, n) == pc[t] = "deq_retire" /\ cur_head[t] = n

InList(n) ==
    /\ n \in Node
    /\ n \notin free
    /\ n \notin retired
    /\ \A t \in Thread : ~Fresh(t, n) /\ ~Leaving(t, n)

Listed == {n \in Node : InList(n)}

\* t is pinned and n was in the list at some moment since: n is not reused.
Protected(t, n) ==
    /\ n \in Node
    /\ n \notin free
    /\ n \in retired => t \in waits[n]
    /\ \A u \in Thread : ~Fresh(u, n)

\* What the locals are between the steps that set and use them.
Locals ==
    \A t \in Thread :
        /\ pc[t] \notin {"idle", "enq_pin", "deq_pin"} => t \in pinned
        /\ pc[t] \in {"enq_pin", "enq_tail", "enq_next", "enq_check", "enq_link",
                      "enq_help", "enq_swing"} => new_node[t] \in Node
        /\ pc[t] \in {"enq_next", "enq_check", "enq_link", "enq_help", "enq_swing"}
              => Protected(t, cur_tail[t])
        /\ pc[t] \in {"deq_tail", "deq_next", "deq_check", "deq_help", "deq_read",
                      "deq_cas"} => Protected(t, cur_head[t])
        /\ pc[t] = "deq_retire" => cur_head[t] \in Node

\* Every address is free, retired, one thread's own, or in the list.
OneHolder ==
    /\ free \intersect retired = {}
    /\ \A t \in Thread, n \in Node : Fresh(t, n) =>
          /\ n \notin free
          /\ n \notin retired
          /\ next[n] = None
          /\ \A u \in Thread : ~Leaving(u, n) /\ (Fresh(u, n) => u = t)
    /\ \A t \in Thread, n \in Node : Leaving(t, n) =>
          /\ n \notin free
          /\ n \notin retired
          /\ \A u \in Thread : Leaving(u, n) => u = t

\* The nodes in the list form one chain from head_, and only its last node has
\* no successor; a node that has left the list still has its successor.
ListShape ==
    /\ InList(head)
    /\ \A n \in Node : InList(n) /\ next[n] # None =>
          /\ InList(next[n])
          /\ next[n] # head
          /\ \A m \in Node : InList(m) /\ next[m] = next[n] => m = n
    /\ \A m, n \in Node : InList(m) /\ InList(n) /\ next[m] = None /\ next[n] = None
          => m = n
    /\ \A n \in Node : n \in retired => next[n] # None
    /\ \A t \in Thread, n \in Node : Leaving(t, n) => next[n] # None

\* tail_ is in the list, at most one node from its end.
TailNearEnd ==
    /\ InList(tail)
    /\ next[tail] # None => next[next[tail]] = None

\* An enqueuer's view of the tail is never ahead of tail_.
EnqueuersBehind ==
    \A t \in Thread :
        /\ pc[t] \in {"enq_next", "enq_check", "enq_link"} => cur_tail[t] # next[tail]
        /\ pc[t] = "enq_check" /\ nxt[t] # None => nxt[t] = next[cur_tail[t]]
        /\ pc[t] = "enq_help" => nxt[t] # None /\ nxt[t] = next[cur_tail[t]]
        /\ pc[t] = "enq_swing" => new_node[t] = next[cur_tail[t]]

\* A dequeuer's view of the head is never ahead of head_, and while it is still
\* the head, tail_ has left it if the dequeuer has seen so.
DequeuersBehind ==
    \A t \in Thread :
        /\ pc[t] \in DequeueLabels \ {"deq_head"} /\ InList(cur_head[t])
              => cur_head[t] = head
        /\ pc[t] \in {"deq_next", "deq_check", "deq_read", "deq_cas"} =>
              (cur_head[t] = head /\ cur_tail[t] # cur_head[t] => tail # head)
        /\ pc[t] = "deq_check" /\ nxt[t] # None => nxt[t] = next[cur_head[t]]
        /\ pc[t] = "deq_help" =>
              /\ nxt[t] # None /\ nxt[t] = next[cur_head[t]]
              /\ cur_tail[t] = cur_head[t]
        /\ pc[t] \in {"deq_read", "deq_cas"} =>
              /\ nxt[t] # None /\ nxt[t] = next[cur_head[t]]
              /\ cur_tail[t] # cur_head[t]
        /\ pc[t] = "deq_read" => Protected(t, nxt[t])

MSInv ==
    /\ MSTypeOK
    /\ Locals
    /\ OneHolder
    /\ ListShape
    /\ TailNearEnd
    /\ EnqueuersBehind
    /\ DequeuersBehind

\* A step that changes nothing that can be reached from head_.
SameList ==
    /\ head' = head
    /\ Listed' = Listed
    /\ \A n \in Listed : next'[n] = next[n] /\ data'[n] = data[n]

-----------------------------------------------------------------------------
(* Proofs *)

USE NoneIsNoAddress, SomeNode, FiniteMemory, MaxCallsNat

LEMMA MSInvInit == MSInit => MSInv
<1> SUFFICES ASSUME MSInit PROVE MSInv
  OBVIOUS
<1>1. head \in Node /\ \A t \in Thread : pc[t] = "idle"
  BY DEF MSInit
<1>2. MSTypeOK
  BY <1>1 DEF MSInit, MSTypeOK, GPInit, GPTypeOK, Pointer
<1>3. \A t \in Thread : \A n : ~Fresh(t, n) /\ ~Leaving(t, n)
  BY <1>1 DEF Fresh, Leaving
<1>4. \A n \in Node : InList(n) <=> n = head
  BY <1>1, <1>3 DEF MSInit, GPInit, InList
<1>5. Locals /\ EnqueuersBehind /\ DequeuersBehind
  BY <1>1 DEF Locals, EnqueuersBehind, DequeuersBehind, DequeueLabels
<1>6. OneHolder /\ ListShape /\ TailNearEnd
  BY <1>1, <1>3, <1>4 DEF MSInit, GPInit, OneHolder, ListShape, TailNearEnd
<1> QED
  BY <1>2, <1>5, <1>6 DEF MSInv

\* A step that touches neither the list nor the reclaimer, and leaves every
\* thread its own nodes, changes nothing in the shape of the list.
LEMMA Quiet ==
    ASSUME UNCHANGED <<listVars, gpVars>>,
           \A u \in Thread : \A n : (Fresh(u, n) <=> Fresh(u, n)')
                                /\ (Leaving(u, n) <=> Leaving(u, n)')
    PROVE  /\ \A n : InList(n) <=> InList(n)'
           /\ \A u, n : Protected(u, n) <=> Protected(u, n)'
           /\ OneHolder => OneHolder'
           /\ ListShape => ListShape'
           /\ TailNearEnd => TailNearEnd'
<1> USE DEF listVars, gpVars
<1>1. \A n : InList(n) <=> InList(n)'
  BY DEF InList
<1>2. \A u, n : Protected(u, n) <=> Protected(u, n)'
  BY DEF Protected
<1>3. OneHolder => OneHolder'
  BY DEF OneHolder
<1>4. ListShape => ListShape'
  BY <1>1 DEF ListShape
<1>5. TailNearEnd => TailNearEnd'
  BY <1>1 DEF TailNearEnd
<1> QED
  BY <1>1, <1>2, <1>3, <1>4, <1>5

\* The steps of an enqueue() that only read.
EnqLocal(t) ==
    \/ EnqTail(t)
    \/ EnqNext(t)
    \/ EnqCheck(t)
    \/ EnqLinkFail(t)

LEMMA EnqLocalStep ==
    ASSUME MSInv, NEW t \in Thread, EnqLocal(t), sawEmpty' \in SUBSET Thread
    PROVE  MSInv' /\ SameList
<1> USE DEF MSInv, EnqLocal, EnqTail, EnqNext, EnqCheck, EnqLinkFail, Goto
<1>1. MSTypeOK'
  BY DEF MSTypeOK, Pointer, GPTypeOK, gpVars, listVars, localVars, Locals, Protected
<1>2. UNCHANGED <<listVars, gpVars, new_node, cur_head>>
  BY DEF localVars
<1>3. \A u \in Thread : \A n : (Fresh(u, n) <=> Fresh(u, n)')
                           /\ (Leaving(u, n) <=> Leaving(u, n)')
  BY <1>2 DEF MSTypeOK, Fresh, Leaving
<1>4. /\ \A n : InList(n) <=> InList(n)'
      /\ \A u, n : Protected(u, n) <=> Protected(u, n)'
      /\ OneHolder' /\ ListShape' /\ TailNearEnd'
  BY <1>2, <1>3, Quiet
<1>5. \A u : InList(tail) /\ Protected(u, tail)
  BY DEF TailNearEnd, InList, Protected
<1>6. Locals'
  BY <1>2, <1>4, <1>5 DEF MSTypeOK, Locals, gpVars, listVars, localVars
<1>7. EnqueuersBehind'
  BY <1>2, <1>5 DEF MSTypeOK, EnqueuersBehind, Locals, TailNearEnd, Protected,
                    listVars, localVars, Pointer
<1>8. DequeuersBehind'
  BY <1>2, <1>4 DEF MSTypeOK, DequeuersBehind, DequeueLabels, listVars, localVars
<1>9. SameList
  BY <1>2, <1>4 DEF SameList, Listed, listVars
<1> QED
  BY <1>1, <1>4, <1>6, <1>7, <1>8, <1>9

\* The steps of a dequeue() that only read.
DeqLocal(t) ==
    \/ DeqCall(t)
    \/ DeqHead(t)
    \/ DeqTail(t)
    \/ DeqNext(t)
    \/ DeqCheck(t)
    \/ DeqEmpty(t)
    \/ DeqRead(t)
    \/ DeqCASFail(t)

LEMMA DeqLocalStep ==
    ASSUME MSInv, NEW t \in Thread, DeqLocal(t), sawEmpty' \in SUBSET Thread
    PROVE  MSInv' /\ SameList
<1> USE DEF MSInv
<1>1. MSTypeOK'
  <2> USE DEF MSTypeOK, Pointer, GPTypeOK, gpVars, listVars, localVars, Call, Goto,
              DequeueLabels
  <2>1. CASE DeqCall(t) \/ DeqHead(t) \/ DeqTail(t)
    BY <2>1 DEF DeqCall, DeqHead, DeqTail
  <2>2. CASE DeqNext(t)
    BY <2>2 DEF DeqNext, Locals, Protected
  <2>3. CASE DeqCheck(t) \/ DeqEmpty(t)
    BY <2>3 DEF DeqCheck, DeqEmpty
  <2>4. CASE DeqRead(t) \/ DeqCASFail(t)
    BY <2>4 DEF DeqRead, DeqCASFail, DequeuersBehind, Protected
  <2> QED
    BY <2>1, <2>2, <2>3, <2>4 DEF DeqLocal
<1>2. UNCHANGED <<listVars, gpVars, new_node>>
  BY DEF localVars, DeqLocal,
         DeqCall, DeqHead, DeqTail, DeqNext, DeqCheck, DeqEmpty, DeqRead, DeqCASFail
<1>3. \A u \in Thread : \A n : (Fresh(u, n) <=> Fresh(u, n)')
                           /\ (Leaving(u, n) <=> Leaving(u, n)')
  BY <1>2 DEF MSTypeOK, Fresh, Leaving, localVars, Call, Goto, DeqLocal,
         DeqCall, DeqHead, DeqTail, DeqNext, DeqCheck, DeqEmpty, DeqRead, DeqCASFail
<1>4. /\ \A n : InList(n) <=> InList(n)'
      /\ \A u, n : Protected(u, n) <=> Protected(u, n)'
      /\ OneHolder' /\ ListShape' /\ TailNearEnd'
  BY <1>2, <1>3, Quiet
<1>5. \A u, n : InList(n) => Protected(u, n)
  BY DEF InList, Protected
<1>6. Locals'
  BY <1>2, <1>4, <1>5
     DEF MSTypeOK, Locals, ListShape, gpVars, listVars, localVars, Call, Goto, DeqLocal,
         DeqCall, DeqHead, DeqTail, DeqNext, DeqCheck, DeqEmpty, DeqRead, DeqCASFail
<1>7. EnqueuersBehind'
  BY <1>2 DEF MSTypeOK, EnqueuersBehind, listVars, localVars, Call, Goto, DeqLocal,
         DeqCall, DeqHead, DeqTail, DeqNext, DeqCheck, DeqEmpty, DeqRead, DeqCASFail
<1>8. DequeuersBehind'
  <2> USE <1>2, <1>4, <1>5 DEF MSTypeOK, DequeuersBehind, DequeueLabels, listVars, Goto
  <2>1. CASE DeqCall(t) \/ DeqHead(t) \/ DeqTail(t)
    BY <2>1 DEF DeqCall, DeqHead, DeqTail, Call, localVars
  <2>2. CASE DeqNext(t)
    BY <2>2 DEF DeqNext, localVars
  <2>3. CASE DeqCheck(t)
    BY <2>3 DEF DeqCheck, localVars, ListShape, Locals, Pointer
  <2>4. CASE DeqEmpty(t) \/ DeqRead(t) \/ DeqCASFail(t)
    BY <2>4 DEF DeqEmpty, DeqRead, DeqCASFail, localVars
  <2> QED
    BY <2>1, <2>2, <2>3, <2>4 DEF DeqLocal
<1>9. SameList
  BY <1>2, <1>4 DEF SameList, Listed, listVars
<1> QED
  BY <1>1, <1>4, <1>6, <1>7, <1>8, <1>9

LEMMA EnqAllocStep ==
    ASSUME MSInv, NEW t \in Thread, NEW v \in Value, NEW n \in Node, EnqAlloc(t, v, n),
           sawEmpty' \in SUBSET Thread
    PROVE  MSInv' /\ SameList
<1> USE DEF MSInv, EnqAlloc, Call
<1>1. MSTypeOK'
  BY DEF MSTypeOK, Pointer, GPTypeOK, gpVars
<1>2. UNCHANGED <<head, tail, cur_head, cur_tail, nxt, pinned, retired, waits>>
  BY DEF gpVars
<1>3. /\ \A u, m : Fresh(u, m)' <=> Fresh(u, m) \/ (u = t /\ u \in Thread /\ m = n)
      /\ \A u, m : Leaving(u, m)' <=> Leaving(u, m)
  BY <1>2 DEF MSTypeOK, Fresh, Leaving
<1>4. \A m : InList(m)' <=> InList(m)
  BY <1>2, <1>3 DEF InList
<1>5. \A m \in Node : m # n => next'[m] = next[m]
  BY DEF MSTypeOK
<1>6. \A u, m : Protected(u, m) => Protected(u, m)' /\ m # n
  BY <1>2, <1>3 DEF Protected
<1>7. next'[n] = None /\ ~InList(n) /\ n \notin retired
  BY DEF MSTypeOK, InList, OneHolder
<1>8. Locals'
  BY <1>2, <1>6 DEF MSTypeOK, Locals
<1>9. OneHolder'
  BY <1>2, <1>3, <1>5, <1>7 DEF OneHolder, MSTypeOK
<1>10. ListShape'
  <2>1. \A m \in Node : m \in retired \/ (\E u \in Thread : Leaving(u, m)) => m # n
    BY <1>7 DEF OneHolder
  <2> QED
    BY <1>2, <1>3, <1>4, <1>5, <1>7, <2>1 DEF ListShape
<1>11. TailNearEnd'
  BY <1>2, <1>4, <1>5, <1>7 DEF ListShape, TailNearEnd, InList
<1>12. EnqueuersBehind'
  BY <1>2, <1>5, <1>6, <1>7
     DEF MSTypeOK, EnqueuersBehind, Locals, TailNearEnd, InList, Protected
<1>13. DequeuersBehind'
  <2>1. ASSUME NEW u \in Thread, pc[u] \in DequeueLabels \ {"deq_head"}
        PROVE  /\ pc'[u] = pc[u] /\ cur_head[u] \in Node
               /\ next'[cur_head[u]] = next[cur_head[u]]
    BY <1>5, <1>6, <2>1 DEF MSTypeOK, Locals, Protected, DequeueLabels
  <2>2. \A u \in Thread : pc'[u] = pc[u] \/ pc'[u] = "enq_pin"
    BY DEF MSTypeOK
  <2> QED
    BY <1>2, <1>4, <1>6, <2>1, <2>2 DEF DequeuersBehind, DequeueLabels
<1>14. SameList
  BY <1>2, <1>4, <1>5, <1>7 DEF SameList, Listed, MSTypeOK
<1> QED
  BY <1>1, <1>8, <1>9, <1>10, <1>11, <1>12, <1>13, <1>14

\* Entering or leaving the pinned section moves the reclaimer and nothing else.
Pinning(t) ==
    \/ Pin(t, "enq_pin", "enq_tail")
    \/ Pin(t, "deq_pin", "deq_head")
    \/ Unpin(t)

LEMMA PinningStep ==
    ASSUME MSInv, NEW t \in Thread, Pinning(t), sawEmpty' \in SUBSET Thread
    PROVE  MSInv' /\ SameList
<1> USE DEF MSInv, Pinning, Pin, Unpin, Goto
<1>1. MSTypeOK'
  BY DEF MSTypeOK, Pointer, GPTypeOK, GPPin, GPUnpin, listVars, localVars, DequeueLabels
<1>2. UNCHANGED <<listVars, localVars, retired>>
  BY DEF GPPin, GPUnpin
<1>3. \A u \in Thread : \A n : (Fresh(u, n) <=> Fresh(u, n)')
                           /\ (Leaving(u, n) <=> Leaving(u, n)')
  BY <1>2 DEF MSTypeOK, Fresh, Leaving, localVars
<1>4. \A n : InList(n) <=> InList(n)'
  BY <1>2, <1>3 DEF InList, listVars
<1>5. /\ \A u \in Thread : \A n : (u # t \/ GPPin(t)) => (Protected(u, n) => Protected(u, n)')
      /\ \A u \in Thread : u # t /\ u \in pinned => u \in pinned'
      /\ GPPin(t) => t \in pinned'
  BY <1>2, <1>3 DEF MSTypeOK, GPTypeOK, Protected, GPPin, GPUnpin, listVars
<1>6. Locals'
  BY <1>2, <1>5 DEF MSTypeOK, Locals, localVars
<1>7. OneHolder'
  BY <1>2, <1>3 DEF OneHolder, listVars
<1>8. ListShape' /\ TailNearEnd'
  BY <1>2, <1>3, <1>4 DEF ListShape, TailNearEnd, listVars
<1>9. EnqueuersBehind'
  BY <1>2 DEF MSTypeOK, EnqueuersBehind, listVars, localVars
<1>10. DequeuersBehind'
  BY <1>2, <1>4, <1>5 DEF MSTypeOK, DequeuersBehind, DequeueLabels, listVars, localVars
<1>11. SameList
  BY <1>2, <1>4 DEF SameList, Listed, listVars
<1> QED
  BY <1>1, <1>6, <1>7, <1>8, <1>9, <1>10, <1>11

LEMMA EnqLinkStep ==
    ASSUME MSInv, NEW t \in Thread, EnqLink(t), sawEmpty' \in SUBSET Thread
    PROVE  /\ MSInv'
           /\ cur_tail[t] \in Listed /\ next[cur_tail[t]] = None
           /\ Fresh(t, new_node[t]) /\ new_node[t] \in Node \ Listed
           /\ Listed' = Listed \union {new_node[t]}
           /\ \A n \in Listed : n # cur_tail[t] => next'[n] = next[n]
           /\ next'[cur_tail[t]] = new_node[t] /\ next'[new_node[t]] = None
<1> USE DEF MSInv, EnqLink, Goto
<1> DEFINE end == cur_tail[t]
           new == new_node[t]
<1>1. MSTypeOK'
  BY DEF MSTypeOK, Pointer, GPTypeOK, gpVars, localVars
<1>2. UNCHANGED <<head, tail, data, free, new_node, cur_head, cur_tail, nxt,
                  pinned, retired, waits>>
  BY DEF gpVars, localVars
<1>3. /\ Protected(t, end) /\ end \in Node /\ new \in Node
      /\ Fresh(t, new) /\ next[new] = None /\ new \notin free /\ new \notin retired
      /\ end # new /\ next[end] = None
  BY DEF Locals, Fresh, OneHolder, Protected
<1>4. /\ \A m \in Node : m # end => next'[m] = next[m]
      /\ next'[end] = new
      /\ next'[new] = None
  BY <1>3 DEF MSTypeOK
<1>5. InList(end)
  BY <1>3 DEF InList, Protected, ListShape
<1>6. /\ \A u, m : Fresh(u, m)' <=> Fresh(u, m) /\ u # t
      /\ \A u, m : Leaving(u, m)' <=> Leaving(u, m)
  BY <1>2 DEF MSTypeOK, Fresh, Leaving
<1>7. /\ ~InList(new)
      /\ \A m : InList(m)' <=> InList(m) \/ m = new
  BY <1>2, <1>3, <1>6 DEF InList, OneHolder, Fresh
<1>8. \A u, m : Protected(u, m) => Protected(u, m)' /\ m # new
  BY <1>2, <1>3, <1>6 DEF Protected
<1>9. Locals'
  BY <1>2, <1>8 DEF MSTypeOK, Locals
<1>10. OneHolder'
  BY <1>2, <1>3, <1>4, <1>5, <1>6 DEF OneHolder, InList
<1>11. ListShape'
  <2>1. InList(head)'
    BY <1>2, <1>7 DEF ListShape
  <2>2. ASSUME NEW n \in Node, InList(n)', next'[n] # None
        PROVE  /\ InList(next[n])'
               /\ next'[n] # head'
               /\ \A m \in Node : InList(m)' /\ next'[m] = next'[n] => m = n
    BY <1>2, <1>3, <1>4, <1>7, <2>2 DEF ListShape
  <2>3. \A m \in Node : InList(m)' /\ next'[m] = None => m = new
    BY <1>3, <1>4, <1>5, <1>7 DEF ListShape
  <2>4. \A n \in Node : n \in retired' => next'[n] # None
    BY <1>2, <1>3, <1>4 DEF ListShape
  <2>5. \A u \in Thread, n \in Node : Leaving(u, n)' => next'[n] # None
    BY <1>2, <1>3, <1>4, <1>6 DEF ListShape
  <2> QED
    BY <2>1, <2>2, <2>3, <2>4, <2>5 DEF ListShape
<1>12. TailNearEnd'
  <2>1. next[tail] # end
    BY DEF EnqueuersBehind
  <2> QED
    BY <1>2, <1>3, <1>4, <1>5, <1>7, <2>1 DEF TailNearEnd, ListShape, InList
<1>13. EnqueuersBehind'
  <2>1. ASSUME NEW u \in Thread,
               pc[u] \in {"enq_next", "enq_check", "enq_link", "enq_help", "enq_swing"}
        PROVE  cur_tail[u] \in Node /\ cur_tail[u] # new
    BY <1>8, <2>1 DEF Locals, Protected
  <2>2. next'[tail] \in {next[tail], new}
    BY <1>3, <1>4 DEF MSTypeOK
  <2>3. /\ pc'[t] = "enq_swing" /\ new = next'[end]
        /\ \A u \in Thread : u # t => pc'[u] = pc[u]
    BY <1>4 DEF MSTypeOK
  <2>4. \A m \in Node : next[m] # None => next'[m] = next[m]
    BY <1>3, <1>4
  <2>5. ASSUME NEW u \in Thread, u # t
        PROVE  /\ pc'[u] \in {"enq_next", "enq_check", "enq_link"}
                     => cur_tail'[u] # next'[tail']
               /\ pc'[u] = "enq_check" /\ nxt'[u] # None => nxt'[u] = next'[cur_tail'[u]]
               /\ pc'[u] = "enq_help" => nxt'[u] # None /\ nxt'[u] = next'[cur_tail'[u]]
               /\ pc'[u] = "enq_swing" => new_node'[u] = next'[cur_tail'[u]]
    <3>1. pc[u] \in {"enq_next", "enq_check", "enq_link"} => cur_tail'[u] # next'[tail']
      BY <1>2, <2>1, <2>2 DEF EnqueuersBehind
    <3>2. /\ pc[u] = "enq_check" /\ nxt[u] # None => nxt[u] = next'[cur_tail[u]]
          /\ pc[u] = "enq_help" => nxt[u] # None /\ nxt[u] = next'[cur_tail[u]]
      BY <2>1, <2>4 DEF EnqueuersBehind
    <3>3. pc[u] = "enq_swing" => new_node[u] = next[cur_tail[u]] /\ new_node[u] \in Node
      BY DEF EnqueuersBehind, Locals
    <3>4. pc[u] = "enq_swing" => new_node[u] = next'[cur_tail[u]]
      BY <2>1, <2>4, <3>3
    <3> QED
      BY <1>2, <2>3, <2>5, <3>1, <3>2, <3>4
  <2> QED
    <3>1. /\ pc'[t] \notin {"enq_next", "enq_check", "enq_link", "enq_help"}
          /\ pc'[t] = "enq_swing" => new_node'[t] = next'[cur_tail'[t]]
      BY <1>2, <2>3
    <3> QED
      BY ONLY <2>5, <3>1 DEF EnqueuersBehind
<1>14. DequeuersBehind'
  <2>1. ASSUME NEW u \in Thread, pc[u] \in DequeueLabels \ {"deq_head"}
        PROVE  cur_head[u] \in Node /\ cur_head[u] # new
    BY <1>8, <2>1 DEF Locals, Protected, DequeueLabels
  <2> QED
    BY <1>2, <1>3, <1>4, <1>7, <1>8, <2>1 DEF MSTypeOK, DequeuersBehind, DequeueLabels
<1> QED
  BY <1>1, <1>3, <1>4, <1>5, <1>7, <1>9, <1>10, <1>11, <1>12, <1>13, <1>14 DEF Listed

\* One of the three exchanges of tail_, which moves it to its successor or not at
\* all.
Swinging(t) ==
    \/ EnqSwing(t)
    \/ EnqHelp(t)
    \/ DeqHelp(t)

LEMMA SwingingStep ==
    ASSUME MSInv, NEW t \in Thread, Swinging(t), sawEmpty' \in SUBSET Thread
    PROVE  MSInv' /\ SameList
<1> USE DEF MSInv, Swinging, EnqSwing, EnqHelp, DeqHelp, SwingTail, Goto
<1>1. UNCHANGED <<head, next, data, free, new_node, cur_head, cur_tail, nxt, value, result,
                  pinned, retired, waits, calls>>
  BY DEF gpVars, localVars
<1>2. \/ tail' = tail
      \/ tail' = next[tail] /\ next[tail] # None
  BY DEF EnqueuersBehind, DequeuersBehind, Locals
<1>3. MSTypeOK'
  BY <1>1, <1>2 DEF MSTypeOK, Pointer, GPTypeOK, DequeueLabels
<1>4. /\ \A u \in Thread : \A n : Leaving(u, n)' <=> Leaving(u, n)
      /\ \A u \in Thread : \A n : Fresh(u, n)' <=> Fresh(u, n)
  <2>1. /\ \A u \in Thread : u # t => pc'[u] = pc[u]
        /\ <<pc[t], pc'[t]>> \in {<<"enq_swing", "unpin">>, <<"enq_help", "enq_tail">>,
                                 <<"deq_help", "deq_head">>}
    BY DEF MSTypeOK
  <2> QED
    BY <1>1, <2>1 DEF Fresh, Leaving
<1>5. /\ \A n : InList(n)' <=> InList(n)
      /\ \A u, n : Protected(u, n)' <=> Protected(u, n)
  BY <1>1, <1>4 DEF InList, Protected
<1>6. Locals'
  BY <1>1, <1>5 DEF MSTypeOK, Locals
<1>7. OneHolder'
  BY <1>1, <1>4 DEF OneHolder
<1>8. ListShape'
  BY <1>1, <1>4, <1>5 DEF ListShape
<1>9. TailNearEnd'
  BY <1>1, <1>2, <1>5 DEF TailNearEnd, ListShape, InList
<1>10. tail' # tail => next'[tail'] = None
  BY <1>1, <1>2 DEF TailNearEnd
<1>11. EnqueuersBehind'
  <2>1. ASSUME NEW u \in Thread,
               pc[u] \in {"enq_next", "enq_check", "enq_link", "enq_help", "enq_swing"}
        PROVE  cur_tail[u] \in Node
    BY <2>1 DEF Locals, Protected
  <2> QED
    BY <1>1, <1>10, <2>1 DEF MSTypeOK, EnqueuersBehind
<1>12. DequeuersBehind'
  <2>1. tail # head => tail' # head
    BY <1>1, <1>2 DEF ListShape, TailNearEnd, InList
  <2>2. tail' # tail => tail' # head
    BY <1>1, <1>2 DEF ListShape, TailNearEnd, InList
  <2> QED
    BY <1>1, <1>5, <2>1, <2>2 DEF MSTypeOK, DequeuersBehind, DequeueLabels
<1>13. SameList
  BY <1>1, <1>5 DEF SameList, Listed
<1> QED
  BY <1>3, <1>6, <1>7, <1>8, <1>9, <1>11, <1>12, <1>13

LEMMA DeqCASStep ==
    ASSUME MSInv, NEW t \in Thread, DeqCAS(t), sawEmpty' \in SUBSET Thread
    PROVE  /\ MSInv'
           /\ next[head] # None /\ head' = next[head]
           /\ Listed' = Listed \ {head}
           /\ UNCHANGED <<next, data>>
<1> USE DEF MSInv, DeqCAS, Goto
<1>1. /\ UNCHANGED <<tail, next, data, free, new_node, cur_head, cur_tail, nxt, value,
                     pinned, retired, waits, calls>>
      /\ pc'[t] = "deq_retire" /\ \A u \in Thread : u # t => pc'[u] = pc[u]
      /\ pc' \in [Thread -> {"idle", "enq_pin", "enq_tail", "enq_next", "enq_check",
                          "enq_link", "enq_swing", "enq_help", "deq_pin",
                          "deq_retire", "unpin"} \union DequeueLabels]
  BY DEF gpVars, MSTypeOK
<1>2. /\ InList(head) /\ next[head] # None /\ head' = next[head] /\ cur_head[t] = head
      /\ InList(next[head]) /\ head' # head /\ tail # head
  <2>1. /\ InList(head) /\ next[head] # None /\ nxt[t] = next[head] /\ cur_head[t] = head
        /\ tail # head
    BY DEF DequeuersBehind, ListShape
  <2> QED
    BY <2>1 DEF ListShape, InList
<1>3. MSTypeOK'
  BY <1>1, <1>2 DEF MSTypeOK, Pointer, GPTypeOK, InList
<1>4. /\ \A u \in Thread : \A n : Leaving(u, n)' <=> Leaving(u, n) \/ (u = t /\ n = head)
      /\ \A u \in Thread : \A n : Fresh(u, n)' <=> Fresh(u, n)
  BY <1>1, <1>2 DEF MSTypeOK, Fresh, Leaving
<1>5. /\ \A n : InList(n)' <=> InList(n) /\ n # head
      /\ \A u, n : Protected(u, n)' <=> Protected(u, n)
  BY <1>1, <1>4 DEF InList, Protected
<1>6. Locals'
  BY <1>1, <1>2, <1>5 DEF MSTypeOK, Locals, InList
<1>7. OneHolder'
  BY <1>1, <1>2, <1>4 DEF OneHolder, InList
<1>8. ListShape'
  <2>1. \A n \in Node : InList(n) /\ next[n] = head' => n = head
    BY <1>2 DEF ListShape, InList
  <2> QED
    BY <1>1, <1>2, <1>4, <1>5, <2>1 DEF ListShape
<1>9. TailNearEnd'
  BY <1>1, <1>2, <1>5 DEF TailNearEnd
<1>10. EnqueuersBehind'
  BY <1>1 DEF EnqueuersBehind
<1>11. DequeuersBehind'
  <2>1. \A u \in Thread : pc[u] \in DequeueLabels \ {"deq_head"} /\ InList(cur_head[u])'
           => FALSE
    BY <1>2, <1>5 DEF DequeuersBehind
  <2> QED
    BY <1>1, <1>2, <1>5, <2>1 DEF DequeuersBehind, DequeueLabels
<1> QED
  BY <1>1, <1>2, <1>3, <1>5, <1>6, <1>7, <1>8, <1>9, <1>10, <1>11 DEF Listed

LEMMA DeqRetireStep ==
    ASSUME MSInv, NEW t \in Thread, DeqRetire(t), sawEmpty' \in SUBSET Thread
    PROVE  MSInv' /\ SameList
<1> USE DEF MSInv, DeqRetire, Goto, GPRetire
<1> DEFINE old == cur_head[t]
<1>1. /\ UNCHANGED <<head, tail, next, data, free, new_node, cur_head, cur_tail, nxt, value,
                     result, pinned, calls>>
      /\ pc'[t] = "unpin" /\ \A u \in Thread : u # t => pc'[u] = pc[u]
  BY DEF listVars, localVars, MSTypeOK
<1>2. old \in Node /\ Leaving(t, old)
  BY DEF Locals, Leaving
<1>3. MSTypeOK'
  BY <1>1, <1>2 DEF MSTypeOK, Pointer, GPTypeOK
<1>4. /\ \A u \in Thread : \A n : Leaving(u, n)' <=> Leaving(u, n) /\ u # t
      /\ \A u \in Thread : \A n : Fresh(u, n)' <=> Fresh(u, n)
  BY <1>1, <1>2 DEF MSTypeOK, Fresh, Leaving
<1>5. \A n : InList(n)' <=> InList(n)
  <2>1. \A n : n # old => ~Leaving(t, n)
    BY DEF Leaving
  <2> QED
    BY <1>1, <1>2, <1>4, <2>1 DEF InList
<1>6. \A u \in Thread : \A n : Protected(u, n) /\ u \in pinned => Protected(u, n)'
  BY <1>1, <1>2, <1>4 DEF MSTypeOK, GPTypeOK, Protected
<1>7. Locals'
  BY <1>1, <1>2, <1>6 DEF Locals
<1>8. OneHolder'
  BY <1>1, <1>2, <1>4 DEF OneHolder
<1>9. ListShape' /\ TailNearEnd'
  BY <1>1, <1>2, <1>4, <1>5 DEF ListShape, TailNearEnd
<1>10. EnqueuersBehind'
  BY <1>1 DEF EnqueuersBehind
<1>11. DequeuersBehind'
  BY <1>1, <1>5, <1>6 DEF DequeuersBehind, DequeueLabels, Locals
<1>12. SameList
  BY <1>1, <1>5 DEF SameList, Listed
<1> QED
  BY <1>3, <1>7, <1>8, <1>9, <1>10, <1>11, <1>12

LEMMA DeleteStep ==
    ASSUME MSInv, NEW n \in Node, Delete(n), sawEmpty' \in SUBSET Thread
    PROVE  MSInv' /\ SameList
<1> USE DEF MSInv, Delete, GPReclaim, localVars
<1>1. MSTypeOK'
  BY DEF MSTypeOK, GPTypeOK
<1>2. \A u, m : (Fresh(u, m) <=> Fresh(u, m)') /\ (Leaving(u, m) <=> Leaving(u, m)')
  BY DEF Fresh, Leaving
<1>3. \A m : InList(m) <=> InList(m)'
  BY <1>2 DEF InList
<1>4. \A u \in Thread : \A m : Protected(u, m) => Protected(u, m)'
  BY <1>2 DEF Protected
<1>5. Locals'
  BY <1>4 DEF Locals
<1>6. OneHolder'
  BY <1>2 DEF OneHolder
<1>7. ListShape' /\ TailNearEnd'
  BY <1>2, <1>3 DEF ListShape, TailNearEnd
<1>8. EnqueuersBehind'
  BY DEF EnqueuersBehind
<1>9. DequeuersBehind'
  BY <1>3, <1>4 DEF DequeuersBehind
<1>10. SameList
  BY <1>3 DEF SameList, Listed
<1> QED
  BY <1>1, <1>5, <1>6, <1>7, <1>8, <1>9, <1>10

\* Of the steps only these two change the list.
LEMMA OtherSteps ==
    ASSUME MSInv, MSNext, \A t \in Thread : ~EnqLink(t) /\ ~DeqCAS(t)
    PROVE  MSInv' /\ SameList
<1>1. sawEmpty' \in SUBSET Thread
  BY DEF MSNext, SeeEmpty, Dequeuing
<1>2. ASSUME NEW t \in Thread, EnqStep(t) PROVE MSInv' /\ SameList
  BY <1>1, <1>2, EnqAllocStep, PinningStep, EnqLocalStep, SwingingStep
     DEF EnqStep, Pinning, EnqLocal, Swinging
<1>3. ASSUME NEW t \in Thread, DeqStep(t) PROVE MSInv' /\ SameList
  BY <1>1, <1>3, PinningStep, DeqLocalStep, DeqRetireStep, SwingingStep
     DEF DeqStep, Pinning, DeqLocal, Swinging
<1>4. ASSUME NEW t \in Thread, Unpin(t) PROVE MSInv' /\ SameList
  BY <1>1, <1>4, PinningStep DEF Pinning
<1>5. ASSUME NEW n \in Node, Delete(n) PROVE MSInv' /\ SameList
  BY <1>1, <1>5, DeleteStep
<1>6. ASSUME Terminated PROVE MSInv' /\ SameList
  <2>1. UNCHANGED codeVars
    BY <1>6 DEF Terminated
  <2>2. MSInv'
    BY <1>1, <2>1
       DEF codeVars, listVars, localVars, gpVars, MSInv, MSTypeOK, GPTypeOK, Locals,
           OneHolder, ListShape, TailNearEnd, EnqueuersBehind, DequeuersBehind, InList,
           Protected, Fresh, Leaving
  <2>3. SameList
    BY <2>1 DEF codeVars, listVars, localVars, gpVars, SameList, Listed, InList, Fresh, Leaving
  <2> QED
    BY <2>2, <2>3
<1> QED
  BY <1>2, <1>3, <1>4, <1>5, <1>6 DEF MSNext, SeeEmpty, CodeNext

LEMMA MSInvStep == MSInv /\ [MSNext]_msVars => MSInv'
<1> SUFFICES ASSUME MSInv, [MSNext]_msVars PROVE MSInv'
  OBVIOUS
<1>1. CASE UNCHANGED msVars
  BY <1>1 DEF msVars, codeVars, listVars, localVars, gpVars, MSInv, MSTypeOK, GPTypeOK, Locals,
              OneHolder, ListShape, TailNearEnd, EnqueuersBehind, DequeuersBehind, InList,
              Protected, Fresh, Leaving
<1>2. CASE MSNext
  <2>1. sawEmpty' \in SUBSET Thread
    BY <1>2 DEF MSNext, SeeEmpty, Dequeuing
  <2> QED
    BY <1>2, <2>1, OtherSteps, EnqLinkStep, DeqCASStep
<1> QED
  BY <1>1, <1>2

\* The invariant of the queue.
THEOREM MSInvCorrect == MSSpec => []MSInv
BY MSInvInit, MSInvStep, PTL DEF MSSpec

\* No thread reads or writes a deleted node, for any number of threads, addresses
\* and calls.
THEOREM NoUseAfterFreeCorrect == MSSpec => []NoUseAfterFree
<1>1. MSInv => NoUseAfterFree
  BY DEF MSInv, Locals, DequeuersBehind, Protected, NoUseAfterFree
<1> QED
  BY <1>1, MSInvCorrect, PTL

-----------------------------------------------------------------------------
(* The queue the program keeps, and linearizability *)

\* The list is what the walk from head_ finds.
ChainRight == IsList(Chain, head, next, Listed)

\* The payloads on their way into the list and out of it.
DataRight ==
    /\ \A t \in Thread, n \in Node : Fresh(t, n) => data[n] \in Value
    /\ \A t \in Thread : pc[t] = "deq_cas" /\ cur_head[t] = head
          => value[t] = data[next[head]]

\* A dequeue() that is about to find the queue empty has overlapped an empty queue.
EmptySeen ==
    /\ sawEmpty \subseteq Dequeuing
    /\ Len(Chain) = 1 => Dequeuing \subseteq sawEmpty
    /\ \A t \in Thread : pc[t] = "deq_check" /\ nxt[t] = None => t \in sawEmpty

MSQueueInv == MSInv /\ ChainRight /\ DataRight /\ EmptySeen

\* The sentinel heads the list, its successor holds the oldest value.
LEMMA ChainFacts ==
    ASSUME MSInv, ChainRight
    PROVE  /\ Chain \in Seq(Node) /\ Len(Chain) \in Nat /\ Len(Chain) > 0
           /\ Chain[1] = head
           /\ Len(Chain) > 1 => Chain[2] = next[head]
           /\ next[head] # None <=> Len(Chain) > 1
           /\ next[head] = None <=> Len(Chain) = 1
<1>1. Chain \in Seq(Node) /\ Len(Chain) \in Nat /\ head \in Node
  BY DEF ChainRight, IsList, MSInv, MSTypeOK
<1>2. Len(Chain) > 0 /\ Chain[1] = head
  BY <1>1, NoneIsNoAddress DEF ChainRight, IsList
<1>3. Len(Chain) > 1 => next[Chain[1]] = Chain[2] /\ Chain[2] \in Node
  BY <1>1 DEF ChainRight, IsList
<1>4. Len(Chain) = 1 => next[Chain[1]] = None
  BY <1>1, <1>2 DEF ChainRight, IsList
<1>5. Len(Chain) = 1 \/ Len(Chain) > 1
  <2>1. PICK k \in Nat : k = Len(Chain)
    BY <1>1
  <2>2. k > 0 => k = 1 \/ k > 1
    OBVIOUS
  <2> QED
    BY <1>2, <2>1, <2>2
<1> QED
  BY ONLY <1>1, <1>2, <1>3, <1>4, <1>5, NoneIsNoAddress

LEMMA QueueFacts ==
    ASSUME NEW c \in Seq(Node), Len(c) > 0, NEW d \in [Node -> Value \union {Empty}]
    PROVE  /\ Values(c, d) \in Seq(Value \union {Empty}) /\ Values(c, d) # << >>
           /\ Tail(Values(c, d)) = << >> <=> Len(c) = 1
<1> DEFINE v == Values(c, d)
<1>1. v \in Seq(Value \union {Empty}) /\ Len(v) = Len(c) /\ v # << >> /\ Len(c) \in Nat
  BY ValuesFacts
<1> HIDE DEF v
<1>2. Tail(v) \in Seq(Value \union {Empty}) /\ Len(Tail(v)) = Len(c) - 1
  BY <1>1, HeadTailProperties
<1>3. Tail(v) = << >> <=> Len(Tail(v)) = 0
  BY <1>2, EmptySeq
<1>4. Tail(v) = << >> <=> Len(c) = 1
  <2>1. PICK k \in Nat : k = Len(c)
    BY <1>1
  <2>2. k - 1 = 0 <=> k = 1
    OBVIOUS
  <2> QED
    BY <1>2, <1>3, <2>1, <2>2
<1> QED
  BY <1>1, <1>4 DEF v

LEMMA MSQueueInit == MSInit => MSQueueInv /\ Queue = << >> /\ Dequeuing = {}
<1> SUFFICES ASSUME MSInit PROVE MSQueueInv /\ Queue = << >> /\ Dequeuing = {}
  OBVIOUS
<1>1. MSInv /\ head \in Node /\ next[head] = None /\ \A t \in Thread : pc[t] = "idle"
  BY MSInvInit DEF MSInit, MSInv, MSTypeOK
<1>2. Listed = {head}
  BY <1>1 DEF MSInit, GPInit, Listed, InList, Fresh, Leaving
<1>3. IsList(<<head>>, head, next, Listed)
  BY <1>1, <1>2 DEF IsList
<1>4. Chain = <<head>>
  BY <1>3, WalkFindsList DEF Chain
<1>5. ChainRight /\ Len(Chain) = 1
  BY <1>3, <1>4 DEF ChainRight
<1>6. Queue = << >>
  <2>1. /\ Chain \in Seq(Node) /\ Len(Chain) > 0 /\ Len(Chain) = 1
        /\ data \in [Node -> Value \union {Empty}]
    BY <1>1, <1>5, ChainFacts DEF MSInv, MSTypeOK
  <2> QED
    BY <2>1, QueueFacts DEF Queue
<1>7. Dequeuing = {} /\ DataRight /\ EmptySeen
  BY <1>1 DEF MSInit, Dequeuing, DequeueLabels, DataRight, EmptySeen, Fresh
<1> QED
  BY <1>1, <1>5, <1>6, <1>7 DEF MSQueueInv

LEMMA SameQueue ==
    ASSUME MSInv, ChainRight, SameList
    PROVE  ChainRight' /\ Chain' = Chain /\ Queue' = Queue
<1>1. IsList(Chain, head', next', Listed')
  BY SameNodes DEF ChainRight, SameList
<1>2. Chain' = Chain
  BY <1>1, WalkFindsList DEF Chain
<1>3. ChainRight'
  BY <1>1, <1>2 DEF ChainRight
<1>4. \A i \in 1..Len(Chain) : data[Chain[i]] = data'[Chain[i]]
  BY DEF ChainRight, IsList, SameList
<1>5. Values(Chain, data) = Values(Chain, data')
  BY <1>4, SameValues
<1> QED
  BY <1>2, <1>3, <1>5 DEF Queue

\* The exchange of next appends the new node.
LEMMA LinkAppends ==
    ASSUME MSInv, ChainRight, NEW t \in Thread, EnqLink(t), sawEmpty' \in SUBSET Thread
    PROVE  /\ ChainRight' /\ Len(Chain') > 1
           /\ Queue' = Append(Queue, data[new_node[t]])
<1>0. /\ cur_tail[t] \in Listed /\ next[cur_tail[t]] = None
      /\ new_node[t] \in Node /\ new_node[t] \notin Listed
      /\ Listed' = Listed \union {new_node[t]}
      /\ \A n \in Listed : n # cur_tail[t] => next'[n] = next[n]
      /\ next'[cur_tail[t]] = new_node[t] /\ next'[new_node[t]] = None
      /\ head' = head /\ data' = data
  BY EnqLinkStep DEF EnqLink
<1>1. PICK end \in Listed, new \in Node :
         /\ end = cur_tail[t] /\ next[end] = None
         /\ new = new_node[t] /\ new \notin Listed
         /\ Listed' = Listed \union {new}
         /\ \A n \in Listed : n # end => next'[n] = next[n]
         /\ next'[end] = new /\ next'[new] = None
         /\ head' = head /\ data' = data
  BY <1>0
<1>2. /\ Chain \in Seq(Node) /\ Len(Chain) \in Nat /\ Len(Chain) > 0
      /\ data \in [Node -> Value \union {Empty}]
  BY ChainFacts DEF MSInv, MSTypeOK
<1>3. IsList(Append(Chain, new), head', next', Listed')
  BY <1>1, ListAppend DEF ChainRight
<1>4. Chain' = Append(Chain, new)
  BY <1>3, WalkFindsList DEF Chain
<1>5. ChainRight' /\ Len(Chain') > 1
  BY <1>2, <1>3, <1>4 DEF ChainRight
<1>6. Values(Chain', data') = Append(Values(Chain, data), data[new])
  <2>1. Values(Append(Chain, new), data) = Append(Values(Chain, data), data[new])
    BY <1>2, ValuesAppend
  <2> QED
    BY <1>1, <1>4, <2>1
<1>7. Queue' = Append(Queue, data[new])
  <2>1. Values(Chain, data) \in Seq(Value \union {Empty}) /\ Values(Chain, data) # << >>
    BY <1>2, QueueFacts
  <2> QED
    BY <1>6, <2>1, HeadTailAppend DEF Queue
<1> QED
  BY <1>1, <1>5, <1>7

\* The exchange of head_ removes the oldest value.
LEMMA UnlinkTakes ==
    ASSUME MSInv, ChainRight, NEW t \in Thread, DeqCAS(t), sawEmpty' \in SUBSET Thread
    PROVE  /\ ChainRight'
           /\ Queue # << >> /\ Queue' = Tail(Queue) /\ Head(Queue) = data[next[head]]
<1>1. /\ next[head] # None /\ head' = next[head]
      /\ Listed' = Listed \ {head} /\ next' = next /\ data' = data
  BY DeqCASStep
<1>2. /\ Chain \in Seq(Node) /\ Len(Chain) > 1 /\ Len(Chain) > 0 /\ Len(Chain) \in Nat
      /\ Chain[2] = next[head] /\ head # None
      /\ data \in [Node -> Value \union {Empty}]
  BY <1>1, ChainFacts, NoneIsNoAddress DEF MSInv, MSTypeOK
<1>3. IsList(Tail(Chain), head', next', Listed')
  BY <1>1, <1>2, ListTail DEF ChainRight
<1>4. Chain' = Tail(Chain)
  BY <1>3, WalkFindsList DEF Chain
<1>5. ChainRight'
  BY <1>3, <1>4 DEF ChainRight
<1>6. Values(Tail(Chain), data) = Queue
  BY <1>2, ValuesTail DEF Queue
<1>7. Queue' = Tail(Queue)
  BY <1>1, <1>4, <1>6 DEF Queue
<1>8. Queue # << >> /\ Head(Queue) = data[Chain[2]]
  <2>1. Tail(Chain) \in Seq(Node) /\ Len(Tail(Chain)) > 0 /\ Tail(Chain)[1] = Chain[2]
    BY <1>2
  <2>2. /\ Values(Tail(Chain), data) # << >>
        /\ Head(Values(Tail(Chain), data)) = data[Tail(Chain)[1]]
    BY <1>2, <2>1, ValuesTail
  <2> QED
    BY <1>6, <2>1, <2>2
<1> QED
  BY <1>2, <1>5, <1>7, <1>8

\* What dequeue() copies and what it concludes from an empty list stay right.
LEMMA DataRightStep ==
    ASSUME MSInv, MSInv', DataRight, MSNext PROVE DataRight'
<1>1. ASSUME NEW t \in Thread, NEW n \in Node, Fresh(t, n)' PROVE data'[n] \in Value
  <2>1. CASE \E v \in Value : EnqAlloc(t, v, n)
    BY <2>1 DEF EnqAlloc, MSInv, MSTypeOK
  <2>2. CASE Fresh(t, n)
    <3>1. n \notin free /\ data[n] \in Value
      BY <2>2 DEF MSInv, OneHolder, DataRight
    <3>2. data'[n] = data[n]
      BY <3>1 DEF MSInv, MSTypeOK, MSNext, SeeEmpty, CodeNext, EnqStep, DeqStep, Unpin,
                  Delete, Terminated,
                  codeVars, listVars, localVars, EnqAlloc, Pin, EnqTail, EnqNext, EnqCheck,
                  EnqLink, EnqLinkFail, EnqSwing, EnqHelp, SwingTail, DeqCall, DeqHead,
                  DeqTail, DeqNext, DeqCheck, DeqEmpty, DeqHelp, DeqRead, DeqCAS, DeqCASFail,
                  DeqRetire
    <3> QED
      BY <3>1, <3>2
  <2>3. Fresh(t, n) \/ \E v \in Value : EnqAlloc(t, v, n)
    BY <1>1
       DEF Fresh, MSInv, MSTypeOK, MSNext, SeeEmpty, CodeNext, EnqStep, DeqStep, Unpin,
           Delete, Terminated,
           codeVars, listVars, localVars, EnqAlloc, Pin, EnqTail, EnqNext, EnqCheck,
           EnqLink, EnqLinkFail, EnqSwing, EnqHelp, SwingTail, DeqCall, DeqHead,
           DeqTail, DeqNext, DeqCheck, DeqEmpty, DeqHelp, DeqRead, DeqCAS, DeqCASFail,
           DeqRetire, Call, Goto
  <2> QED
    BY <2>1, <2>2, <2>3
<1>2. ASSUME NEW t \in Thread, pc'[t] = "deq_cas", cur_head'[t] = head'
      PROVE  value'[t] = data'[next'[head']]
  <2>1. CASE DeqRead(t)
    <3>1. nxt[t] = next[cur_head[t]] /\ UNCHANGED <<head, next, data, cur_head, nxt>>
      BY <2>1 DEF DeqRead, Goto, MSInv, DequeuersBehind, listVars
    <3>2. value'[t] = data[nxt[t]]
      BY <2>1 DEF DeqRead, MSInv, MSTypeOK
    <3> QED
      BY <1>2, <3>1, <3>2
  <2>2. CASE ~DeqRead(t)
    <3>1. pc[t] = "deq_cas" /\ cur_head'[t] = cur_head[t] /\ value'[t] = value[t]
      BY <1>2, <2>2
         DEF MSInv, MSTypeOK, MSNext, SeeEmpty, CodeNext, EnqStep, DeqStep, Unpin,
             Delete, Terminated,
             codeVars, listVars, localVars, EnqAlloc, Pin, EnqTail, EnqNext, EnqCheck,
             EnqLink, EnqLinkFail, EnqSwing, EnqHelp, SwingTail, DeqCall, DeqHead,
             DeqTail, DeqNext, DeqCheck, DeqEmpty, DeqHelp, DeqRead, DeqCAS, DeqCASFail,
             DeqRetire, Call, Goto
    <3>2. CASE \E u \in Thread : DeqCAS(u)
      <4>1. head' = next[head] /\ InList(next[head]) /\ next[head] # head
        BY <3>2 DEF DeqCAS, Goto, MSInv, DequeuersBehind, ListShape, InList
      <4> QED
        BY <1>2, <3>1, <4>1 DEF MSInv, DequeuersBehind, DequeueLabels
    <3>3. CASE \E u \in Thread : EnqLink(u)
      <4>1. PICK u \in Thread : EnqLink(u)
        BY <3>3
      <4>2. head' = head /\ next[head] # None /\ next[cur_tail[u]] = None /\ data' = data
        <5>1. head' = head /\ next[cur_tail[u]] = None /\ data' = data
          BY <4>1 DEF EnqLink
        <5>2. next[cur_head[t]] # None
          BY <3>1 DEF MSInv, DequeuersBehind
        <5> QED
          BY <1>2, <3>1, <5>1, <5>2
      <4>3. next'[head] = next[head]
        BY <4>1, <4>2 DEF EnqLink, MSInv, MSTypeOK
      <4> QED
        BY <1>2, <3>1, <4>2, <4>3 DEF DataRight
    <3>4. CASE \A u \in Thread : ~EnqLink(u) /\ ~DeqCAS(u)
      <4>1. SameList /\ head \in Listed
        BY <3>4, OtherSteps DEF MSInv, ListShape, InList, Listed
      <4>2. next[cur_head[t]] # None /\ cur_head[t] = head
        BY <1>2, <3>1, <4>1 DEF MSInv, DequeuersBehind, SameList
      <4>3. next[head] \in Listed
        BY <4>1, <4>2 DEF MSInv, ListShape, InList, Listed
      <4>4. next'[head] = next[head] /\ data'[next[head]] = data[next[head]] /\ head' = head
        BY <4>1, <4>3 DEF SameList
      <4> QED
        BY <3>1, <4>2, <4>4 DEF DataRight
    <3> QED
      BY <3>2, <3>3, <3>4
  <2> QED
    BY <2>1, <2>2
<1> QED
  BY <1>1, <1>2 DEF DataRight

LEMMA EmptySeenStep ==
    ASSUME MSInv, ChainRight, EmptySeen, MSNext PROVE EmptySeen'
<1>1. sawEmpty' = {t \in Dequeuing' : t \in sawEmpty \/ Len(Chain') = 1}
  BY DEF MSNext, SeeEmpty
<1>2. ASSUME NEW t \in Thread, pc'[t] = "deq_check", nxt'[t] = None PROVE t \in sawEmpty'
  <2>1. t \in Dequeuing'
    BY <1>2 DEF Dequeuing, DequeueLabels
  <2>2. CASE DeqNext(t)
    <3>1. pc[t] = "deq_next" /\ next[cur_head[t]] = None /\ Protected(t, cur_head[t])
      BY <1>2, <2>2 DEF DeqNext, Goto, MSInv, MSTypeOK, Locals
    <3>2. InList(cur_head[t])
      BY <3>1 DEF Protected, InList, MSInv, ListShape
    <3>3. next[head] = None
      BY <3>1, <3>2 DEF MSInv, DequeuersBehind, DequeueLabels
    <3>4. Len(Chain) = 1
      BY <3>3, ChainFacts
    <3>5. \A u \in Thread : ~EnqLink(u) /\ ~DeqCAS(u)
      BY <2>2 DEF DeqNext, EnqLink, DeqCAS, Goto, MSInv, MSTypeOK
    <3> QED
      BY <1>1, <2>1, <3>4, <3>5, OtherSteps, SameQueue
  <2>3. CASE ~DeqNext(t)
    <3>1. pc[t] = "deq_check" /\ nxt[t] = None
      BY <1>2, <2>3
         DEF MSInv, MSTypeOK, MSNext, SeeEmpty, CodeNext, EnqStep, DeqStep, Unpin,
             Delete, Terminated,
             codeVars, listVars, localVars, EnqAlloc, Pin, EnqTail, EnqNext, EnqCheck,
             EnqLink, EnqLinkFail, EnqSwing, EnqHelp, SwingTail, DeqCall, DeqHead,
             DeqTail, DeqNext, DeqCheck, DeqEmpty, DeqHelp, DeqRead, DeqCAS, DeqCASFail,
             DeqRetire, Call, Goto
    <3> QED
      BY <1>1, <2>1, <3>1 DEF EmptySeen
  <2> QED
    BY <2>2, <2>3
<1> QED
  BY <1>1, <1>2 DEF EmptySeen

LEMMA MSQueueStep == MSQueueInv /\ [MSNext]_msVars => MSQueueInv'
<1> SUFFICES ASSUME MSQueueInv, [MSNext]_msVars PROVE MSQueueInv'
  OBVIOUS
<1>1. CASE UNCHANGED msVars
  BY <1>1, MSInvStep
     DEF MSQueueInv, ChainRight, Chain, DataRight, EmptySeen, Dequeuing, Listed, InList,
         Fresh, Leaving, msVars, codeVars, listVars, localVars, gpVars
<1>2. CASE MSNext
  <2>1. MSInv' /\ sawEmpty' \in SUBSET Thread
    BY <1>2, MSInvStep DEF MSQueueInv, MSInv, MSTypeOK
  <2>2. ChainRight'
    <3>1. CASE \A t \in Thread : ~EnqLink(t) /\ ~DeqCAS(t)
      BY <1>2, <3>1, OtherSteps, SameQueue DEF MSQueueInv
    <3> QED
      BY <2>1, <3>1, LinkAppends, UnlinkTakes DEF MSQueueInv
  <2> QED
    BY <1>2, <2>1, <2>2, DataRightStep, EmptySeenStep DEF MSQueueInv
<1> QED
  BY <1>1, <1>2

LEMMA MSQueueInvCorrect == MSSpec => []MSQueueInv
BY MSQueueInit, MSQueueStep, PTL DEF MSSpec

\* The variables keep their types and the list its shape: tail_ is never behind
\* head_ and at most one node from the end, and the list has no cycle.
THEOREM MSConsistentCorrect == MSSpec => []MSConsistent
<1>1. MSQueueInv => MSConsistent
  <2> SUFFICES ASSUME MSQueueInv PROVE MSConsistent
    OBVIOUS
  <2>1. Linked = Listed /\ Cardinality(Listed) = Len(Chain)
    BY ListCounts DEF Linked, MSQueueInv, ChainRight
  <2> QED
    BY <2>1 DEF MSConsistent, TailInList, MSQueueInv, MSInv, TailNearEnd, InList, Listed
<1> QED
  BY <1>1, MSQueueInvCorrect, PTL

-----------------------------------------------------------------------------
(* Every step is a step of the abstract queue, or none *)

LEMMA AbsStep ==
    ASSUME MSQueueInv, MSQueueInv', MSNext PROVE [Abs!AQNext]_(Abs!aqVars)
<1> DEFINE Look == sawEmpty' = {t \in Dequeuing' : t \in sawEmpty \/ Queue' = << >>}
<1>1. Look
  <2>1. sawEmpty' = {t \in Dequeuing' : t \in sawEmpty \/ Len(Chain') = 1}
    BY DEF MSNext, SeeEmpty
  <2>3. Queue' = << >> <=> Len(Chain') = 1
    <3>1. MSInv' /\ ChainRight' /\ head' \in Node
      BY DEF MSQueueInv, MSInv, MSTypeOK
    <3>2. Chain' \in Seq(Node) /\ Len(Chain') \in Nat /\ Len(Chain') > 0
      BY <3>1, NoneIsNoAddress DEF ChainRight, IsList
    <3>3. data' \in [Node -> Value \union {Empty}]
      BY <3>1 DEF MSInv, MSTypeOK
    <3> QED
      BY <3>2, <3>3, QueueFacts DEF Queue
  <2> QED
    BY <2>1, <2>3
<1>2. MSInv /\ ChainRight /\ sawEmpty' \in SUBSET Thread
  BY DEF MSQueueInv, MSInv, MSTypeOK
<1>3. ASSUME NEW t \in Thread, EnqLink(t) PROVE Abs!AQNext
  <2>1. Queue' = Append(Queue, data[new_node[t]]) /\ data[new_node[t]] \in Value
    BY <1>2, <1>3, LinkAppends DEF EnqLink, Goto, MSQueueInv, DataRight, Fresh, MSInv, Locals
  <2>2. Dequeuing' = Dequeuing /\ result' = result
    BY <1>2, <1>3 DEF EnqLink, Goto, Dequeuing, DequeueLabels, MSInv, MSTypeOK, localVars
  <2> QED
    BY <1>1, <2>1, <2>2 DEF Abs!AQNext, Abs!AQEnqueue, Abs!Look
<1>4. ASSUME NEW t \in Thread, DeqCAS(t) PROVE Abs!AQNext
  <2>1. Queue # << >> /\ Queue' = Tail(Queue) /\ Head(Queue) = data[next[head]]
    BY <1>2, <1>4, UnlinkTakes
  <2>2. result' = [result EXCEPT ![t] = Head(Queue)]
    BY <1>4, <2>1 DEF DeqCAS, Goto, MSQueueInv, DataRight
  <2>3. t \in Dequeuing /\ Dequeuing' = Dequeuing \ {t}
    BY <1>2, <1>4 DEF DeqCAS, Goto, Dequeuing, DequeueLabels, MSInv, MSTypeOK
  <2> QED
    BY <1>1, <2>1, <2>2, <2>3 DEF Abs!AQNext, Abs!AQDequeue, Abs!Look
<1>5. ASSUME \A t \in Thread : ~EnqLink(t) /\ ~DeqCAS(t) PROVE [Abs!AQNext]_(Abs!aqVars)
  <2>1. Queue' = Queue /\ Chain' = Chain
    BY <1>2, <1>5, OtherSteps, SameQueue
  <2>2. ASSUME NEW t \in Thread, DeqEmpty(t) PROVE Abs!AQNext
    <3>1. t \in sawEmpty
      BY <2>2 DEF DeqEmpty, Goto, MSQueueInv, EmptySeen
    <3>2. Dequeuing' = Dequeuing \ {t} /\ result' = [result EXCEPT ![t] = Empty]
      BY <1>2, <2>2 DEF DeqEmpty, Goto, Dequeuing, DequeueLabels, MSInv, MSTypeOK
    <3> QED
      BY <1>1, <2>1, <3>1, <3>2 DEF Abs!AQNext, Abs!AQDequeueEmpty, Abs!Look
  <2>3. ASSUME NEW t \in Thread, Pin(t, "deq_pin", "deq_head") PROVE Abs!AQNext
    <3>1. t \notin Dequeuing /\ Dequeuing' = Dequeuing \union {t} /\ result' = result
      BY <1>2, <2>3 DEF Pin, Goto, Dequeuing, DequeueLabels, MSInv, MSTypeOK, localVars
    <3> QED
      BY <1>1, <2>1, <3>1 DEF Abs!AQNext, Abs!AQBegin, Abs!Look
  <2>4. ASSUME \A t \in Thread : ~DeqEmpty(t) /\ ~Pin(t, "deq_pin", "deq_head")
        PROVE  UNCHANGED <<Queue, Dequeuing, sawEmpty, result>>
    <3>1. Dequeuing' = Dequeuing /\ result' = result
      BY <1>2, <1>5, <2>4
         DEF MSInv, MSTypeOK, MSNext, SeeEmpty, CodeNext, EnqStep, DeqStep, Unpin,
             Delete, Terminated,
             codeVars, listVars, localVars, EnqAlloc, Pin, EnqTail, EnqNext, EnqCheck,
             EnqLinkFail, EnqSwing, EnqHelp, SwingTail, DeqCall, DeqHead,
             DeqTail, DeqNext, DeqCheck, DeqHelp, DeqRead, DeqCASFail,
             DeqRetire, Call, Goto, Dequeuing, DequeueLabels
    <3>2. sawEmpty' = sawEmpty
      BY <2>1, <3>1 DEF MSNext, SeeEmpty, MSQueueInv, EmptySeen
    <3> QED
      BY <2>1, <3>1, <3>2
  <2> QED
    BY <2>2, <2>3, <2>4 DEF Abs!aqVars
<1> QED
  BY <1>3, <1>4, <1>5

\* The queue is linearizable, for any number of threads, addresses, values and
\* calls.
THEOREM LinearizableCorrect == MSSpec => Linearizable
<1>1. MSInit => Abs!AQInit
  BY MSQueueInit DEF MSInit, Abs!AQInit
<1>2. MSQueueInv /\ MSQueueInv' /\ [MSNext]_msVars => [Abs!AQNext]_(Abs!aqVars)
  <2>1. UNCHANGED msVars => UNCHANGED <<Queue, Dequeuing, sawEmpty, result>>
    BY DEF msVars, codeVars, listVars, localVars, Queue, Chain, Dequeuing
  <2> QED
    BY <2>1, AbsStep DEF Abs!aqVars
<1> QED
  BY <1>1, <1>2, MSQueueInvCorrect, PTL DEF MSSpec, Linearizable, Abs!AQSpec
=============================================================================
