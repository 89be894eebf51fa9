----------------------------- MODULE ChaseLevDeque -----------------------------
(***************************************************************************)
(* ChaseLevDeque of work_stealing_deques.cpp.  The owner pushes and pops   *)
(* at the bottom of a circular array that it replaces by a larger one when *)
(* it is full; thieves take from the top.  Old arrays are kept, and a slow *)
(* thief may still read one.  One action is one access to top_, bottom_,   *)
(* array_ or a slot that another thread can see.                           *)
(***************************************************************************)
EXTENDS Integers, Sequences

CONSTANTS
    Owner, Thief,       \* the threads
    NoItem,              \* std::nullopt
    Garbage,            \* an uninitialised slot
    InitialCapacity,    \* the constructor's argument
    MaxPush             \* bound: push() calls

ASSUME OwnerIsNoThief == Owner \notin Thief
ASSUME CapacityNat == InitialCapacity \in Nat
ASSUME MaxPushNat == MaxPush \in Nat

VARIABLES
    top, bottom,    \* top_ and bottom_
    array,          \* array_, as an index in arrays
    arrays,         \* the arrays made so far: capacity and slots
    pushed,         \* push() calls made; the items are numbered by them
    dpc,             \* where a thread is in push(), pop() or steal()
    t_,             \* each thread's local t
    a_,             \* a thief's local a
    item,           \* a thread's local item
    got             \* what a thread's last pop() or steal() returned

sharedVars == <<top, bottom, array, arrays>>
clLocals == <<t_, a_, item>>
clVars == <<sharedVars, pushed, dpc, clLocals, got>>

Threads == Thief \union {Owner}
Item == 1..MaxPush
Contents == Item \union {Garbage, NoItem}

CLTypeOK ==
    /\ top \in 0..MaxPush
    /\ bottom \in -1..MaxPush
    /\ array \in 1..Len(arrays)
    /\ \A k \in 1..Len(arrays) :
          /\ arrays[k].capacity \in Nat \ {0}
          /\ arrays[k].slots \in [0..(arrays[k].capacity - 1) -> Item \union {Garbage}]
    /\ pushed \in 0..MaxPush
    /\ dpc \in [Threads -> {"idle", "push_grow", "push_put", "push_bottom", "pop_top",
                           "pop_cas", "pop_restore", "steal_bottom", "steal_array",
                           "steal_get", "steal_cas"}]
    /\ t_ \in [Threads -> Nat]
    /\ a_ \in [Threads -> 1..Len(arrays)]
    /\ item \in [Threads -> Contents]
    /\ got \in [Threads -> Contents]

\* No odd divisor but 1.  For such a capacity the code's index & mask is the
\* remainder.
PowerOfTwo(c) == \A d \in 2..c : c % d = 0 => d % 2 = 0

\* The constructor rounds the capacity up to a power of two.
RoundedCapacity ==
    CHOOSE c \in 1..(2 * InitialCapacity + 1) :
        /\ PowerOfTwo(c)
        /\ c >= InitialCapacity
        /\ c = 1 \/ c \div 2 < InitialCapacity

NewArray(capacity) ==
    [capacity |-> capacity, slots |-> [i \in 0..(capacity - 1) |-> Garbage]]

Get(a, index) == a.slots[index % a.capacity]

Put(a, index, v) == [a EXCEPT !.slots[index % a.capacity] = v]

\* grow(): the items from t to b - 1 move to an array of twice the capacity.
Grow(a, t, b) ==
    LET c == 2 * a.capacity
        home(i) == {k \in t..(b - 1) : k % c = i}
    IN  [capacity |-> c,
         slots |-> [i \in 0..(c - 1) |->
            IF home(i) = {} THEN Garbage ELSE Get(a, CHOOSE k \in home(i) : TRUE)]]

CLInit ==
    /\ top = 0
    /\ bottom = 0
    /\ array = 1
    /\ arrays = <<NewArray(RoundedCapacity)>>
    /\ pushed = 0
    /\ dpc = [t \in Threads |-> "idle"]
    /\ t_ = [t \in Threads |-> 0]
    /\ a_ = [t \in Threads |-> 1]
    /\ item = [t \in Threads |-> NoItem]
    /\ got = [t \in Threads |-> NoItem]

\* A call is over: its locals are dead.
Forget(t) ==
    /\ t_' = [t_ EXCEPT ![t] = 0]
    /\ a_' = [a_ EXCEPT ![t] = 1]
    /\ item' = [item EXCEPT ![t] = NoItem]

CLGoto(t, from, to) == dpc[t] = from /\ dpc' = [dpc EXCEPT ![t] = to]

-----------------------------------------------------------------------------
(* push(), by the owner.  bottom_ and array_ are its own: only the load of *)
(* top_ can be overtaken.                                                  *)

\* Mutant: the deque is found full one item too late.
PushLoadLate ==
    /\ pushed < MaxPush
    /\ pushed' = pushed + 1
    /\ t_' = [t_ EXCEPT ![Owner] = top]
    /\ item' = [item EXCEPT ![Owner] = pushed + 1]
    /\ IF bottom - top > arrays[array].capacity
         THEN CLGoto(Owner, "idle", "push_grow")
         ELSE CLGoto(Owner, "idle", "push_put")
    /\ UNCHANGED <<sharedVars, a_, got>>

PushLoad ==
    /\ pushed < MaxPush
    /\ pushed' = pushed + 1
    /\ t_' = [t_ EXCEPT ![Owner] = top]
    /\ item' = [item EXCEPT ![Owner] = pushed + 1]
    /\ IF bottom - top >= arrays[array].capacity
         THEN CLGoto(Owner, "idle", "push_grow")
         ELSE CLGoto(Owner, "idle", "push_put")
    /\ UNCHANGED <<sharedVars, a_, got>>

PushGrow ==
    /\ CLGoto(Owner, "push_grow", "push_put")
    /\ arrays' = Append(arrays, Grow(arrays[array], t_[Owner], bottom))
    /\ array' = Len(arrays')
    /\ UNCHANGED <<top, bottom, pushed, clLocals, got>>

PushPut ==
    /\ CLGoto(Owner, "push_put", "push_bottom")
    /\ arrays' = [arrays EXCEPT ![array] = Put(@, bottom, item[Owner])]
    /\ UNCHANGED <<top, bottom, array, pushed, clLocals, got>>

PushBottom ==
    /\ CLGoto(Owner, "push_bottom", "idle")
    /\ bottom' = bottom + 1
    /\ Forget(Owner)
    /\ UNCHANGED <<top, array, arrays, pushed, got>>

-----------------------------------------------------------------------------
(* pop(), by the owner *)

PopBottom ==
    /\ CLGoto(Owner, "idle", "pop_top")
    /\ bottom' = bottom - 1
    /\ UNCHANGED <<top, array, arrays, pushed, clLocals, got>>

\* The load of top_: more than one item, none, or the last one.
PopTop ==
    /\ \/ /\ top < bottom
          /\ CLGoto(Owner, "pop_top", "idle")
          /\ got' = [got EXCEPT ![Owner] = Get(arrays[array], bottom)]
          /\ UNCHANGED <<t_, item>>
       \/ /\ top > bottom
          /\ CLGoto(Owner, "pop_top", "pop_restore")
          /\ t_' = [t_ EXCEPT ![Owner] = top]
          /\ got' = [got EXCEPT ![Owner] = NoItem]
          /\ UNCHANGED item
       \/ /\ top = bottom
          /\ CLGoto(Owner, "pop_top", "pop_cas")
          /\ t_' = [t_ EXCEPT ![Owner] = top]
          /\ item' = [item EXCEPT ![Owner] = Get(arrays[array], bottom)]
          /\ UNCHANGED got
    /\ UNCHANGED <<sharedVars, pushed, a_>>

\* Mutant: the owner takes the last item without competing for it.
PopLastUncontended ==
    /\ CLGoto(Owner, "pop_cas", "pop_restore")
    /\ top' = t_[Owner] + 1
    /\ got' = [got EXCEPT ![Owner] = item[Owner]]
    /\ t_' = [t_ EXCEPT ![Owner] = @ + 1]
    /\ UNCHANGED <<bottom, array, arrays, pushed, a_, item>>

\* The exchange that decides who gets the last item.
PopLast ==
    /\ CLGoto(Owner, "pop_cas", "pop_restore")
    /\ IF top = t_[Owner]
         THEN /\ top' = top + 1
              /\ got' = [got EXCEPT ![Owner] = item[Owner]]
         ELSE /\ got' = [got EXCEPT ![Owner] = NoItem]
              /\ UNCHANGED top
    /\ t_' = [t_ EXCEPT ![Owner] = @ + 1]
    /\ UNCHANGED <<bottom, array, arrays, pushed, a_, item>>

PopRestore ==
    /\ CLGoto(Owner, "pop_restore", "idle")
    /\ bottom' = t_[Owner]
    /\ Forget(Owner)
    /\ UNCHANGED <<top, array, arrays, pushed, got>>

-----------------------------------------------------------------------------
(* steal() *)

StealTop(t) ==
    /\ CLGoto(t, "idle", "steal_bottom")
    /\ t_' = [t_ EXCEPT ![t] = top]
    /\ UNCHANGED <<sharedVars, pushed, a_, item, got>>

StealBottom(t) ==
    /\ IF t_[t] < bottom
         THEN /\ CLGoto(t, "steal_bottom", "steal_array")
              /\ UNCHANGED <<clLocals, got>>
         ELSE /\ CLGoto(t, "steal_bottom", "idle")
              /\ got' = [got EXCEPT ![t] = NoItem]
              /\ Forget(t)
    /\ UNCHANGED <<sharedVars, pushed>>

StealArray(t) ==
    /\ CLGoto(t, "steal_array", "steal_get")
    /\ a_' = [a_ EXCEPT ![t] = array]
    /\ UNCHANGED <<sharedVars, pushed, t_, item, got>>

StealGet(t) ==
    /\ CLGoto(t, "steal_get", "steal_cas")
    /\ item' = [item EXCEPT ![t] = Get(arrays[a_[t]], t_[t])]
    /\ UNCHANGED <<sharedVars, pushed, t_, a_, got>>

StealCAS(t) ==
    /\ CLGoto(t, "steal_cas", "idle")
    /\ top = t_[t]
    /\ top' = top + 1
    /\ got' = [got EXCEPT ![t] = item[t]]
    /\ Forget(t)
    /\ UNCHANGED <<bottom, array, arrays, pushed>>

\* The exchange fails, perhaps spuriously.
StealFail(t) ==
    /\ CLGoto(t, "steal_cas", "idle")
    /\ got' = [got EXCEPT ![t] = NoItem]
    /\ Forget(t)
    /\ UNCHANGED <<sharedVars, pushed>>

OwnerStep ==
    \/ PushLoad \/ PushGrow \/ PushPut \/ PushBottom
    \/ PopBottom \/ PopTop \/ PopLast \/ PopRestore

StealStep(t) ==
    \/ StealTop(t) \/ StealBottom(t) \/ StealArray(t) \/ StealGet(t)
    \/ StealCAS(t) \/ StealFail(t)

CLNext == OwnerStep \/ \E t \in Thief : StealStep(t)

CLSpec == CLInit /\ [][CLNext]_clVars

-----------------------------------------------------------------------------
(* Properties *)

\* An item that pop() has not yet lost or won at its look at top_ still
\* counts: the items are those from top_ to the end that thieves compete for.
End == IF dpc[Owner] \in {"pop_top", "pop_cas"} THEN bottom + 1 ELSE bottom

Live == top..(End - 1)

\* Two live items never share a slot, however far top_ has moved since
\* push() compared it with the capacity.
FitsArray == End - top <= arrays[array].capacity

\* A thief whose exchange is going to succeed has read the item at the top,
\* also when it read it in an array that has been replaced since.
NoStaleSteal ==
    \A t \in Thief :
        (dpc[t] = "steal_cas" /\ top = t_[t] /\ Live # {})
            => item[t] = Get(arrays[array], top)

\* bottom_ lies behind top_ only while pop() is looking or putting it right.
BottomRestored ==
    dpc[Owner] \notin {"pop_top", "pop_restore", "pop_cas"} => top <= bottom

\* The deque is linearizable: each item is taken exactly once, by the owner
\* from the bottom or by a thief from the top.
CLAbs == INSTANCE AbstractDeque
         WITH Empty <- NoItem,
              deque <- [i \in 1..(IF End > top THEN End - top ELSE 0) |->
                            Get(arrays[array], top + i - 1)]

DequeLinearizable == CLAbs!ADSpec
=============================================================================
