---------------------------- MODULE AbstractDeque ----------------------------
(***************************************************************************)
(* What a linearizable work-stealing deque promises.  The owner pushes and *)
(* pops at the bottom, thieves take from the top; a pop() that returns     *)
(* nothing found the deque empty, a steal() may return nothing at any time.*)
(***************************************************************************)
EXTENDS Sequences, Naturals

CONSTANTS Owner, Thief, Item,
          Empty      \* what a call that takes nothing returns: std::nullopt

VARIABLES
    deque,       \* the items, top first
    got          \* what each thread's last pop() or steal() took

ADInit ==
    /\ deque = << >>
    /\ got = [t \in Thief \union {Owner} |-> Empty]

ADPush(v) ==
    /\ deque' = Append(deque, v)
    /\ UNCHANGED got

ADPop ==
    /\ deque # << >>
    /\ got' = [got EXCEPT ![Owner] = deque[Len(deque)]]
    /\ deque' = SubSeq(deque, 1, Len(deque) - 1)

ADPopEmpty ==
    /\ deque = << >>
    /\ got' = [got EXCEPT ![Owner] = Empty]
    /\ UNCHANGED deque

ADSteal(t) ==
    /\ deque # << >>
    /\ got' = [got EXCEPT ![t] = Head(deque)]
    /\ deque' = Tail(deque)

ADStealNothing(t) ==
    /\ got' = [got EXCEPT ![t] = Empty]
    /\ UNCHANGED deque

ADNext ==
    \/ \E v \in Item : ADPush(v)
    \/ ADPop \/ ADPopEmpty
    \/ \E t \in Thief : ADSteal(t) \/ ADStealNothing(t)

ADSpec == ADInit /\ [][ADNext]_<<deque, got>>
=============================================================================
