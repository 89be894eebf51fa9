---------------------------- MODULE AbstractStack ----------------------------
(* What a linearizable LIFO stack promises: push and pop act at one instant. *)
EXTENDS Sequences

CONSTANTS Thread, Value,
          Empty     \* what pop() returns on an empty stack: std::nullopt

VARIABLES
    stack,    \* the values, top first
    ret       \* what the last pop() of each thread took

ASInit ==
    /\ stack = << >>
    /\ ret = [t \in Thread |-> Empty]

ASPush(v) ==
    /\ stack' = <<v>> \o stack
    /\ UNCHANGED ret

ASPop(t) ==
    /\ stack # << >>
    /\ ret' = [ret EXCEPT ![t] = Head(stack)]
    /\ stack' = Tail(stack)

ASPopEmpty(t) ==
    /\ stack = << >>
    /\ ret' = [ret EXCEPT ![t] = Empty]
    /\ UNCHANGED stack

ASNext ==
    \/ \E v \in Value : ASPush(v)
    \/ \E t \in Thread : ASPop(t) \/ ASPopEmpty(t)

ASSpec == ASInit /\ [][ASNext]_<<stack, ret>>
=============================================================================
