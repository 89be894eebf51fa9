---------------------------- MODULE AbstractQueue ----------------------------
(***************************************************************************)
(* What a linearizable FIFO queue promises.  enqueue() and a dequeue()     *)
(* that returns a value act at one instant; a dequeue() that returns       *)
(* nothing is allowed when the queue was empty at some instant of the      *)
(* call.                                                                   *)
(***************************************************************************)
EXTENDS Sequences

CONSTANTS Thread, Value,
          Empty      \* what dequeue() returns on an empty queue: std::nullopt

VARIABLES
    queue,       \* the values, oldest first
    calling,     \* threads in a dequeue() that has not acted yet
    sawEmpty,    \* those whose call overlaps an instant when queue was empty
    ret          \* what each thread's last dequeue() returned

aqVars == <<queue, calling, sawEmpty, ret>>

AQInit ==
    /\ queue = << >>
    /\ calling = {}
    /\ sawEmpty = {}
    /\ ret = [t \in Thread |-> Empty]

\* The calls in progress see the queue that a step leaves.
Look == sawEmpty' = {t \in calling' : t \in sawEmpty \/ queue' = << >>}

AQBegin(t) ==
    /\ t \notin calling
    /\ calling' = calling \union {t}
    /\ UNCHANGED <<queue, ret>>
    /\ Look

AQEnqueue(v) ==
    /\ queue' = Append(queue, v)
    /\ UNCHANGED <<calling, ret>>
    /\ Look

AQDequeue(t) ==
    /\ t \in calling
    /\ queue # << >>
    /\ ret' = [ret EXCEPT ![t] = Head(queue)]
    /\ queue' = Tail(queue)
    /\ calling' = calling \ {t}
    /\ Look

AQDequeueEmpty(t) ==
    /\ t \in sawEmpty
    /\ ret' = [ret EXCEPT ![t] = Empty]
    /\ calling' = calling \ {t}
    /\ UNCHANGED queue
    /\ Look

AQNext ==
    \/ \E v \in Value : AQEnqueue(v)
    \/ \E t \in Thread : AQBegin(t) \/ AQDequeue(t) \/ AQDequeueEmpty(t)

AQSpec == AQInit /\ [][AQNext]_aqVars
=============================================================================
