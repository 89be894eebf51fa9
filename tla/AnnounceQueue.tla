----------------------------- MODULE AnnounceQueue -----------------------------
(***************************************************************************)
(* WaitFreeAnnounceQueue of lock_free_and_wait_free_basics.cpp.            *)
(* execute_op() tries a few times to add its value to the head of the log  *)
(* by itself, then announces its operation and helps all that are          *)
(* announced.  The announced Operation is a local of execute_op(): a       *)
(* pointer to it is a pointer into its owner's frame, which each call of   *)
(* that thread uses again and which holds anything between the calls.      *)
(* Every operation adds 1, as in the test harness.                         *)
(***************************************************************************)
EXTENDS Naturals, FiniteSets

CONSTANTS
    N,                   \* the slots of the announcement table
    FAST_PATH_RETRIES,   \* 4 in the code
    MaxCalls             \* bound: execute_op() calls of each thread

ASSUME AQSizes == N \in Nat \ {0} /\ FAST_PATH_RETRIES \in Nat \ {0}
ASSUME MaxCallsNat == MaxCalls \in Nat

Thread == 1..N
Null == 0

VARIABLES
    global_log_head,
    announce_table,   \* whose frame each slot points to, or Null
    completed,        \* my_op.completed in each thread's frame
    apc, cur, tries,   \* where a thread is, and the locals of the fast path
    i, op,            \* the locals of help_all()
    calls,            \* execute_op() calls made
    applied           \* history: how often the current call's value was added

localVars == <<cur, tries, i, op>>
aqVars == <<global_log_head, announce_table, completed, apc, localVars, calls, applied>>

Slow == {"help", "check", "apply", "complete", "retract"}

AQTypeOK ==
    /\ global_log_head \in Nat
    /\ announce_table \in [Thread -> Thread \union {Null}]
    /\ completed \in [Thread -> BOOLEAN]
    /\ apc \in [Thread -> {"idle", "load", "cas", "announce"} \union Slow]
    /\ cur \in [Thread -> Nat]
    /\ tries \in [Thread -> 0..(FAST_PATH_RETRIES - 1)]
    /\ i \in [Thread -> 1..(N + 1)]
    /\ op \in [Thread -> Thread \union {Null}]
    /\ calls \in [Thread -> 0..MaxCalls]
    /\ applied \in [Thread -> Nat]

AQInit ==
    /\ global_log_head = 0
    /\ announce_table = [t \in Thread |-> Null]
    /\ completed = [t \in Thread |-> FALSE]
    /\ apc = [t \in Thread |-> "idle"]
    /\ cur = [t \in Thread |-> 0]
    /\ tries = [t \in Thread |-> 0]
    /\ i = [t \in Thread |-> 1]
    /\ op = [t \in Thread |-> Null]
    /\ calls = [t \in Thread |-> 0]
    /\ applied = [t \in Thread |-> 0]

AQGoto(t, from, to) == apc[t] = from /\ apc' = [apc EXCEPT ![t] = to]

\* my_op of thread u exists.
Alive(u) == apc[u] \in Slow

-----------------------------------------------------------------------------
(* The fast path *)

Call(t) ==
    /\ AQGoto(t, "idle", "load")
    /\ calls[t] < MaxCalls
    /\ calls' = [calls EXCEPT ![t] = @ + 1]
    /\ tries' = [tries EXCEPT ![t] = 0]
    /\ applied' = [applied EXCEPT ![t] = 0]
    /\ UNCHANGED <<global_log_head, announce_table, completed, cur, i, op>>

FastLoad(t) ==
    /\ AQGoto(t, "load", "cas")
    /\ cur' = [cur EXCEPT ![t] = global_log_head]
    /\ UNCHANGED <<global_log_head, announce_table, completed, tries, i, op, calls, applied>>

FastCAS(t) ==
    /\ AQGoto(t, "cas", "idle")
    /\ global_log_head = cur[t]
    /\ global_log_head' = cur[t] + 1
    /\ applied' = [applied EXCEPT ![t] = @ + 1]
    /\ UNCHANGED <<announce_table, completed, localVars, calls>>

\* The weak exchange fails, perhaps spuriously.
FastFail(t) ==
    /\ IF tries[t] + 1 < FAST_PATH_RETRIES
         THEN /\ AQGoto(t, "cas", "load")
              /\ tries' = [tries EXCEPT ![t] = @ + 1]
         ELSE AQGoto(t, "cas", "announce") /\ UNCHANGED tries
    /\ UNCHANGED <<global_log_head, announce_table, completed, cur, i, op, calls, applied>>

-----------------------------------------------------------------------------
(* The slow path *)

Announce(t) ==
    /\ AQGoto(t, "announce", "help")
    /\ completed' = [completed EXCEPT ![t] = FALSE]
    /\ announce_table' = [announce_table EXCEPT ![t] = t]
    /\ i' = [i EXCEPT ![t] = 1]
    /\ UNCHANGED <<global_log_head, cur, tries, op, calls, applied>>

HelpLoad(t) ==
    /\ apc[t] = "help"
    /\ i[t] <= N
    /\ op' = [op EXCEPT ![t] = announce_table[i[t]]]
    /\ IF announce_table[i[t]] = Null
         THEN i' = [i EXCEPT ![t] = @ + 1] /\ UNCHANGED apc
         ELSE apc' = [apc EXCEPT ![t] = "check"] /\ UNCHANGED i
    /\ UNCHANGED <<global_log_head, announce_table, completed, cur, tries, calls, applied>>

\* pending and completed are read; of an operation that is over, anything.
HelpCheck(t) ==
    /\ apc[t] = "check"
    /\ \E done \in IF Alive(op[t]) THEN {completed[op[t]]} ELSE BOOLEAN :
          IF done
            THEN AQGoto(t, "check", "help") /\ i' = [i EXCEPT ![t] = @ + 1]
            ELSE AQGoto(t, "check", "apply") /\ UNCHANGED i
    /\ UNCHANGED <<global_log_head, announce_table, completed, cur, tries, op, calls, applied>>

HelpApply(t) ==
    /\ AQGoto(t, "apply", "complete")
    /\ IF Alive(op[t])
         THEN /\ global_log_head' = global_log_head + 1
              /\ applied' = [applied EXCEPT ![op[t]] = @ + 1]
         ELSE /\ \E garbage \in 0..1 : global_log_head' = global_log_head + garbage
              /\ UNCHANGED applied
    /\ UNCHANGED <<announce_table, completed, localVars, calls>>

\* The store hits the frame, whichever call it belongs to by now.
HelpComplete(t) ==
    /\ AQGoto(t, "complete", "help")
    /\ completed' = [completed EXCEPT ![op[t]] = TRUE]
    /\ i' = [i EXCEPT ![t] = @ + 1]
    /\ UNCHANGED <<global_log_head, announce_table, cur, tries, op, calls, applied>>

\* Mutant: the slot is left pointing into the frame.
RetractForgotten(t) ==
    /\ AQGoto(t, "help", "retract")
    /\ i[t] > N
    /\ UNCHANGED <<global_log_head, announce_table, completed, localVars, calls, applied>>

Retract(t) ==
    /\ AQGoto(t, "help", "retract")
    /\ i[t] > N
    /\ announce_table' = [announce_table EXCEPT ![t] = Null]
    /\ UNCHANGED <<global_log_head, completed, localVars, calls, applied>>

\* The head is loaded for the result, and the frame is gone.
Return(t) ==
    /\ AQGoto(t, "retract", "idle")
    /\ op' = [op EXCEPT ![t] = Null]
    /\ UNCHANGED <<global_log_head, announce_table, completed, cur, tries, i, calls, applied>>

AQTerminated ==
    /\ \A t \in Thread : apc[t] = "idle" /\ calls[t] = MaxCalls
    /\ UNCHANGED aqVars

InCall(t) ==
    \/ FastLoad(t) \/ FastCAS(t) \/ FastFail(t)
    \/ Announce(t) \/ HelpLoad(t) \/ HelpCheck(t) \/ HelpApply(t) \/ HelpComplete(t)
    \/ Retract(t) \/ Return(t)

AQNext == (\E t \in Thread : Call(t) \/ InCall(t)) \/ AQTerminated

AQSpec == AQInit /\ [][AQNext]_aqVars

\* A thread in a call keeps running; nothing is assumed of its exchanges.
AQFairSpec == AQSpec /\ \A t \in Thread : WF_aqVars(InCall(t))

-----------------------------------------------------------------------------
(* Properties *)

\* Every call returns, however often its exchanges fail and whatever it finds
\* in the table: the number of its steps is bounded.
QueueWaitFree == \A t \in Thread : (apc[t] # "idle") ~> (apc[t] = "idle")

\* A slot of the table that is read now is that of an operation still in
\* progress: a call takes its frame out of the table before it gives it up.
TableAlive == \A t \in Thread : announce_table[t] # Null => Alive(announce_table[t])

\* A helper reads and writes only operations that are still in progress.
HelpsValidPayload ==
    \A t \in Thread : apc[t] \in {"check", "apply", "complete"} => Alive(op[t])

\* No helper adds the value of an operation that is complete.
AppliedOnce == \A t \in Thread : applied[t] <= 1
=============================================================================
