------------------------------ MODULE MCLockFree ------------------------------
(***************************************************************************)
(* The lock-free containers whose calls must return, on small instances:   *)
(* the Michael-Scott queue over the abstract reclaimer and the Treiber     *)
(* stack over epochs.  They do not interact; each behaviour runs one.      *)
(***************************************************************************)
EXTENDS MichaelScottQueue

VARIABLES
    part,
    ts_head, ts_next, ts_data, ts_free, ts_pc, ts_new_node, ts_old_head,
    ts_nxt, ts_result, ts_calls, ts_global_epoch, ts_thread_records,
    ts_local_epoch, ts_active, ts_retired_list, ts_retire_mutex, ts_to_free,
    ts_rpc, ts_reg, ts_arg, ts_min_active, ts_any_active, ts_cursor,
    ts_looking, ts_waits, ts_pinned_at

stackVars == <<ts_head, ts_next, ts_data, ts_free, ts_pc, ts_new_node,
               ts_old_head, ts_nxt, ts_result, ts_calls, ts_global_epoch,
               ts_thread_records, ts_local_epoch, ts_active, ts_retired_list,
               ts_retire_mutex, ts_to_free, ts_rpc, ts_reg, ts_arg,
               ts_min_active, ts_any_active, ts_cursor, ts_looking, ts_waits,
               ts_pinned_at>>
vars == <<part, msVars, stackVars>>

\* Two calls per thread on two addresses; every retire() scans.
TS == INSTANCE TreiberStack WITH
          Node <- {1, 2}, Value <- {"x"}, MaxCalls <- 2, AdvanceThreshold <- 1, StartEpoch <- 1,
          Stale <- {},
          head <- ts_head, next <- ts_next, data <- ts_data, free <- ts_free, pc <- ts_pc,
          new_node <- ts_new_node, old_head <- ts_old_head, nxt <- ts_nxt,
          result <- ts_result, calls <- ts_calls, global_epoch <- ts_global_epoch,
          thread_records <- ts_thread_records, local_epoch <- ts_local_epoch,
          active <- ts_active, retired_list <- ts_retired_list,
          retire_mutex <- ts_retire_mutex, to_free <- ts_to_free, rpc <- ts_rpc,
          reg <- ts_reg, arg <- ts_arg, min_active <- ts_min_active,
          any_active <- ts_any_active, cursor <- ts_cursor, looking <- ts_looking,
          waits <- ts_waits, pinned_at <- ts_pinned_at

MCInit == part \in {"queue", "stack"} /\ MSInit /\ TS!TSInit

InQueue == part = "queue" /\ UNCHANGED <<part, stackVars>>
InStack == part = "stack" /\ UNCHANGED <<part, msVars>>

MCNext == (InQueue /\ MSNext) \/ (InStack /\ TS!TSNext)

\* The fairness of MSFairSpec in the one part and of TSFairSpec in the other: the
\* conditions of a thread are joined where only one of them can be enabled.
Fairness ==
    \A t \in Thread :
        /\ WF_msVars(/\ part = "queue" /\ pc[t] # "idle"
                     /\ EnqStep(t) \/ DeqStep(t) \/ Unpin(t)
                     /\ SeeEmpty)
        /\ WF_stackVars(part = "stack" /\ ts_pc[t] # "idle" /\ (TS!PopStep(t) \/ TS!PushStep(t)))
        /\ WF_stackVars(/\ part = "stack"
                        /\ TS!AdvanceReturn(t) \/ TS!Reclaim(t) \/ TS!Delete(t) \/ TS!Drain(t))
        /\ SF_vars((InQueue /\ DeqCAS(t) /\ SeeEmpty) \/ (InStack /\ TS!PopCAS(t)))
        /\ SF_msVars(part = "queue" /\ EnqLink(t) /\ SeeEmpty)

MCSpec == MCInit /\ [][MCNext]_vars /\ Fairness
-----------------------------------------------------------------------------
\* Every call of either container returns although the other threads interfere: an
\* exchange fails only because another call made progress.
EveryCallReturns ==
    \A t \in Thread :
        (pc[t] # "idle" \/ ts_pc[t] # "idle") ~> (pc[t] = "idle" /\ ts_pc[t] = "idle")

\* Once the stack's threads stop calling, the last drain_all() leaves every address
\* in the stack or with the allocator.
AllReclaimed == TS!AllReclaimed
=============================================================================
