---------------------------- MODULE MCReclamation ----------------------------
(***************************************************************************)
(* Safe memory reclamation on small instances: the stack over hazard       *)
(* pointers, the stack over epochs in the same memory, the hazard pointer  *)
(* domain alone on two more instances - a few threads with many nodes to   *)
(* retire, and a crowd of threads that compete for records and have one    *)
(* node - and the epochs under every client.  "part" says which of them a  *)
(* behaviour runs.                                                         *)
(***************************************************************************)
EXTENDS HazardPointerStack, EpochReclaimer, TLC, FiniteSetsExt

CONSTANTS FromOldDomain,   \* threads that already hold record 1 of another domain
          ManyNodes,       \* the nodes of the domain alone
          CrowdThread, CrowdNode,
          MaxAllCalls,     \* bound: all calls on a stack but release
          MaxEpoch,        \* bound: the scans after which the epochs' clients stop
          MaxRetired       \* bound: the nodes they retire at a time

VARIABLE part

MCOldId == [t \in Thread |-> IF t \in FromOldDomain THEN 1 ELSE NoId]

Domain == INSTANCE HazardPointers
          WITH Node <- ManyNodes, ReclaimThreshold <- 1, OldId <- [t \in Thread |-> NoId]

Crowd == INSTANCE HazardPointers
         WITH Thread <- CrowdThread, Node <- CrowdNode, ReclaimThreshold <- 1,
              MaxThreads <- Cardinality(CrowdThread),
              OldId <- [t \in CrowdThread |-> NoId]

\* The stack over epochs: the same addresses, calls and locals.
EpochStack == INSTANCE TreiberStack

vars == <<part, hsVars, ebrVars>>
stackVars == <<head, heapVars, pc, localVars>>

OneValue == \A m, n \in Node : data[m] = data[n]

MCInit ==
    /\ StackInit /\ EBRInit
    /\ \/ part \in {"stack", "epoch stack"} /\ HPInit
       \/ part = "domain" /\ Domain!HPInit /\ OneValue
       \/ part = "crowd" /\ Crowd!HPInit /\ OneValue
       \/ part = "epochs" /\ HPInit /\ OneValue

EpochClients ==
    \/ EBRNext /\ global_epoch' <= MaxEpoch /\ Cardinality(InReclaimer') <= MaxRetired
    \/ global_epoch = MaxEpoch /\ UNCHANGED ebrVars

AllCalls == MapThenSumSet(LAMBDA t : calls[t], Thread)

\* Beyond the bound a thread only gives its record back.
Budget ==
    IF AllCalls' <= MaxAllCalls THEN TRUE
    ELSE \A t \in Thread : calls'[t] > calls[t] => pc'[t] = "release"

SpentBudget == AllCalls >= MaxAllCalls /\ \A t \in Thread : pc[t] = "idle"

MCNext ==
    /\ \/ part = "stack" /\ HSNext /\ Budget /\ UNCHANGED ebrVars
       \/ part = "epoch stack" /\ EpochStack!TSNext /\ Budget /\ UNCHANGED hpVars
       \/ SpentBudget /\ UNCHANGED vars
       \/ part = "domain" /\ Domain!HPNext /\ UNCHANGED <<stackVars, ebrVars>>
       \/ part = "crowd" /\ Crowd!HPNext /\ UNCHANGED <<stackVars, ebrVars>>
       \/ part = "epochs" /\ EpochClients /\ UNCHANGED hsVars
    /\ UNCHANGED part

MCSpec == MCInit /\ [][MCNext]_vars

Symmetry ==
    Permutations(Thread \ (FromOldDomain \union Stale)) \union Permutations(Node)
    \union Permutations(Value)
-----------------------------------------------------------------------------
\* NoUseAfterFree, NoABA and Linearizable are of both stacks, whose variables and
\* labels of pop() are the same; so are EpochHalts, SinglyRetired and
\* GracePeriodSpec of both clients of the epochs.

\* The locals of the stack over epochs keep their types, and every address is with
\* the allocator, in the stack, in one thread's hands or with the reclaimer.
TSConsistent == part = "epoch stack" => EpochStack!TSConsistent

\* HSConsistent of the stack; the domain alone and the epochs keep their types.
\* (RecordsAssigned and BoundedGarbage are said of the stack's constants: the
\* threads of the crowd are alike, and its two first stand for all of them; the
\* domain alone has the same bound, since MaxThreads + 1 is above both thresholds.)
Consistent ==
    CASE part = "stack"  -> HSConsistent
      [] part = "epoch stack" -> HPTypeOK
      [] part = "domain" -> Domain!HPTypeOK
      [] part = "crowd"  -> Crowd!HPTypeOK
      [] part = "epochs" -> EBRTypeOK
=============================================================================
