-------------------------- MODULE DistributedEngines --------------------------
(***************************************************************************)
(* The replication helpers of distributed_state_engines.cpp.               *)
(*                                                                         *)
(* ConsistentHashRing (HR): each physical node owns a few tokens of a      *)
(* circle, a key belongs to the owner of the first token at or after its   *)
(* own.  The hash is a constant; the tokens of the virtual nodes are       *)
(* distinct, as 64-bit hashes are taken to be.                             *)
(*                                                                         *)
(* VectorClock (VC): clocks carried by processes and by the messages       *)
(* between them, which may be lost, repeated or reordered.  A clock maps   *)
(* the processes it has heard of to a count; get() answers 0 for others.   *)
(*                                                                         *)
(* RaftServer (RF): the receiver of log entries, and the leader that       *)
(* client_request() plays; the calls may be lost, repeated or late.        *)
(***************************************************************************)
EXTENDS Integers, FiniteSetsExt, SequencesExt

-----------------------------------------------------------------------------
(* ConsistentHashRing                                                       *)

CONSTANTS RingNode, Tokens,      \* Tokens[n]: hashes of the vnodes of n
          KeyToken,              \* the tokens keys may have
          NoNode                 \* the answer of an empty ring

ASSUME TokensDistinct ==
    \A m, n \in RingNode : m # n => Tokens[m] \cap Tokens[n] = {}
ASSUME TokensNat == KeyToken \subseteq Nat /\ \A n \in RingNode : Tokens[n] \subseteq Nat
\* Every node has at least one virtual node.
ASSUME TokensFinite ==
    IsFiniteSet(RingNode) /\ \A n \in RingNode : IsFiniteSet(Tokens[n]) /\ Tokens[n] # {}
ASSUME NoNodeIsNoNode == NoNode \notin RingNode

VARIABLES ring,                  \* token -> node
          physicalNodes

hrVars == <<ring, physicalNodes>>

HRTypeOK ==
    /\ physicalNodes \subseteq RingNode
    /\ \A t \in DOMAIN ring : ring[t] \in RingNode

HRInit == ring = [t \in {} |-> NoNode] /\ physicalNodes = {}

AddNode(n) ==
    /\ n \notin physicalNodes
    /\ physicalNodes' = physicalNodes \union {n}
    /\ ring' = [t \in DOMAIN ring \union Tokens[n] |->
                   IF t \in Tokens[n] THEN n ELSE ring[t]]

RemoveNode(n) ==
    /\ n \in physicalNodes
    /\ physicalNodes' = physicalNodes \ {n}
    /\ ring' = [t \in DOMAIN ring \ Tokens[n] |-> ring[t]]

HRNext == \E n \in RingNode : AddNode(n) \/ RemoveNode(n)

HRSpec == HRInit /\ [][HRNext]_hrVars

\* The token at or after t, around the end of the ring.
Successor(t) ==
    LET after == {u \in DOMAIN ring : u >= t}
    IN  Min(IF after = {} THEN DOMAIN ring ELSE after)

\* Mutant: the key modulo the number of tokens.
ModuloNode(key) ==
    LET slot == key % Cardinality(DOMAIN ring)
    IN  IF DOMAIN ring = {} THEN NoNode
        ELSE ring[CHOOSE t \in DOMAIN ring :
                     Cardinality({u \in DOMAIN ring : u < t}) = slot]

GetNode(key) == IF DOMAIN ring = {} THEN NoNode ELSE ring[Successor(key)]

\* get_preference_list(): around the ring from the key's token, collecting new
\* nodes until there are enough or the walk is back where it started.
VisitNext(walk, start, factor) ==
    LET new  == ring[walk.at] \notin Range(walk.list)
        list == IF new THEN Append(walk.list, ring[walk.at]) ELSE walk.list
        next == Successor(walk.at + 1)
    IN  [at |-> next, list |-> list,
         over |-> \/ new /\ Len(list) = factor
                  \/ next = start
                  \/ Len(list) >= Cardinality(physicalNodes)]

PreferenceList(key, factor) ==
    LET start == Successor(key)
        size == Cardinality(DOMAIN ring)
        after[n \in 0 .. size] ==
            IF n = 0 THEN [at |-> start, list |-> << >>, over |-> FALSE]
            ELSE LET walk == after[n - 1]
                 IN  IF walk.over THEN walk ELSE VisitNext(walk, start, factor)
    IN  IF DOMAIN ring = {} THEN << >> ELSE after[size].list
-----------------------------------------------------------------------------
\* The preference list of a key starts with its node and names the nodes, all
\* different, that get_node() would answer if those before had left: as many
\* as asked for, or all there are.
PreferenceListSound ==
    \A key \in KeyToken, factor \in 1 .. Cardinality(RingNode) :
        LET list == PreferenceList(key, factor)
            left(i) == {t \in DOMAIN ring : ring[t] \notin Range(SubSeq(list, 1, i - 1))}
            first(ts) == Min(IF \E t \in ts : t >= key THEN {t \in ts : t >= key} ELSE ts)
        IN  /\ Len(list) = Min({factor, Cardinality(physicalNodes)})
            /\ \A i \in DOMAIN list : left(i) # {} /\ list[i] = ring[first(left(i))]

\* Minimal migration: a node that joins takes keys only to itself, and one
\* that leaves gives up only its own.
MinimalMigration ==
    [][\A key \in KeyToken :
          GetNode(key)' # GetNode(key) =>
              \/ GetNode(key)' \in physicalNodes' \ physicalNodes
              \/ GetNode(key) \in physicalNodes \ physicalNodes'
              \/ GetNode(key) = NoNode]_hrVars
-----------------------------------------------------------------------------
(* VectorClock                                                              *)

CONSTANTS VCProcess,
          MaxTicks,        \* bound: ticks of a process
          MaxMessages      \* bound: clocks sent

ASSUME MaxTicksNat == MaxTicks \in Nat

VARIABLES clock,
          sent,            \* the clocks in messages, with what their sender knew
          known            \* history: the ticks each process knows of

vcVars == <<clock, sent, known>>

NoTicks == [p \in {} |-> 0]
Clock == UNION {[P -> 1 .. MaxTicks] : P \in SUBSET VCProcess}

VCTypeOK ==
    /\ clock \in [VCProcess -> Clock]
    /\ \A m \in sent : m.clock \in Clock
    /\ Cardinality(sent) <= MaxMessages

VCInit ==
    /\ clock = [p \in VCProcess |-> NoTicks]
    /\ sent = {}
    /\ known = [p \in VCProcess |-> {}]

CountOf(c, p) == IF p \in DOMAIN c THEN c[p] ELSE 0

Ticked(c, p) == [q \in DOMAIN c \union {p} |-> IF q = p THEN CountOf(c, p) + 1 ELSE c[q]]

Merged(c, other) ==
    [q \in DOMAIN c \union DOMAIN other |->
        IF q \in DOMAIN other /\ other[q] > CountOf(c, q) THEN other[q] ELSE c[q]]

Compare(c, other) ==
    LET names        == DOMAIN c \union DOMAIN other
        thisGreater  == \E p \in names : CountOf(c, p) > CountOf(other, p)
        otherGreater == \E p \in names : CountOf(other, p) > CountOf(c, p)
    IN  CASE thisGreater /\ otherGreater -> "CONCURRENT"
          [] thisGreater /\ ~otherGreater -> "AFTER"
          [] ~thisGreater /\ otherGreater -> "BEFORE"
          [] OTHER -> "EQUAL"

\* A process ticks at its own events; a tick is the pair of the process and
\* its number.
Tick(p) ==
    /\ CountOf(clock[p], p) < MaxTicks
    /\ clock' = [clock EXCEPT ![p] = Ticked(@, p)]
    /\ known' = [known EXCEPT ![p] = @ \union {<<p, CountOf(clock[p], p) + 1>>}]
    /\ UNCHANGED sent

Send(p) ==
    /\ Cardinality(sent) < MaxMessages
    /\ sent' = sent \union {[clock |-> clock[p], known |-> known[p]]}
    /\ UNCHANGED <<clock, known>>

Receive(p) ==
    \E m \in sent :
        /\ clock' = [clock EXCEPT ![p] = Merged(@, m.clock)]
        /\ known' = [known EXCEPT ![p] = @ \union m.known]
        /\ UNCHANGED sent

VCNext == \E p \in VCProcess : Tick(p) \/ Send(p) \/ Receive(p)

VCSpec == VCInit /\ [][VCNext]_vcVars
-----------------------------------------------------------------------------
\* compare() is causality: one clock comes before another exactly when its
\* holder knows strictly less, and two are concurrent exactly when each holder
\* knows of an event the other does not.
CausalityExact ==
    LET holders == sent \union {[clock |-> clock[p], known |-> known[p]] : p \in VCProcess}
    IN  \A a, b \in holders :
            Compare(a.clock, b.clock) =
                CASE a.known = b.known -> "EQUAL"
                  [] a.known \subseteq b.known /\ a.known # b.known -> "BEFORE"
                  [] b.known \subseteq a.known /\ a.known # b.known -> "AFTER"
                  [] OTHER -> "CONCURRENT"
-----------------------------------------------------------------------------
(* RaftServer and RaftClusterSimulation                                     *)

CONSTANTS Server,                \* nodes, at least one
          Command,
          MaxTerm, MaxIndex      \* bounds: elections, entries of a log

ASSUME SomeServers == IsFiniteSet(Server) /\ Server # {}
ASSUME BoundsNat == MaxTerm \in Nat /\ MaxIndex \in Nat

VARIABLES raft,                  \* raft[s]: term, log, commit, applied of s
          leader,                \* leader_idx
          calls,                 \* the append_entries() calls made so far
          acked,                 \* history: the log up to the last entry for which
                                 \* client_request() returned true
          misled                 \* history: the servers told to commit although they
                                 \* had rejected the entry

rfVars == <<raft, leader, calls, acked, misled>>

LogEntry == [term : 0 .. MaxTerm, command : Command]

RFTypeOK ==
    /\ \A s \in Server :
          /\ raft[s].term \in 0 .. MaxTerm
          /\ raft[s].log \in Seq(LogEntry) /\ raft[s].applied \in Seq(Command)
          /\ raft[s].commit \in 0 .. MaxIndex
    /\ leader \in Server
    /\ acked \in Seq(LogEntry) /\ misled \subseteq Server

\* The dummy entry at index 0 is left out: log[i] is the entry of index i.
RFInit ==
    /\ raft = [s \in Server |->
                  [term |-> 0, log |-> << >>, commit |-> 0, applied |-> << >>]]
    /\ leader \in Server
    /\ calls = {}
    /\ acked = << >>
    /\ misled = {}

TermAt(log, i) == IF i = 0 THEN 0 ELSE log[i].term
LastTerm(log) == TermAt(log, Len(log))

\* commit_index := index, then apply_to_state_machine()
CommitTo(server, index) ==
    [server EXCEPT !.commit = index,
                   !.applied = @ \o [i \in 1 .. Max({index - Len(@), 0}) |->
                                        server.log[Len(@) + i].command]]

\* Mutant: the term of the entry before is not compared.
AcceptsAnyTerm(server, call) ==
    call.term >= server.term /\ call.prev <= Len(server.log)

Accepts(server, call) ==
    /\ call.term >= server.term
    /\ call.prev <= Len(server.log)
    /\ TermAt(server.log, call.prev) = call.prevTerm

\* The log with the call's entry at its place: one of another term goes, with
\* all that follow it; the same one stays, with all that follow it.
Placed(log, call) ==
    LET i == call.prev + 1
    IN  IF i > Len(log) THEN Append(log, call.entry)
        ELSE IF log[i].term = call.entry.term THEN log
        ELSE Append(SubSeq(log, 1, call.prev), call.entry)

\* append_entries(); a call of a newer term leaves its term even if rejected.
Appended(server, call) ==
    LET seen   == [server EXCEPT !.term = Max({@, call.term})]
        placed == [seen EXCEPT !.log = Placed(@, call)]
    IN  IF ~Accepts(server, call) THEN seen
        ELSE IF call.commit > server.commit
             THEN CommitTo(placed, Min({call.commit, Len(placed.log)}))
        ELSE placed

Majority(S) == 2 * Cardinality(S) > Cardinality(Server)

\* elect_leader(idx, term) tells every server of the term.  Who may be elected
\* is left to its caller: a server whose log is as up to date as those of a
\* majority, in a new term, as Raft has it.
ElectLeader(s) ==
    /\ raft[s].term < MaxTerm
    /\ Majority({t \in Server :
          \/ LastTerm(raft[t].log) < LastTerm(raft[s].log)
          \/ /\ LastTerm(raft[t].log) = LastTerm(raft[s].log)
             /\ Len(raft[t].log) <= Len(raft[s].log)})
    /\ leader' = s
    /\ raft' = [t \in Server |-> [raft[t] EXCEPT !.term = raft[s].term + 1]]
    /\ UNCHANGED <<calls, acked, misled>>

\* client_request(command), while the servers outside "reached" cannot be called:
\* theirs arrive late, if ever.  A server that rejects the entry does not count for
\* the majority, but the second loop writes its commit index as well.
ClientRequest(command, reached) ==
    LET index == Len(raft[leader].log) + 1
        entry == [term |-> raft[leader].term, command |-> command]
        call  == [term |-> entry.term, prev |-> index - 1,
                  prevTerm |-> LastTerm(raft[leader].log), entry |-> entry,
                  commit |-> raft[leader].commit]
        accepting == {s \in reached : Accepts(raft[s], call)}
        committed == Majority({leader} \union accepting)
        proposed  == [raft[leader] EXCEPT !.log = Append(@, entry)]
        follower(s) ==
            LET after == Appended(raft[s], call)
            IN  IF committed THEN CommitTo(after, Min({index, Len(after.log)}))
                ELSE after
    IN  /\ index <= MaxIndex
        /\ raft' = [s \in Server |->
                       IF s \in reached THEN follower(s)
                       ELSE IF s # leader THEN raft[s]
                       ELSE IF committed THEN CommitTo(proposed, index)
                       ELSE proposed]
        /\ calls' = calls \union {call}
        /\ acked' = IF committed THEN proposed.log ELSE acked
        /\ misled' = IF committed THEN misled \union (reached \ accepting) ELSE misled
        /\ UNCHANGED leader

\* A call that was lost, or one that arrived before, arrives now.
LateCall(s, call) ==
    /\ s # leader
    /\ raft' = [raft EXCEPT ![s] = Appended(@, call)]
    /\ UNCHANGED <<leader, calls, acked, misled>>

RFNext ==
    \/ \E s \in Server : ElectLeader(s)
    \/ \E command \in Command, reached \in SUBSET (Server \ {leader}) :
          ClientRequest(command, reached)
    \/ \E s \in Server, call \in calls : LateCall(s, call)

RFSpec == RFInit /\ [][RFNext]_rfVars

\* Log matching: two logs with an entry of the same index and term are the same up
\* to there.
LogMatching ==
    \A s, t \in Server : \A i \in DOMAIN raft[s].log \cap DOMAIN raft[t].log :
        raft[s].log[i].term = raft[t].log[i].term
            => SubSeq(raft[s].log, 1, i) = SubSeq(raft[t].log, 1, i)

\* Leader completeness: an entry for which client_request() returned true, and all
\* before it, are in the log of the leader from then on, whoever that is.
LeaderCompleteness == IsPrefix(acked, raft[leader].log)

\* State machine safety: no two servers apply different commands at an index.
StateMachineSafety ==
    \A s, t \in Server : \A i \in DOMAIN raft[s].applied \cap DOMAIN raft[t].applied :
        raft[s].applied[i] = raft[t].applied[i]

\* What a server has applied stays in its log, as far as its commit index says, and
\* every leader's log starts with all that it has applied, unless the server itself
\* was told to commit what it had rejected; such a server misleads no other.
AppliedExact ==
    \A s \in Server \ misled :
        LET commands(log) == [i \in DOMAIN log |-> log[i].command]
        IN  /\ Len(raft[s].applied) = raft[s].commit
            /\ IsPrefix(raft[s].applied, commands(raft[s].log))
            /\ IsPrefix(raft[s].applied, commands(raft[leader].log))

\* Replicas tell the truth of each other whatever messages are lost, repeated or
\* late.  compare() of two vector clocks is causality.  Raft logs match, every
\* leader has what client_request() has answered for, and a state machine has
\* applied what the leaders have, except those of the servers told to commit what
\* they had rejected (with them StateMachineSafety is violated).
ReplicationExact == CausalityExact /\ LogMatching /\ LeaderCompleteness /\ AppliedExact
=============================================================================
