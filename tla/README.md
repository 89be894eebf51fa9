# A TLA+ verification of awesome-dsa

`awesome-dsa` is a library of data structures and algorithms: about 130
self-contained C++17 programs under `implementations/cpp/` (each a header-like
implementation followed by its own test `main`), as many Python counterparts under
`implementations/python/`, chapters of text under `docs/`, and micro-benchmarks.
This directory holds TLA+ modules translated from the C++ code, the TLC
configurations that model-check them, and TLAPS proofs.  The C++ programs are the
reference: a Python file is the same algorithm again (single-threaded where the C++
one is concurrent) and is not modelled separately.

How to run: `tlc -workers 2 -config X.cfg M` for a row of the table of section 4,
and `tlapm M.tla` for the modules named `*_proofs`.  `PROJECT.json` lists the same
runs, the code lines behind every definition, the hazards each property is for,
and, for every checked property, a plausible bug of the code that it detects.

## 1. Inventory

There is no single program here: the components are independent, except where the
table says otherwise.  The ones whose behaviour is hard (several threads, several
messages, crashes, many steps before a mistake shows) come first.

### 1.1 Concurrent structures (`docs/16-*`)

| component | state | operations | interacts with | what is hard | what makes it correct |
|---|---|---|---|---|---|
| Epoch reclaimer (`concurrent_queues_and_stacks.cpp` 43-203, again as `EpochDomain` in `hazard_pointers_and_epoch_reclamation.cpp` 268-389) | global epoch, a lock-free list of per-thread records (epoch, active), a mutex-protected retired list | `pin`, `unpin`, `retire`, `try_advance_and_reclaim`, `drain_all` | called by every stack and queue operation; calls the deleters | the scan reads records one by one while they change; the epoch is loaded before the record is active; thread-local record | nothing is freed that a pinned section may hold; nothing is freed twice; the epoch stops behind a pinned thread |
| Treiber stack (same file 226-307) | head pointer, nodes | `push`, `pop` | reclaimer | ABA, use after free, spurious failures | linearizable LIFO, one owner for each node |
| Michael-Scott queue (same file 313-437) | head, tail, nodes | `enqueue`, `dequeue` | reclaimer | lagging tail, helping, inconsistent snapshots | linearizable FIFO; tail never behind head |
| Hazard-pointer domain and stack (`hazard_pointers_and_epoch_reclamation.cpp` 43-262) | records with slots, thread-local id and retired list | `acquire_thread_id`, `publish`, `clear`, `retire`, `scan_and_reclaim`, `push`, `pop` | stack publishes, validates, retires | publication races with retirement; records change hands | no use after free, bounded garbage, linearizable stack |
| Tagged-pointer stack (`aba_problem.cpp`) | head = (pointer, 16-bit tag) | `push`, `pop` | allocator | tag wrap-around, reading a freed node | no ABA while the tag does not wrap |
| Chase-Lev deque and scheduler (`work_stealing_deques.cpp`) | top, bottom, growable circular array; task counters | `push`, `pop`, `steal`, growth; worker loop | thieves and owner share the deque | the last element, growth under a slow thief | every task taken exactly once |
| Consensus, snapshot, announce queue, sequencers (`lock_free_and_wait_free_basics.cpp`) | CAS cells, timestamped registers, announce array | `decide`, `next_ticket`, `update`/`scan`, `execute_op`/`help_all` | helping | helpers finish the same operation twice | agreement; atomic snapshots; each operation once |
| Parallel prefix, reduce, merge sort (`parallel_algorithm_basics.cpp`) | an array shared by calls on its ranges | fork, sequential cut-off, join; the sweeps of the scan, which the code runs one turn after the other | threads of the fork share the array | two running calls on one element | calls that run together own disjoint ranges; the result is the sequential one |

### 1.2 Systems case studies (`docs/15-*`, `docs/17-*`, `docs/18-*`)

| component | state | operations | what is hard | what makes it correct |
|---|---|---|---|---|
| LSM tree (`lsm_trees.cpp`) | memtable, write-ahead log, levels of sorted runs | `put`, `remove`, `get`, flush, compaction | a key shadowed on several levels; tombstones | behaves as a map |
| Storage engines (`storage_engines_breakdown.cpp`) | Bitcask log and key directory; B+ tree pages and pager | put, get, delete, merge, page allocation and splits | stale log positions after a merge | behaves as a map |
| Caches (`high_performance_caching.cpp`) | LRU, 2Q, ARC, W-TinyLFU: lists and ghosts, a sketch | `get`, `put` | several lists that must stay disjoint and bounded | capacity, list/index agreement |
| Distributed engines (`distributed_state_engines.cpp`) | hash ring, vector clocks, Raft logs | `add_node`, `get_node`, `get_preference_list`, `tick`, `merge`, `compare`, `client_request`, `append_entries`, `elect_leader` | messages lost, repeated, reordered; nodes that join and leave | causal order, minimal migration, matching logs that keep what was answered for, applied by all alike |
| Linux internals (`linux_kernel_internals.cpp`) | run queue (red-black tree with a cached leftmost node), dentry cache over intrusive lists, RCU engine | insert/erase/pick, lookup/add/evict, read sections and updates | rotations; lists that share nodes; grace periods | tree balance, cache order, reader safety |
| Merkle and authenticated structures (`merkle_trees.cpp`, `authenticated_data_structures.cpp`) | tree of hashes | append, prove, verify | odd levels, positions | a proof verifies iff the leaf is there |
| External sort, I/O model, streaming, count-min sketch (`external_sorting.cpp`, `io_model_and_external_memory.cpp`, `streaming_models.cpp`, `count_min_sketch.cpp`) | runs, a block buffer, samples, buckets, counters | sort, read/write, observe | buffer limits; merges of buckets; a conservative update | sorted output; counts within their bounds; never under-estimates |

### 1.3 Sequential structures and algorithms (`docs/04-*` to `docs/14-*`)

| group | files | state and operations | what is hard | what makes it correct |
|---|---|---|---|---|
| linear structures | `dynamic_array`, `doubly_linked_list`, `ring_buffer`, `deques`, `stacks_and_queues`, `bitsets_and_bitvectors`, `ropes_gap_buffers_piece_tables`, `disjoint_set_union` | arrays, links, indexes; push, pop, insert, erase, find, union | wrap-around, growth, gap moves, rollback | refine sequences, sets, partitions |
| search trees | `binary_search_tree`, `avl_tree`, `splay_trees`, `treap`, `scapegoat_and_aa_trees`, `order_statistic_trees`, `interval_trees`, `skip_list`, `trie`, `tree_traversals` | nodes, ranks; insert, erase, search | rotations, rebuilds | refine sets; balance |
| range structures | `fenwick_tree`, `segment_tree`, `range_updates_and_lazy_propagation`, `sparse_table`, `range_minimum_query`, `sqrt_decomposition`, `prefix_sums_and_difference_arrays`, `mo_algorithm`, `offline_query_processing` | arrays and aggregates; update, query | pending lazy updates, rollback of updates | equal to the scan of the array |
| heaps | `binary_heap`, `d_ary_heap`, `indexed_priority_queue`, `binomial_heaps`, `fibonacci_heap`, `pairing_heap`, `median_maintenance`, `quickselect_and_median_of_medians` | forests; push, pop, decrease-key, meld | cascading cuts, position maps | refine a multiset with minimum |
| hashing and sketches | `hash_table`, `robin_hood_cuckoo_and_hopscotch_hashing`, `bloom_filter`, `hyperloglog`, `count_min_sketch`, `hash_functions`, `consistent_hashing` | slots, distances; insert, erase, find | tombstones, displacement chains | refine a map; no false negative |
| graphs | `graph_representations`, `graph_traversals`, `topological_sort`, `shortest_paths`, `all_pairs_shortest_paths`, `minimum_spanning_trees`, `strongly_connected_components`, `network_flow_and_push_relabel`, `lowest_common_ancestor` | work lists, distances, heights | order of relaxations, preflow | reachability, optimality, flow conservation |
| strings | `prefix_function_and_kmp`, `z_algorithm`, `aho_corasick`, `manacher_algorithm`, `rabin_karp_and_rolling_hash`, `suffix_*`, `longest_common_subsequence` | tables, automata | failure links | equal to the naive search |
| dynamic programming, paradigms, patterns, proof techniques | `*_dp`, `knapsack_family`, `edit_distance_and_alignment`, `longest_*`, `divide_and_conquer`, `greedy_algorithms`, `branch_and_bound`, `binary_search_on_answer`, `interval_scheduling`, `monotonic_stack_and_queue`, `loop_invariants`, ... | tables | recurrences, bounds | equal to exhaustive search |
| geometry and space | `convex_hull`, `closest_pair_of_points`, `line_sweep`, `computational_geometry_basics`, `kd_trees`, `r_trees` | points, boxes | degenerate inputs | equal to the definition |
| allocators | `memory_allocation_and_fragmentation` | an arena's offset, a pool whose free list lies in its slots; allocate, reset, free | alignment; users write over the links | live blocks are apart and inside |
| advanced structures | `van_emde_boas_trees`, `x_fast_and_y_fast_tries`, `fusion_trees`, `link_cut_trees`, `persistent_data_structures`, `wavelet_trees`, `succinct_data_structures` | recursive universes, preferred paths, versions | lazily stored minima, path reversal | refine a set, a forest, a versioned array |

### 1.4 Everything else

Mathematics and machine-model demonstrations (`combinatorics`, `probability_basics`,
`branch_prediction_and_pipelines`, ...), test and benchmark programs (`benchmark_design`,
`fuzzing_and_property_testing`, `benchmarks/*`), the Python counterparts, the
chapters of text and `scripts/validate_syntax.py` keep no state worth a model: they
compute a formula, time a loop or print a table.


## 2. Plan

The order is that of difficulty: what several threads do to the same words first,
then long sequences of calls on one structure, then functions of their input.

| step | modules | abstract specification | state |
|---|---|---|---|
| 1 reclamation | `LinkedNodes` (lists of nodes, with lemmas), `EpochReclaimer`, `HazardPointers`, `Rcu` | `GracePeriod` | checked and proved |
| 2 stacks and queues over it | `TreiberStack`, `HazardPointerStack`, `MichaelScottQueue`, `TaggedStack` | `AbstractStack`, `AbstractQueue` | checked; safety and linearizability proved |
| 3 scheduling and helping | `ChaseLevDeque`, `WorkScheduler`, `WaitFreeObjects`, `WaitFreeSnapshot`, `AnnounceQueue` | `AbstractDeque` | checked; safety proved |
| 4 stores and servers | `StorageEngines`, `Caches`, `DistributedEngines` | `AbstractMap`, Raft's invariants | checked and proved; finding 6 |
| 5 sequential structures | `RunQueue`, `HashTables`, `Forests`, `RangeStructures`, `LinearStructures`, `BitStructures`, `IntegerSets`, `Heaps`, `SearchTrees`, `PushRelabel`, `Sketches` | `AbstractMap`, a sequence, a set, a bag, a partition, a forest | checked |
| 6 functions | `GraphAlgorithms`, `StringAlgorithms`, `DynamicProgramming`, `Paradigms`, `Geometry` | the naive definition of each, or exhaustive search | checked |
| 7 more proofs | `Engine_proofs`: the answers of the storage engines, for every key, threshold and page size; ring, clocks and Raft. `MCStores`: the caches and the directory cache | | done |

Composition: a structure EXTENDS the reclaimer it calls (`TreiberStack` EXTENDS
`EpochReclaimer`; `HazardPointerStack` EXTENDS `HazardPointers`), so that the steps of
a scan interleave with those of the structure.  `MichaelScottQueue` uses
`GracePeriod`, the abstract promise `EpochReclaimer` is proved to implement,
instead: the queue is checked against every reclaimer that keeps the promise, and the
state space is a fraction of the other.  Structures that do not interact share
an MC module whose variable `part` says which of them a behaviour runs.
## 3. Modules

`PROJECT.json` ("map") names the code lines behind the definitions: all of the concurrent
modules, the stores and the servers; of the other sequential modules those that stand for
a whole operation, while a helper whose lines lie inside them is found from there.  What
follows is the correspondence a reader needs first.  The names of variables and actions are
those of the code where TLA+ allows them; a prefix (`EBR`, `TS`, `AQ`, ...) marks what
every module has: `XXInit`, `XXNext`, `XXSpec`, `XXFairSpec`, `XXTypeOK`.

### 3.1 Concurrency conventions

*One action is one access to memory that another thread can see* (a load, a store, a
compare-exchange, a fetch-and-add), or one section under a mutex.  Local computation
is part of the access before or after it.  `pc[t]` (or `rpc`, `cpc`, ...) says which
access comes next.  A section under a mutex is one action only if it touches no
variable that is accessed without the mutex; the reclaimer's scan, which reads the
other threads' atomics while it holds `retire_mutex_`, has an action for each load.

*Memory order.* Actions interleave, which is sequential consistency.  The atomics in
question are `seq_cst`, or `acquire`/`release` accesses followed by a compare-exchange
or a fence; on x86, the machine the chapters discuss, the only reordering left is a
store delayed past a later load of another address.  The places where that matters
are the publications a later load must not overtake: `pin()` (the record is stored
`active` before the structure's head is loaded), `publish()` (the slot is stored
before the head is validated), and `pop()` of the deque (`bottom_` before `top_`).
All three use `seq_cst` stores or fences in the code.  Weaker orders are not modelled.

*Memory is explicit* where it is reused.  A node is an address; `free` is the set the
allocator has; a deleter puts an address back and a later `push()` can get the same
one.  Use after free and ABA are thus ordinary states, not assumptions.

*Spurious failure.*  `compare_exchange_weak` may fail although the value is the expected
one; `compare_exchange_strong` may not.

*Calls.*  Abstract specifications have no separate call and return events for most
operations: the action where the operation takes effect is the step that implements
it.  For an empty `dequeue()`, whose effect is the fact that the queue was empty at
some instant of the call, `AbstractQueue` keeps a note per call.

### 3.2 Reclamation

| module | code | state | actions |
|---|---|---|---|
| `GracePeriod` | the promise | `pinned`, `retired`, `waits` | `Pin`, `Unpin`, `Retire`, `Free`: a node is freed only when no thread pinned at its retirement still is |
| `EpochReclaimer` | `concurrent_queues_and_stacks.cpp` 43-203 | `global_epoch`, `thread_records`, `local_epoch`, `active`, `retired_list`, `retire_mutex`, and the locals of the scan (`cursor`, `min_active`, `looking`) | registration, the three steps of `pin()`, `unpin()`, the load and the locked part of `retire()`, the scan record by record, the deleters after the lock is given back, `drain_all()`.  `waits` and `pinned_at` are history variables for the promise |
| `HazardPointers` | `hazard_pointers_and_epoch_reclamation.cpp` 43-186 | records `in_use`, slots, each thread's id and retired list | claiming a record, publishing, clearing, retiring, the scan slot by slot, deletion, releasing |
| `Rcu` | `linux_kernel_internals.cpp`, `SimpleRcuEngine` | published entry, epoch, announcements, what each reader and writer holds | lock in two steps, dereference, unlock; publish, advance, wait for one reader at a time, delete |

`EpochDomain` in `hazard_pointers_and_epoch_reclamation.cpp` is the same algorithm as
`EpochReclaimer` with another threshold.  `LinkedNodes` declares the threads and the
addresses, defines the list a walk along the pointers finds (`NodesFrom`, at most as
long as there are addresses) and holds the lemmas the proofs about lists share.

### 3.3 Structures of several threads

| module | code | abstract specification |
|---|---|---|
| `TreiberStack` (EXTENDS `EpochReclaimer`) | `concurrent_queues_and_stacks.cpp` 226-307 | `AbstractStack`, by the sequence of values from `head` on |
| `HazardPointerStack` (EXTENDS `HazardPointers`) | `hazard_pointers_and_epoch_reclamation.cpp` 188-262 | `AbstractStack` |
| `TaggedStack` | `aba_problem.cpp` | `AbstractStack`.  The word is a pair; the tag wraps at `TagModulus`.  A read of a freed node returns any pointer |
| `MichaelScottQueue` (EXTENDS `GracePeriod`) | `concurrent_queues_and_stacks.cpp` 313-437 | `AbstractQueue`, by the values after the sentinel |
| `ChaseLevDeque` | `work_stealing_deques.cpp`, the deque | `AbstractDeque`.  `index & mask` is the remainder, the capacity being a power of two; arrays are kept by size; a thief may hold an old one; slots start as `Garbage` |
| `WorkScheduler` | the scheduler and the client of its test | over atomic deque calls, which `ChaseLevDeque` justifies |
| `WaitFreeObjects` | the consensus object and both sequencers of `lock_free_and_wait_free_basics.cpp` | agreement; exact tickets |
| `WaitFreeSnapshot` | the snapshot of that file | every scan is a state the registers were in |
| `AnnounceQueue` | `execute_op()` and `help_all()` of that file | the effect of each operation |

In `AnnounceQueue` the announced operation is a local variable of its owner's call, as
in the code: a pointer to it is the thread whose frame holds it.  `completed[t]` and
`applied[t]` belong to the present call of `t`, the next call uses the frame again, and
between calls it holds anything (`Alive`), so a pointer into it can dangle.

### 3.4 Stores and servers

| module | code | what the state is |
|---|---|---|
| `StorageEngines` | `lsm_trees.cpp`, `storage_engines_breakdown.cpp` | the LSM tree: memtable and runs as functions from keys, levels as sequences of runs, the log; a put that fills the memtable flushes and compacts in the same action, as the call does.  Bitcask's log cell by cell with its key directory; slotted pages with offsets; the small LSM engine |
| `Caches` | `high_performance_caching.cpp`, the directory cache of `linux_kernel_internals.cpp` | ARC's four lists and target (`PScale` gives the fractional target a grid), 2Q's three; W-TinyLFU's window, probation and protected segment, where which of two keys the sketch holds more frequent is left open.  The `next` and `prev` of every `list_head`, so that an unlinked or doubly linked entry is a state.  `CacheCapacity` is at least 2, as below the shares wrap (section 7) |
| `DistributedEngines` | `distributed_state_engines.cpp` | the map from tokens to nodes; the clocks of processes and of messages, which are lost, repeated and reordered; the term, log, commit index and applied commands of each Raft server, and every call made so far |

`AbstractMap` holds `kv`, the last value put for each key: the engines' answers are
compared with it in every state.  `Engine_proofs` holds what is proved of the
engines and of `DistributedEngines`, `MCStores` what is proved of the caches.

*Raft.*  The code's servers call one another directly; the model lets a call be lost,
come late, or come twice, which is what `append_entries()` has its checks for.  The
file has no vote: `elect_leader(idx, term)` takes any server.  The model assumes what an
election gives: a term above the last one, and a log as up to date as those of a majority.
`client_request()` reaches any of the followers.  One whose log does not fit rejects the
entry and is not counted, and yet the second loop writes its commit index, when the others
are a majority, and applies entries of its own log (lines 327-331).  Two history
variables say what that is worth: `acked` is the log up to the last entry
`client_request()` has answered `true` for, `misled` the servers it has told to commit
what they had rejected.  Leaders keep `acked`; the servers that are not misled apply
what the leaders have, whatever the misled ones do, also as leaders; and a
misled one breaks state machine safety (finding 6).

### 3.5 Sequential structures and functions

The structures share two variables: `rep`, the representation in memory, and
`content` (or `kv`), what the calls so far have put in.  An action is a whole call;
properties relate the two and check every query in every reachable state, so queries
are operators and not actions, except those that change the representation (`find()`
compresses paths, `query()` pushes pending updates, `find()` of the splay tree splays,
`expose()` of the link-cut tree turns paths round).

| module | code | notes |
|---|---|---|
| `RunQueue` | `RbTreeCached` of `linux_kernel_internals.cpp` | child, parent, colour, leftmost; mirrored cases written once with a side |
| `HashTables` | `hash_table`, `robin_hood_cuckoo_and_hopscotch_hashing` | slots, tombstones, distances, evictions and rehash.  Hash functions are constants chosen to collide |
| `Forests` | `disjoint_set_union`, `link_cut_trees` | parents and ranks with a history to roll back, parities; the splay trees of preferred paths with their reversals and aggregates |
| `RangeStructures` | `segment_tree`, `range_updates_and_lazy_propagation`, `fenwick_tree`, `sqrt_decomposition`, `sparse_table`, `range_minimum_query`, `prefix_sums_and_difference_arrays`, `mo_algorithm`, `offline_query_processing`, `merkle_trees` | trees of indexes in an array, pending updates, blocks.  A hash is what was hashed |
| `LinearStructures` | `dynamic_array`, `deques`, `stacks_and_queues`, `doubly_linked_list`, `ring_buffer`, `ropes_gap_buffers_piece_tables`, `skip_list`, `memory_allocation_and_fragmentation`, `monotonic_stack_and_queue` | capacity and size; head and tail, modulo `W` in the ring buffer; `next` and `prev`; the gap; pieces; forward pointers with arbitrary heights; the arena's offset, and the pool's free list, whose links lie in slots that users overwrite |
| `BitStructures` | `bitsets_and_bitvectors`, `succinct_data_structures`, `wavelet_trees`, `persistent_data_structures` | words of a few bits; superblocks; the wavelet tree's bit vector as its prefix counts; nodes shared by versions |
| `IntegerSets` | `van_emde_boas_trees`, `x_fast_and_y_fast_tries`, `fusion_trees` | recursive universes with the least element kept apart; the cache-oblivious layout; level tables and threads of leaves; buckets that split and merge; packed sketches |
| `Heaps` | the heap files, `median_maintenance`, `quickselect_and_median_of_medians` | array heaps, position maps, forests; the Fibonacci heap is its nodes, rings and marks |
| `SearchTrees` | the search tree files, `authenticated_data_structures`, `tree_traversals` | a tree is a value, as the functions of the code return the new root; what a node remembers (height, level, size, `max_high`, hash) is stale until it is updated.  The splay tree is its nodes and pointers |
| `Sketches` | `bloom_filter`, `count_min_sketch`, `hyperloglog`, `streaming_models`, `consistent_hashing` | counters, registers and buckets under hashes that collide |
| `PushRelabel` | `network_flow_and_push_relabel` | an action per turn of the loops, on every network of the given size |
| `GraphAlgorithms` | the graph files, `graph_representations`, `cut_and_cycle_properties` | operators; a loop over a list is a fold, a loop until something holds an operator that calls itself |
| `StringAlgorithms` | the string files, `trie` | positions count from 1.  The suffix tree keeps its active point and suffix links; the trie is a structure with actions |
| `DynamicProgramming` | `dynamic_programming_*`, `knapsack_family`, `longest_increasing_subsequence`, `interval_and_matrix_dp`, `bitmask_and_state_compression`, `tree_dp` | tables as recursive operators or folds, with the reconstruction of a solution |
| `Paradigms` | `greedy_algorithms`, `exchange_arguments`, `interval_scheduling`, `divide_and_conquer`, `branch_and_bound`, `recursion_and_backtracking`, `binary_search_on_answer`, `meet_in_the_middle`, `loop_invariants`, `external_sorting`, `parallel_algorithm_basics` | operators; the bidirectional search is a machine of turns, the forked calls a machine of fork, work and join |
| `Geometry` | `computational_geometry_basics`, `convex_hull`, `closest_pair_of_points`, `line_sweep`, `kd_trees`, `r_trees` | integer points; heights of segments on the sweep line are fractions; the R-tree is a structure with actions |

`map` in `PROJECT.json` has the lines of each; the components of `PROJECT.json` say
which functions of a file are left out.

Random choices of the code (priorities of a treap, victims of a thief) are arbitrary
choices.  `std::` containers are what they promise: a `map` is a function, a
`priority_queue` a bag.

Domains.  A model takes only inputs the program is meant for: no self-loops in a flow
network, no letter equal to a sentinel of Manacher's transform (`^`, `#`, `$`), no
value equal to the tombstone string, no record longer than an empty page, no node put
on the hash ring twice, points not all on one line where a hull keeps those inside its
edges.  Section 7 says
what happens outside.
## 4. Runs

A run of structures that do not interact has a variable `part`; each behaviour runs
one of them, and a property says for each part what it claims of it.

| run | what runs | properties | what it shows |
|---|---|---|---|
| `treiber_epoch_zero` | a reclaimer whose epoch is still 0 | `NoUseAfterFree` (violated) | finding 1 |
| `reclamation` | `epoch stack`: stack, epoch reclaimer and allocator; `stack`: the same on hazard pointers; `domain`: two threads with four nodes; `crowd`: three threads and three records; `epochs`: the epoch reclaimer under its most general client | `Consistent`, `TSConsistent`, `NoUseAfterFree`, `NoABA`, `RecordsAssigned`, `BoundedGarbage`, `EpochHalts`, `SinglyRetired`, `Linearizable`, `GracePeriodSpec` | each stack is an `AbstractStack`, and every address has one owner; publish-validate protects; a record can always be had; garbage is bounded whatever a reader does.  Nothing is freed that a pinned section can hold, although the scan reads records while they change; the epoch moves at most once past a pinned thread |
| `lock_free` | `queue`: the queue over `GracePeriod`; `stack`: the stack on its reclaimer, with fairness | `MSConsistent`, `NoUseAfterFree`, `Linearizable`, `EveryCallReturns`, `AllReclaimed` | linearizable FIFO, also for empty answers; `tail_` never falls behind `head_`; calls return; the last drain frees everything |
| `linearizable` | `deque`, `tagged stack`, `snapshot` | `StructuresConsistent`, `AtomicSnapshot`, `DequeLinearizable`, `TaggedLinearizable`, `BoundedCollects` | each task taken once through two growths; no ABA below the wrap-around; every scan is a state the registers were in; a collect is repeated only because another writer moved |
| `progress` | `consensus`, `sequencers`, `announce queue`, `scheduler`, `rcu` | `StructuresConsistent`, `Agreement`, `WorkConserved`, `NothingLeftBehind`, `NoReaderHoldsFreed`, `GracePeriodKept`, `OperationsEnd` | decisions agree and stay; every element summed once; no task is left when the workers stop; updates end |
| `announce_dangling` | the announce queue with one fast attempt | `HelpsValidPayload` (violated) | finding 2 |
| `stores` | thirteen parts: four engines (the LSM tree three times), ARC, 2Q, W-TinyLFU, directory cache, ring, clocks, Raft | `StructuresConsistent`, `GetsLastPut`, `CachesSound`, `ReplicationExact`, `NeverShrinks`, `MinimalMigration` | answers are the last value put; the lists of a cache stay disjoint and within their shares; a full ARC or 2Q stays full; a change of the ring moves only the keys it must; clocks order exactly the causally ordered; Raft logs match, leaders keep what was answered for, and a server that was told to commit what it had rejected misleads no other |
| `raft_rejected_commit` | the same parts | `StateMachineSafety` (violated) | finding 6 |
| `structures` | the parts of `MCStructures`, a structure or the inputs of a few functions each: all of 3.5 | `RepresentationSound`, `AnswersExact`, `GraphsAndPointsExact`, `TextsAndArraysExact`, `ChoicesBest` | what the operations rely on between calls holds after every sequence of calls; every answer is that of the naive definition, every choice the best of all |
| `push_relabel_labels` | all networks of four vertices with unit capacities | `ValidLabels` (violated) | finding 3 |
| `bidirectional_bfs` | the two searches on graphs of eight vertices | `ShortestPathFound` (violated) | finding 4 |
| `count_min_conservative` | conservative updates of three keys in two rows | `NeverUnderestimates` (violated) | finding 5 |

### 4.1 Bounds, and why they are enough

* *Threads.*  Two threads give every race of two calls.  Three are used where a third
  changes what can happen: two thieves against an owner (two thieves on the last
  element), three proposers, three workers, three threads competing for records.
* *Addresses.*  A stack needs two nodes for ABA (one read, one below it) and a third to
  come between; three addresses with three calls per thread, five of
  them pushes, pops and scans by hand (`MaxAllCalls`), let an address be pushed, popped,
  freed, handed out and pushed again while the other thread sleeps in `pop()`.
  The liveness of the stack takes two to stay small without symmetry.
* *Thresholds.*  `AdvanceThreshold` and `ReclaimThreshold` 2 (64 and 16 in the code) make
  a scan meet a list with an old and a new node; 1 makes every `retire()` scan, where that is the hard case.
* *Epochs.*  `MaxEpoch` 3 from 1, for the reclaimer's clients: two advances, one more than
  can pass a pinned thread.  The stack on epochs is bounded by its calls only and goes
  further.  Beyond the bound the reclaimer only adds a constant to every epoch; the proof has none.
  No passing run starts at epoch 0: the special case of line 193 is the matter of
  `treiber_epoch_zero` alone, and `NoUseAfterFree` elsewhere says nothing of it.
* *Deque.*  Capacity 1 and four pushes grow the array twice (1, 2, 4) while thieves
  hold the old ones.
* *Tags.*  Eight, above the number of exchanges: the wrap-around, which the chapter
  names as a limit, is outside.
* *Stores.*  The LSM tree with thresholds of two: three keys with a run waiting on level 0;
  four keys where each flush is compacted, which fills three levels; six keys and two
  levels, where a merge is cut into several runs.  ARC of three pages with six keys reaches every
  case of its replacement; `PScale` 2 adds targets between integers.  W-TinyLFU
  of three has one slot in each segment; with fewer than eleven, probation
  never has two, so that several copies left behind there are met only by the proof.
* *Raft.*  Three servers, logs of two entries and two elections: an entry of the first
  leader on a minority, replaced by the second leader's, with the old call still to come;
  a follower that missed an entry and rejects the next, with an entry of its own in the place.
* *Sequential structures.*  Sizes are the least that reach every branch: nine entities for
  all cases of both red-black fix-ups, a Fibonacci heap with cascading cuts, ten
  keys for a double rotation on the way up from an erasure, tables of eight slots that
  grow to sixteen, universes of 8 and 16, words of a few bits with a partial last one;
  then a smaller instance in which values change.  `MCStructures` gives each instance.
* *Sketches.*  Three keys whose hashes share counters pairwise; a window of six steps
  whose buckets merge twice; a ring of eight places.
* *Functions.*  All directed graphs of three and four vertices (with the restrictions said
  in `MCStructures`), all strings of six letters of two kinds and four of three, all
  texts of six against patterns of three, all sets of three patterns of three letters,
  all arrays of five with three values, points and polygons of a grid of three by three.
  A border of a border, a clone of a clone, a failure link into a failure link, three
  points on a line and equal keys all occur.

Deadlock is checked except in six runs: `stores` and `raft_rejected_commit` stop at the bound of pages; in
`structures` computations end and a function is given its input and stops;
`push_relabel_labels` and `bidirectional_bfs` end with the computation, and
`count_min_conservative` at its bound on the counts.  The other specifications
end in an explicit terminal step or go on.

Symmetry (of threads, of nodes, of values) is used only in runs without liveness, and only for
sets whose members the definitions treat alike.

### 4.2 Fairness

The code's threads are operating-system threads that the scheduler always runs again,
so a thread *inside a call* has weak fairness; nobody is obliged to make a call.  The
scheduler's main and worker threads, and the readers of the RCU engine once they have
begun, have the same.

A compare-exchange of the weak kind may fail spuriously, but no machine fails it for
ever: the successful outcome has strong fairness in `TreiberStack`, `MichaelScottQueue`
and the sequencers of `WaitFreeObjects`.  This does not make the loops end by fiat: an exchange whose
expected value is stale is not enabled, and the bound on calls says how often others
can make it so; that is lock-freedom.  The consensus object, `AnnounceQueue` (wait-free by
helping) and `WaitFreeSnapshot` are checked with weak fairness only; for the last,
`BoundedCollects` is a safety property: a collect is repeated only if a writer moved.

In `WorkScheduler` which victim a thief draws and whether a steal succeeds is open, and
the termination holds all the same, because tasks are finitely many and their owners
pop them.

## 5. Proofs

Checked by TLAPS for every value of the constants: any number of threads and nodes,
any length of a behaviour.

| module | theorem | statement |
|---|---|---|
| `TreiberStack_proofs` | `EBRTypeCorrect`, `SinglyRetiredCorrect` | the reclaimer's state is well typed; a retired node is in one place |
| | `GraceSafety`, `EpochHaltsCorrect` | nothing reaches its deleter while a section pinned at its retirement is open; the epoch stops behind a pinned thread |
| | `ImplementsGracePeriod` | `EpochReclaimer` implements `GracePeriod` |
| | `TSTypeCorrect`, `NoUseAfterFreeCorrect`, `NoABACorrect` | the memory safety of the stack |
| | `ImplementsReclaimer` | the stack with its reclaimer is a behaviour of the reclaimer under its general client |
| | `TSConsistentCorrect`, `LinearizableCorrect` | what `head` reaches is a list without a cycle, and every push and pop takes effect at its exchange, on `AbstractStack` |
| `HazardPointerStack_proofs` | `RecordsAssignedCorrect`, `BoundedGarbageCorrect` | no thread is refused a record; a thread's list of retired nodes stays below the bound of the chapter |
| | `NoUseAfterFreeCorrect`, `NoABACorrect`, `HSConsistentCorrect`, `LinearizableCorrect` | as for the stack on epochs |
| | `ImplementsDomain` | the stack with its domain is a behaviour of the domain under its general client |
| `MichaelScottQueue` | `MSInvCorrect`, `NoUseAfterFreeCorrect` | the inductive invariant, memory safety over every reclaimer that keeps `GracePeriod` |
| | `MSConsistentCorrect`, `LinearizableCorrect` | the list from `head_` is the queue, and the queue implements `AbstractQueue`, also where it answers "empty" |
| `MCLinearizable` | `CLTypeCorrect`, `FitsArrayCorrect`, `NoStaleStealCorrect`, `BottomRestoredCorrect`, `DequeLinearizableCorrect` | the deque: what is between `top_` and `bottom_` fits the array, a thief that wins its exchange took the item that was there, and the deque implements `AbstractDeque` |
| | `NoABACorrect`, `OneOwnerCorrect`, `TaggedLinearizableCorrect` | the tagged stack: a successful exchange links the node that is really next, a node is in one place, linearizability |
| | `AtomicSnapshotCorrect`, `BoundedCollectsCorrect` | every scan returns a state of the registers from inside its interval; it moves on only when a writer it had not seen move does |
| | `StructuresConsistentCorrect` | the invariant of the run `linearizable`, of all three |
| `MCProgress` | `CSInvCorrect`, `AgreementCorrect`, `ValidityCorrect`, `TicketsExactCorrect` | consensus; the sequencers give each number once |
| | `TableAliveCorrect` | the announcement table points to no operation whose call is over |
| | `RcuInvCorrect`, `NoReaderHoldsFreedCorrect`, `OneWriterDeletesCorrect`, `ImplementsGrace` | the inductive invariant of the read-copy-update engine, reader safety, one deletion per replaced entry, the grace period |
| | `WKInvCorrect`, `WorkConservedCorrect`, `NothingLeftBehindCorrect` | every element is in one task, held range or sum; `active_tasks` is the number of tasks in flight, so that a worker that leaves leaves nothing behind |
| | `StructuresConsistentCorrect` | the invariant of the run `progress`, of all five |
| `Engine_proofs` | `LSMCorrect` | the runs of a level below the first are sorted and apart, only the last level drops tombstones, and `get()` of the LSM tree finds the last value put |
| | `BCCorrect` | Bitcask reads the last value put from its log, after merges in any order, and no pointer leaves the log |
| | `SPCorrect` | cells and slots of a page never meet; the slotted pages answer with the last value put |
| | `TinyCorrect` | the small LSM engine answers with the last value put |
| | `MinimalMigrationCorrect` | a node that joins or leaves the ring takes or gives only its own keys |
| | `PreferenceListCorrect` | the preference list names as many different nodes as asked for, in the order of the ring |
| | `CausalityExactCorrect` | `compare()` of vector clocks is causality |
| | `LogsCorrect` | Raft logs match, and every leader has all that `client_request()` has answered for |
| | `AppliedExactCorrect` | a server that was not told to commit what it had rejected has applied what its log and every leader's start with |
| | `ReplicationExactCorrect` | these three with the clocks: the invariant of the run `stores` |
| `MCStores` | `GetsLastPutCorrect` | the four engines as the run `stores` has them: whichever runs, it answers with the last value put |
| | `ARCCorrect` | a page is on one of ARC's four lists at most; resident, recently seen and known pages keep within their bounds, whatever the target does |
| | `TQCorrect` | a block is in one of 2Q's three queues at most; the cache and the ghosts keep within theirs |
| | `TLCorrect` | the segments of W-TinyLFU keep their shares, and the copy `get()` finds first has the last value put |
| | `CachesSoundCorrect`, `NeverShrinksCorrect` | the three together, an invariant of the run `stores`; a full ARC or 2Q stays full |
| | `DcacheCorrect` | a dentry of the directory cache is on its bucket's chain and on the LRU list, or on neither; the links of every list agree both ways; the LRU list is in the order of last use |

`LinkedNodes` holds the lemmas about lists of nodes the five structures share.
`MCLinearizable`, `MCProgress` and `MCStores` hold the proofs of the modules they compose;
those of the storage engines, the ring, the clocks and Raft are in `Engine_proofs`, which
`MCStores` extends.

### 5.1 Hypotheses

The modules' named assumptions on their constants (sets apart, numbers natural or
positive) are evaluated by TLC on every run.  Some theorems have a hypothesis more, each
because the code needs it:

| hypothesis | theorems | why |
|---|---|---|
| `SafeDeployment == StartEpoch > 0 /\ Stale = {}` | the safety of the epochs and of the stack on them | the threads start when the global epoch is above 0 (finding 1), and none brings a record registered with an earlier reclaimer (first row of section 7) |
| `FreshDomain`: no thread has an id of an older domain | the hazard pointers | second row of section 7 |
| `EnoughRecords`: at most `MaxThreads` threads | `RecordsAssignedCorrect` | `acquire_thread_id()` throws when every record is in use |
| `[]Unwrapped`: fewer than `TagModulus` exchanges | the tagged stack | the tag wraps, as the chapter says |

The others have none: the queue, RCU, the deque, the snapshot, consensus, the scheduler,
the caches, the distributed engines and the storage engines.  Of the engines, `SPSizes`
says that a page holds its header and one record of any value, as `put()` never asks
whether a record fits an empty page; `BCSizes` that the length of a key fits the 16 bits it
is stored in; `LSMSizes` and `TinySizes` that keys are numbers in an order, thresholds are
positive, there are two levels or more, and no value is the tombstone (a string equal to it
would be read as a deletion).  `DCSizes` says of the directory cache that buckets and dentries
are finitely many, that the hash of a name is a bucket, that the null pointer is no
`list_head`, and that the names of a dentry's two links are not names of buckets.  Capacities are positive; that of W-TinyLFU is
at least 2 (`TLSizes`; section 7 says why).  What is proved of Raft holds under what section 3.4 says
its model assumes of elections, which is a guard of the action and not a hypothesis; nothing is
assumed of the servers a request reaches.  `TokensDistinct` says that no two virtual nodes
have one hash; where they have, the second takes the token over, and migration is not minimal.
`TokensFinite` says that nodes and tokens are finitely many and every node has one.

### 5.2 Arguments

*Lists.*  The models read a list by walking it, `List(h, nx)`.  Proving needs the
opposite view, a sequence without repetition whose neighbours are linked
(`IsList`).  `WalkFindsList` says the two agree: the positions of a list that are walked
wrongly would have a least member (`SetInduction`, from the well-order of the naturals).
Then `ListPush`, `ListAppend` and `ListTail` say what the three moves of the structures
do to the list, and `ValuesPush`, `ValuesAppend`, `ValuesTail` what they do to
its values; `ListFits` and `ListCounts` that it is finite and as long as it has nodes.
So each linearizability proof has one step per exchange that succeeds, and
`SameNodes` and `SameValues` for all others.

*The epochs.*  `GraceRespected` is not inductive.  The argument needs that a node is
stamped with an epoch no older than that of any thread pinned at its retirement
(`RetiredAfterPins`; the epoch is loaded before the lock is taken, so the stamp may be
old, but not older than a section that was open), and that a scan in progress has
counted, among the records it has passed, every thread it must (`ScanCovers`): a thread
a retired node waits for, or one that was already active when the epoch last moved.
Threads that pin behind the scan's back need not be counted, because they can hold only
what is still linked.  With `RecordsOnList`, `EpochsSeen` and `ScanLocked` the
conjunction `EInv` is inductive.

*The stack on epochs.*  `TSInv` uses of the reclaimer only the promise: `HeldSafe` says
that a node `pop()` has read while pinned is not free, that if it is retired the
reclaimer waits for this thread, and that nobody has it in hand to push it; hence `next`
of it cannot change, which is `NoABA`.  `ListShape` says no two nodes have the same
successor, `OneHolder` that an address is in one place.

*The hazard pointers.*  `DInv` ties records and threads: a record in use has one owner,
and the owner's slots are the only ones it writes.  `SlotHeld` says what a slot of `pop()`
holds at each step, and `ScanSees` that a scan which passed a validated slot has it
in its set, so that a sweep spares the node; `HeldSafe` is then as above.
`RecordsAssigned` is a matter of counting: `Position` gives each thread the index it looks
at or owns, `Sparse` says that from every index on there are at most as many threads as
records.  A release keeps that (`GoingBack`); a thread that finds a record taken and moves
on leaves its owner behind (`GoingOn`); so none gets past the last record.
`GarbageInv` (`Modest`) bounds what a scan has collected by the records it has passed, and
hence what its sweep leaves by the number of records.

*The queue.*  `MSInv`: the list from `head_`, `tail_` at its last node or the one before
(`TailNearEnd`), the nodes an enqueuer or a dequeuer has read at or behind the current ones
(`EnqueuersBehind`, `DequeuersBehind`) and not free, because the reclaimer waits for them.
An empty answer takes effect before it is given, when `next` of the dummy was read:
the history set `sawEmpty` of the specification holds the calls the queue was empty
during, and `EmptySeen` says that whoever is about to answer "empty" is in it.

*The deque.*  Two indices nearer than the capacity have different slots (`SlotsApart`:
equal remainders would differ by a multiple of the capacity), so that `Put` disturbs no
item of the window, and `Grow` copies all of it into an array twice as large.
`RoundedCapacity`, the power of two the constructor rounds up to, is the number whose
only odd divisor is 1, as the model says it (`PowerOfTwo`), because the provers have no
theory of exponentiation; `index & mask` is then `index % capacity`.  In `CLInv`,
`Indices` relates `top_`, `bottom_` and the reserved end of the owner in the middle of
`pop_bottom()`; `ThiefLocals` says that a thief whose `t` is still `top_`
finds in the array it loaded, which may be an old one, the item the current array has
there.  That is `NoStaleSteal`, and by `WindowPush`, `WindowPop` and `WindowSteal` each
exchange or store is a step of `AbstractDeque`.

*The tagged stack.*  Until the tag wraps it counts the exchanges (`TagsCount`): a thread
whose word is the present one has seen no exchange since, so that the successor it read,
from a node that may have been freed and used again, is the present one.  `OneOwner` counts
the nodes in hands, in the list and free by disjoint finite sets.

*The snapshot.*  The invariant refers to `first`, the registers when the scan began:
what the first collect found is no older than that state, and what the second found no
older than the first (`Collected`); some state of the interval lies between the two
(`Between`), and is what two equal collects return; a snapshot stored by a writer
that has moved twice since `first` was taken inside the interval (`Inside`).

*RCU.*  `RcuInv` says which announcements a reader in each step can have, that a writer
waiting for readers has every reader it must wait for still ahead of it, and that
the entries being replaced by several writers are different.

*Consensus, sequencers, scheduler.*  `CSInv`: a proposer is in the registry before it
competes, and the winner, once set, never changes.  `WKInv` says that the ranges in the
deques, in hands and summed partition the elements (`Halves`: the two halves of a range
are apart and make it up); `WKCount` that `active_tasks` is the number of places where
a task is or is being run, by one more or less for each push, take and deletion
(`PlacePushed`, `PlaceTaken`, `PlaceLeft`).  `AQInv`: an entry of the announcement table
is of a thread in the slow part of its call, which is retracted before the call ends.

*Tables.*  The memtable, a run, the records of the small engine are functions from some keys.
`Overlay` lays tables on one another, the first that has a key decides (`OverlayFacts`,
`LaidOn`).  The model writes a loop as the function from the number of rounds done to the
loop's variables; that there is such a function, which `CHOOSE` and recursion need, is
`Rounds`, and what each round keeps holds after the last (`UpTo`, the least
counterexample again).

*The LSM tree.*  `LSMInv`: what the memtable and the levels say of a key (`TreeEntry`: the
first of them that has it) is the last value put, `Shown` making one of "deleted" and
"not there"; the runs of each level below the first are in sequence, and the last level has
no tombstones.  It has two halves.  *What get() finds*: `BlockSearch` and `TableGetIs` say that the
search of the sparse index ends in the only block that can hold the key, and that the scan of the
block returns what the run has; `LevelGetIs` that the search among the runs of a level ends
at the only run that can, when they are in sequence; `GetIs` that the levels are then asked
in order.  *What a compaction keeps*: `MergedDownFacts` is the merge of the picked runs with those
they meet below.  The runs left alone lie on either side of the merged keys,
so that the pieces it is cut into (`ChunksFacts`) fit between them; tombstones may be
dropped only where nothing lies below (`forget`), which is why the last level is asked for.
`CompactStep` adds that the levels together say the same before and after: a picked run of
level 0 takes all that level's runs with it, or an older run would hide a newer one, and deeper
runs of one level share no key, so one may go down alone.  `CompactedLevelsFacts` is the loop
over the levels.

*Bitcask.*  `BCInv` is that the record a pointer of the key directory leads to is whole on the
log and holds the last value (`Stored`).  Appending disturbs no record already there
(`Logged`); a merge writes the live records to a new log in some order, and each
pointer gets the offset of its own (`MergeStep`).  `BCRoom` counts cells: the live
records take no more than the log has, so that a merge cannot lengthen it.

*The slotted pages.*  `PageSound`: the slots end where the free bytes begin, cells lie from the end
down, each before the one put last, so a new cell, which takes free bytes only
(`CellAdded`), overwrites none; `SPInv` adds that the index leads to the newest record.

*The small engine.*  `TinyInv` is `LSMInv` with one level of runs.  A compaction of all of
them may forget the sentinels, as it leaves nothing below to hide.

*ARC and 2Q.*  `ARCInv` is what the chapter of ARC asks for: a page on one list
(`OnOneList`), `t1 + t2 <= c`, `t1 + b1 <= c`, all four `<= 2c` (`Sized`), and a target within
the capacity.  It is inductive because each case of a miss makes room
before it inserts, and `replace()` moves one page from a resident list to its ghosts
whenever the cache is full (`ReplacedFacts`); the target decides only which, so nothing is
asked of it.  `TQInv` is the same of 2Q's three queues: `ReclaimedFacts` says that
`reclaim_space()` leaves room, also when the one queue it prefers is empty.  The list
lemmas (`Pushed`, `Dropped`, `Removed`, `Erased`) say what a push, a pop and
an erasure in the middle do to a list without repetition.

*W-TinyLFU.*  `TLBounded` and `TLAnswers` are not inductive: an item promoted out of
probation leaves a copy there, which `put()` does not update.  `TLInv` says that a copy in
the window or the protected segment is up to date, and that one in probation is, or else
its key is in the protected segment, where `get()` looks first.  The hard step
is the promotion into a full protected segment (`GetProbationStep`): the
item it hands back to probation, which is up to date, overwrites the old copy of its key.

*The directory cache.*  `DCInv` says what the pointers are meant to be: each list head begins a
closed loop (`Loop`) through a sequence of entries, each entry's `next` and `prev` naming its neighbours.
`WalkIs` says that the walk the model reads a list by finds that sequence.  An
operation of `list.h` writes the entries it touches and no others (`Unlinked`, `Tailed`), so
that lists without a common member are left alone (`LoopKept`); that no
`list_head` is on two lists is therefore a part of the invariant.  Removing a dentry from its bucket and
from the LRU list, and adding it to both, keep the lists apart and full
(`EntryDropped`, `EntryAdded`, `Lists`).  A hit deletes an entry and appends it at the tail,
which is what a use does to the order of last use (`ReusedOrder`).

*The ring.*  `RingInv` says which tokens are on the ring, and whose.  The owner of a key is
a least token (`LeastToken`, from the well-order of the naturals); `ChosenFromPart` says
that the choice out of a set, when it lies in a part of it, is the choice out of the part,
so that adding or taking away the tokens of one node changes only choices that fall on them.
The walk of the preference list has, after as many rounds as it made, the nodes of the tokens it
has passed (`WalkGood`, `VisitStep`); when it is over it has enough, or has passed all
(`PreferenceListIs`); the next node is that of the first token not named yet (`OneNamed`).

*The clocks.*  Each clock counts exactly the ticks its process knows of (`ClocksTell`):
the history of a clock is, for each process, its first ticks up to the count, so that
inclusion of histories is the order of the counts (`CountedOrder`).

*Raft.*  `RaftInv`: all servers are in the leader's term; terms grow along each log;
logs with an entry of one term agree up to it (`LogsMatch`); calls of the current
term are the leader's, and commit only what was answered for before the entry
(`CallsOfLeader`), which is why `commit_index = min(leader_commit, last_log_index())` is
safe although entries of an older leader may be left behind.  `CommittedUpTo(k)`, of
the length `k` of `acked`, is the point: a majority has the leader's first `k` entries, and so
has every log with an entry of a later term than the `k`-th.  A candidate that a majority
finds up to date meets that majority in one server (`MajoritiesMeet`), and by the last
entries of the two logs has those entries too (`LeaderComplete`).  `PlacedFacts` and
`AppendedFacts` say what `append_entries()` does to a log that has something in common with
the leader's, `RejectedFacts` that it leaves one alone that has not.  Why a misled server
misleads no other is `CommitsAnswered`: its commit index, wrong for its own log, is
still no greater than the length of `acked`, so that once it leads, and by then has
`acked`, the commit index in its calls is right.  `OthersSound` is what the others have applied.

### 5.3 Only model-checked

* *Liveness* (`EveryCallReturns`, `AllReclaimed`, termination of the scheduler and of the
  wait-free calls): it needs fairness and ENABLED.
* *The composite invariants of `MCReclamation`*, whose parts are proved one by one.
* *`StructuresConsistent` of `MCStores`*.  Its parts are proved one by one, except for the
  two further LSM trees: they are `StorageEngines` with
  other constants, to which `LSMCorrect` applies as it stands, but to cite it the provers
  would need a copy of its proof for each.
* *Sequential structures and functions* (section 3.5): they rest on RECURSIVE operators,
  which the provers do not take, and on induction over what those compute.

## 6. Findings

1. `treiber_epoch_zero`.  `concurrent_queues_and_stacks.cpp:193` makes `safe_epoch` the
   current epoch when `min_active` is 0.  A thread pinned at epoch 0 (every thread of a
   new reclaimer until the epoch first advances) thereby protects nothing:
   a node retired in the current epoch is freed while that thread is about to read it.
   The chapter
   (`docs/16-parallel-concurrent-and-lock-free/concurrent-queues-and-stacks.md:180`)
   requires the least active epoch to be above the epoch of retirement.
2. `announce_dangling`.  `lock_free_and_wait_free_basics.cpp:314` dereferences a pointer
   loaded from the announcement table although the operation lives in the frame of
   another thread's call, which may have returned.
3. `push_relabel_labels`.  `network_flow_and_push_relabel.cpp:75`: `relabel()` computes
   the least height of the neighbours, then the gap heuristic lifts some of them, then
   the vertex gets the height computed before.  The labels stop being valid in the sense
   of the chapter's invariant 4; the flow found was maximal in every network checked.
4. `bidirectional_bfs`.  `meet_in_the_middle.cpp:146` returns at the first vertex both
   searches have seen, in the middle of a level.  A pair that meets later in the same
   level can be nearer: the answer is 4 where the distance is 3, and line 122 promises
   the shortest distance.
5. `count_min_conservative`.  `update_conservative()` (`count_min_sketch.cpp:58-67`) adds
   the whole count to the counters equal to the least and nothing to the others.  With a
   count above 1 a counter that was one larger is then too small and the key is
   underestimated, which the chapter rules out
   (`docs/15-external-memory-cache-oblivious-and-streaming/count-min-sketch.md:119`).
6. `raft_rejected_commit`.  `distributed_state_engines.cpp:329`: `client_request()` writes
   `min(leader.commit_index, last_log_index())` to every follower, also to one whose
   `append_entries()` has just returned false, and applies what that one's log has there.
   The trace: a leader appends `x` and reaches nobody; another is elected and commits `y` at
   the same index with the third server; its next entry, which the first server rejects, is
   committed too, and the first server, told so, applies `x`.
   The chapter (`docs/18-systems-case-studies/distributed-state-engines.md:51`)
   says that no two servers apply different entries for an index.  A call must have been
   lost before, as to the lagging follower of the chapter's lines 116-119; in the file's own
   simulation every call arrives and none is rejected.

## 7. Known deviations and limits, without a run

Each can be reproduced as said.

| where | what | how to see it |
|---|---|---|
| `concurrent_queues_and_stacks.cpp:90` | the record is `thread_local` and registered with the first reclaimer a thread meets; on a second one it is invisible to the scan | `Stale = {t1}` in `MCReclamation.cfg`, part `epoch stack`: `NoUseAfterFree` is violated |
| `hazard_pointers_and_epoch_reclamation.cpp:82` | the same with the thread's id of an earlier domain | `FromOldDomain = {t1}` in `MCReclamation.cfg`: `NoUseAfterFree` is violated |
| same file, `release_thread_id()` | a thread that exits while another protects one of its retired nodes leaves that node in its thread-local list, which nobody scans again | `NothingLeaks` of `HazardPointerStack` |
| `aba_problem.cpp:166` | `pop()` reads `next` of a node that may be deleted; the tag makes the exchange fail afterwards | `NoUseAfterFree` of `TaggedStack` |
| `aba_problem.cpp:46` | the tag wraps after 2^16 exchanges; the chapter says so | `TagModulus` below the number of exchanges |
| `lock_free_and_wait_free_basics.cpp`, announce queue | the owner and a helper can both add the value of one operation | `AppliedOnce` of `AnnounceQueue` with `FAST_PATH_RETRIES = 1` |
| `lsm_trees.cpp` | the write-ahead log is written and cleared and never read, although the chapter describes replay (`docs/15-external-memory-cache-oblivious-and-streaming/lsm-trees.md:216`) | read the code; there is no action to model |
| `high_performance_caching.cpp`, W-TinyLFU | with a capacity of 2 the shares of the segments add up to 3, and with 1 the unsigned share of the protected segment wraps, so that nothing bounds it; `TLSizes` leaves the second out | compute `ProtectedCap`; `TLSizes` with `CacheCapacity <- 1` |
| `distributed_state_engines.cpp`, `get_preference_list` | a replication factor of 0 returns every node: the size is compared after a node is added, and is never 0 then | `PreferenceListSound` asks for 1 node at least |
| `distributed_state_engines.cpp:259` | `commit_index` is the minimum of the leader's and the last index, not of the last *new* entry; entries of an older leader may stay behind the call's, but a call carries the commit index its leader had before the entry | the part `raft` of `stores`: `ReplicationExact` |
| `storage_engines_breakdown.cpp:68` | the stored key length is 16 bits | `LengthModulus` below a key length |
| `storage_engines_breakdown.cpp:246` | `put()` does not compare a record with the room of an empty page | a value longer than `PageSize` |
| `robin_hood_cuckoo_and_hopscotch_hashing.cpp:311` | three keys with the same 64-bit hash make the cuckoo table rehash for ever | keys equal modulo `MaxCapacity` |
| `network_flow_and_push_relabel.cpp`, `add_edge` | an edge from a vertex to itself gets a wrong index of its reverse | outside the domain of `PushRelabel` |
| `scapegoat_and_aa_trees.cpp`, scapegoat | the chapter asks for the height bound of the present size after every operation (`docs/05-trees-and-hierarchical-structures/scapegoat-and-aa-trees.md:232`); the code bounds it by `q_`, the largest size since the last rebuild, and by one more than that | `Height(root) <= MaxHeight(q_) + 1` is what `TreeSound` claims |
| `binomial_heaps.cpp`, `decrease_key` | keys are swapped between nodes, so that a handle from `insert()` may afterwards name another key | the model's handles are nodes, as in the code |
| `binary_heap.cpp`, heapsort | with the comparison that makes a least heap the array ends in descending order | `SortsExactly` states the order the code gives |
| `splay_trees.cpp`, move assignment | returns `this` where a reference is due; the template is never instantiated | left out |
| `dynamic_array.cpp:119` | `push_back(v[0])` on a full array reads its argument after the old buffer is deleted; `insert()` moves the elements under an argument that is one of them | the model's arguments are values |
| `cut_and_cycle_properties.cpp`, `reverse_delete_mst` | on a graph that is not connected no edge is ever deleted, as no deletion leaves it connected | `ReverseDelete` is compared on connected graphs |
| `convex_hull.cpp`, `monotoneChain(include_collinear)` | on points of one line the inner points are returned twice | `HullsExact` asks for points not all on one line there |
| `memory_allocation_and_fragmentation.cpp`, arena | a request near 2^64 bytes makes the sum wrap and seems to fit | sizes are small in the model |
| `consistent_hashing.cpp` | a node added twice is in `physical_nodes_` twice, while one removal takes all its places on the ring: `node_count()` still counts it | `AddNode` is for a node that is not there |
| `manacher_algorithm.cpp:26` | a string that contains `^` can make the expansion pass the first sentinel | outside the domain: letters are not sentinels |

## 8. Not modelled

* *Destructors, copies and moves*, which run when one thread is left, and observers such
  as `size()`, where they return a field.
* *Weak memory beyond x86*, and torn or uninitialised reads other than those said above.
* *The sketch inside W-TinyLFU, the Bloom filters inside the LSM tree, timestamps,
  statistics*: any answer they can give is allowed, or they decide nothing.
* *Results in floating point*: the estimates of HyperLogLog, false positive rates,
  fractional profits, square roots, `pointToSegmentDistance` and
  `lineSegmentIntersectionPoint`.  The integer decisions around them are modelled.
* *Hash functions*: arbitrary functions, chosen to collide; counters past 32 bits.
* *The simulated disk* of `io_model_and_external_memory.cpp`, which counts block transfers.
* *Traversals of n-ary trees, the Fibonacci heap's meld*, and demonstrations that print.
* *Mathematics and machine-model demonstrations, test and benchmark programs, Python
  counterparts*: nothing with a state.
