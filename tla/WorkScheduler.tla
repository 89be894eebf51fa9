----------------------------- MODULE WorkScheduler -----------------------------
(***************************************************************************)
(* WorkStealingScheduler of work_stealing_deques.cpp under the client of   *)
(* its test: tasks that sum a range, push its right half as a new task and *)
(* go on with the left one; the main thread waits for the sum and stops    *)
(* the workers.  A deque call is atomic here, which ChaseLevDeque shows to *)
(* be right (AbstractDeque).                                               *)
(***************************************************************************)
EXTENDS Integers, FiniteSets, SequencesExt

CONSTANTS
    NumWorkers,   \* num_workers_
    NumElements,            \* the elements to be summed: 0 .. NumElements - 1
    Grain         \* ranges this long are summed at once: 100 in the test

ASSUME WKSizes == NumWorkers \in Nat \ {0} /\ NumElements \in Nat \ {0} /\ Grain \in Nat \ {0}

Worker == 0..(NumWorkers - 1)
Interval == {r \in (0..NumElements) \X (0..NumElements) : r[1] <= r[2]}
NoTask == << >>

VARIABLES
    deques,           \* deques_: the tasks, a task being its range, top first
    stop,             \* stop_
    completed_tasks,  \* completed_tasks_
    summed,           \* global_sum: the elements added
    main,             \* where the main thread is
    kpc,               \* where a worker is in worker_loop()
    range,            \* the range a worker is summing, or NoTask
    tasks,            \* history: task objects made and not deleted
    made              \* history: task objects made

wkVars == <<deques, stop, completed_tasks, summed, main, kpc, range, tasks, made>>

WKShape ==
    /\ deques \in [Worker -> Seq(Interval)]
    /\ summed \in SUBSET (0..(NumElements - 1))
    /\ main \in {"submit", "start", "wait", "join", "done"}
    /\ kpc \in [Worker -> {"new", "loop", "pop", "steal", "run", "delete", "exited"}]
    /\ range \in [Worker -> Interval \union {NoTask}]

WKTypeOK ==
    WKShape /\ stop \in BOOLEAN /\ completed_tasks \in Nat /\ tasks \in Nat /\ made \in Nat

WKInit ==
    /\ deques = [w \in Worker |-> << >>]
    /\ stop = FALSE
    /\ completed_tasks = 0
    /\ summed = {}
    /\ main = "submit"
    /\ kpc = [w \in Worker |-> "new"]
    /\ range = [w \in Worker |-> NoTask]
    /\ tasks = 0
    /\ made = 0

Elements(r) == {k \in 0..(NumElements - 1) : r # NoTask /\ r[1] <= k /\ k < r[2]}

WKGoto(w, from, to) == kpc[w] = from /\ kpc' = [kpc EXCEPT ![w] = to]

Push(w, r) ==
    /\ deques' = [deques EXCEPT ![w] = Append(@, r)]
    /\ tasks' = tasks + 1
    /\ made' = made + 1

-----------------------------------------------------------------------------
(* The main thread *)

SubmitInitial ==
    /\ main = "submit"
    /\ main' = "start"
    /\ Push(0, <<0, NumElements>>)
    /\ UNCHANGED <<stop, completed_tasks, summed, kpc, range>>

Start ==
    /\ main = "start"
    /\ main' = "wait"
    /\ kpc' = [w \in Worker |-> "loop"]
    /\ UNCHANGED <<deques, stop, completed_tasks, summed, range, tasks, made>>

\* The test has seen the sum it expects and calls stop().
Stop ==
    /\ main = "wait"
    /\ summed = 0..(NumElements - 1)
    /\ main' = "join"
    /\ stop' = TRUE
    /\ UNCHANGED <<deques, completed_tasks, summed, kpc, range, tasks, made>>

Join ==
    /\ main = "join"
    /\ \A w \in Worker : kpc[w] = "exited"
    /\ main' = "done"
    /\ UNCHANGED <<deques, stop, completed_tasks, summed, kpc, range, tasks, made>>

-----------------------------------------------------------------------------
(* worker_loop() *)

Loop(w) ==
    /\ WKGoto(w, "loop", IF stop THEN "exited" ELSE "pop")
    /\ UNCHANGED <<deques, stop, completed_tasks, summed, main, range, tasks, made>>

PopOwn(w) ==
    /\ IF deques[w] = << >>
         THEN WKGoto(w, "pop", "steal") /\ UNCHANGED <<deques, range>>
         ELSE /\ WKGoto(w, "pop", "run")
              /\ range' = [range EXCEPT ![w] = Last(deques[w])]
              /\ deques' = [deques EXCEPT ![w] = Front(@)]
    /\ UNCHANGED <<stop, completed_tasks, summed, main, tasks, made>>

\* Mutant: the stolen task stays in the victim's deque.
StealKeeps(w) ==
    /\ \/ /\ \E victim \in Worker \ {w} :
                /\ deques[victim] # << >>
                /\ range' = [range EXCEPT ![w] = Head(deques[victim])]
          /\ WKGoto(w, "steal", "run")
       \/ WKGoto(w, "steal", "loop") /\ UNCHANGED range
    /\ UNCHANGED <<deques, stop, completed_tasks, summed, main, tasks, made>>

\* A random victim's oldest task; or nothing, also if the exchange failed
\* or the victim drawn is the worker itself.
Steal(w) ==
    /\ \/ /\ \E victim \in Worker \ {w} :
                /\ deques[victim] # << >>
                /\ range' = [range EXCEPT ![w] = Head(deques[victim])]
                /\ deques' = [deques EXCEPT ![victim] = Tail(@)]
          /\ WKGoto(w, "steal", "run")
       \/ WKGoto(w, "steal", "loop") /\ UNCHANGED <<deques, range>>
    /\ UNCHANGED <<stop, completed_tasks, summed, main, tasks, made>>

Mid(r) == r[1] + (r[2] - r[1]) \div 2

\* The task: the right half of a long range becomes a task on the deque of
\* the worker that runs it.
Split(w) ==
    /\ kpc[w] = "run"
    /\ range[w][2] - range[w][1] > Grain
    /\ Push(w, <<Mid(range[w]), range[w][2]>>)
    /\ range' = [range EXCEPT ![w] = <<@[1], Mid(@)>>]
    /\ UNCHANGED <<stop, completed_tasks, summed, main, kpc>>

Sum(w) ==
    /\ WKGoto(w, "run", "delete")
    /\ range[w][2] - range[w][1] <= Grain
    /\ summed' = summed \union Elements(range[w])
    /\ range' = [range EXCEPT ![w] = NoTask]
    /\ UNCHANGED <<deques, stop, completed_tasks, main, tasks, made>>

\* Mutant: a worker counts its task only if it need not stop.
CompleteUnlessStopped(w) ==
    /\ WKGoto(w, "delete", "loop")
    /\ tasks' = tasks - 1
    /\ completed_tasks' = IF stop THEN completed_tasks ELSE completed_tasks + 1
    /\ UNCHANGED <<deques, stop, summed, main, range, made>>

\* The task is deleted and counted.
Complete(w) ==
    /\ WKGoto(w, "delete", "loop")
    /\ tasks' = tasks - 1
    /\ completed_tasks' = completed_tasks + 1
    /\ UNCHANGED <<deques, stop, summed, main, range, made>>

MainStep == SubmitInitial \/ Start \/ Stop \/ Join

WorkerStep(w) ==
    \/ Loop(w) \/ PopOwn(w) \/ Steal(w) \/ Split(w) \/ Sum(w) \/ Complete(w)

Finished == main = "done" /\ UNCHANGED wkVars

WKNext == MainStep \/ (\E w \in Worker : WorkerStep(w)) \/ Finished

WKSpec == WKInit /\ [][WKNext]_wkVars

\* The threads run; which victims are drawn, and whether a steal succeeds, is
\* left open.
WKFairSpec ==
    WKSpec /\ WF_wkVars(MainStep) /\ \A w \in Worker : WF_wkVars(WorkerStep(w))

-----------------------------------------------------------------------------
(* Properties *)

\* Tasks are on the deques, from 1 on, or in the hands of a worker, at 0.
TaskAt(w, i) == IF i = 0 THEN range[w] ELSE deques[w][i]

Holds(w, i, k) == i \in 0..Len(deques[w]) /\ k \in Elements(TaskAt(w, i))

\* Every element is summed already or lies in exactly one range that a deque
\* or a worker holds: no part of the work is lost or done twice, whoever
\* steals it.
WorkConserved ==
    main # "submit" =>
        \A k \in 0..(NumElements - 1) :
            /\ k \in summed
                 <=> ~\E w \in Worker : \E i \in 0..Len(deques[w]) : Holds(w, i, k)
            /\ \A w, v \in Worker : \A i \in 0..Len(deques[w]), j \in 0..Len(deques[v]) :
                  Holds(w, i, k) /\ Holds(v, j, k) => w = v /\ i = j

\* After stop() has returned every task that was made has been run, counted
\* and deleted, also the last one, whose worker was still busy with it when
\* the sum was complete.
NothingLeftBehind ==
    main = "done" => /\ \A w \in Worker : deques[w] = << >>
                     /\ tasks = 0
                     /\ completed_tasks = made

\* The computation ends, even if no steal ever succeeds.
Terminates == (main = "start") ~> (main = "done")
================================================================================
