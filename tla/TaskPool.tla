------------------------------- MODULE TaskPool -------------------------------
(***************************************************************************)
(* What the thread pool of src/src/ThreadPool.{h,cpp} promises its client: *)
(* tasks are started in the order thread_pool_add_task was called, at most *)
(* Width of them run at a time, each runs exactly once, and the pool can   *)
(* be destroyed only after the last one has finished.  ThreadPool refines  *)
(* this module (see TP in ThreadPool), and MtStep4NTT is built on it.      *)
(*                                                                         *)
(* Note what is not promised: thread_pool_wait guarantees no more than     *)
(* queue = << >>, and says nothing of the tasks in running.                *)
(***************************************************************************)
EXTENDS Naturals, Sequences, FiniteSets

CONSTANTS Job,    \* what a task computes; the client adds each one once
          Width   \* the number of worker threads

VARIABLES queue,    \* the tasks added and not yet started, oldest first
          running,  \* the tasks some worker is executing
          done,     \* the tasks that have returned
          closed    \* thread_pool_destroy has returned

poolVars == <<queue, running, done, closed>>

Queued == {queue[i] : i \in DOMAIN queue}

PoolInit == /\ queue = << >>
            /\ running = {}
            /\ done = {}
            /\ closed = FALSE

\* thread_pool_add_task links a task behind the others.
Add(j) == /\ ~closed
          /\ j \notin Queued \cup running \cup done
          /\ queue' = Append(queue, j)
          /\ UNCHANGED <<running, done, closed>>

\* A worker unlinks the oldest task and starts it.
Start == /\ queue # << >>
         /\ Cardinality(running) < Width
         /\ running' = running \cup {Head(queue)}
         /\ queue' = Tail(queue)
         /\ UNCHANGED <<done, closed>>

\* The function of a task returns.
Finish(j) == /\ j \in running
             /\ running' = running \ {j}
             /\ done' = done \cup {j}
             /\ UNCHANGED <<queue, closed>>

\* thread_pool_destroy returns.
Close == /\ ~closed
         /\ queue = << >>
         /\ running = {}
         /\ closed' = TRUE
         /\ UNCHANGED <<queue, running, done>>

\* The steps of the worker threads, for a client that composes itself with
\* the pool.
WorkerStep == Start \/ \E j \in Job : Finish(j)

PoolNext == WorkerStep \/ Close \/ \E j \in Job : Add(j)

\* A task function terminates and a worker that can take a task takes one.
PoolFairness == WF_poolVars(Start) /\ \A j \in Job : WF_poolVars(Finish(j))

\* What the pool may do, and with fairness what it has to do.
PoolSafety == PoolInit /\ [][PoolNext]_poolVars
PoolSpec == PoolSafety /\ PoolFairness
===============================================================================
