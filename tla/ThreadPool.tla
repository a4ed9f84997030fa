------------------------------ MODULE ThreadPool ------------------------------
(***************************************************************************)
(* src/src/ThreadPool.{h,cpp}: worker threads that take tasks from a       *)
(* singly linked list under one mutex and one condition variable, and the  *)
(* one client thread (every caller in the library is the main thread).     *)
(*                                                                         *)
(* Every access to the shared fields lies between pthread_mutex_lock and   *)
(* pthread_mutex_unlock (or the release inside pthread_cond_wait), so a    *)
(* critical section is one action, and pool->lock itself needs no          *)
(* variable; the code outside the mutex is an action of its own.  The list *)
(* is modelled as the pointers it is, on nodes that malloc may hand out    *)
(* again as soon as a worker has freed them.                               *)
(***************************************************************************)
EXTENDS Integers, Sequences, FiniteSets

CONSTANTS
  Worker,   \* the threads pthread_create starts
  Node,     \* the addresses malloc may return for a task_t
  NumTasks, \* bound: the number of tasks the client adds
  NULL      \* the null pointer

ASSUME ThreadPoolAssumption ==
  /\ IsFiniteSet(Worker) /\ Worker # {}
  /\ IsFiniteSet(Node) /\ NULL \notin Node
  /\ NumTasks \in Nat

Task == 1 .. NumTasks  \* function and arg of a task, numbered as they are added

VARIABLES
  shutdown, head, tail, size,  \* of pool and of pool->queue
  next,  \* task->next
  arg,   \* task->function and task->arg
  live,  \* the nodes malloc has returned and nobody has freed
  pc,    \* where a worker is: "loop" before the mutex, "wait" asleep in
         \* pthread_cond_wait, "run" inside task->function
  task,  \* the worker's local variable task
  mpc,   \* where the client is
  mtask, \* the local variable task of thread_pool_add_task
  \* history
  added, \* how many tasks the client has allocated
  fifo,  \* the nodes in the list, oldest first
  runs   \* how often each task has been executed

queue == <<head, tail, size, next, fifo>>
client == <<mtask, added>>
vars == <<shutdown, queue, arg, live, pc, task, mpc, client, runs>>

Init == /\ shutdown = FALSE
        /\ head = NULL /\ tail = NULL /\ size = 0
        /\ next = [n \in Node |-> NULL] /\ arg = [n \in Node |-> 0] /\ live = {}
        /\ pc = [w \in Worker |-> "absent"] /\ task = [w \in Worker |-> NULL]
        /\ mpc = "create" /\ mtask = NULL
        /\ added = 0 /\ fifo = << >> /\ runs = [t \in Task |-> 0]

-------------------------------------------------------------------------------
(* pthread_cond_t *)

Sleeping == {w \in Worker : pc[w] = "wait"}

\* The sets of workers pthread_cond_signal may wake (POSIX lets it wake more
\* than one: SpuriousWakeup covers the others), and pthread_cond_broadcast.
SignalNobody == {{}}
SignalIfEmpty == IF size # 0 \/ Sleeping = {} THEN {{}} ELSE {{w} : w \in Sleeping}
Signal == IF Sleeping = {} THEN {{}} ELSE {{w} : w \in Sleeping}
BroadcastOne == IF Sleeping = {} THEN {} ELSE {CHOOSE w \in Sleeping : TRUE}
Broadcast == Sleeping

\* A woken worker acquires the mutex again and tests the condition of the
\* while loop again.
Wake(ws) == pc' = [w \in Worker |-> IF w \in ws THEN "loop" ELSE pc[w]]

SpuriousWakeup(w) == /\ w \in Sleeping
                     /\ Wake({w})
                     /\ UNCHANGED <<shutdown, queue, arg, live, task, mpc, client, runs>>

(* worker_function *)

WorkerWait(w) == /\ pc[w] = "loop"
                 /\ size = 0 /\ ~shutdown
                 /\ pc' = [pc EXCEPT ![w] = "wait"]
                 /\ UNCHANGED <<shutdown, queue, arg, live, task, mpc, client, runs>>

MayExitAtOnce == shutdown
MayExit == shutdown /\ size = 0

WorkerExit(w) == /\ pc[w] = "loop"
                 /\ MayExit
                 /\ pc' = [pc EXCEPT ![w] = "exit"]
                 /\ UNCHANGED <<shutdown, queue, arg, live, task, mpc, client, runs>>

\* head once its node is unlinked, and tail and size for a new head h.
HeadKept == head
HeadAfter == next[head]
TailKept(h) == tail
TailAfter(h) == IF h = NULL THEN NULL ELSE tail
SizeKept == size
SizeAfter == size - 1

\* Unlink the first node; with none, go round the loop again.
WorkerTake(w) ==
  /\ pc[w] = "loop"
  /\ ~(size = 0 /\ ~shutdown) /\ ~MayExit
  /\ task' = [task EXCEPT ![w] = head]
  /\ IF head = NULL
     THEN UNCHANGED <<head, tail, size, fifo, pc>>
     ELSE /\ head' = HeadAfter
          /\ tail' = TailAfter(HeadAfter)
          /\ size' = SizeAfter
          /\ fifo' = Tail(fifo)
          /\ pc' = [pc EXCEPT ![w] = "run"]
  /\ UNCHANGED <<shutdown, next, arg, live, mpc, client, runs>>

\* task->function(task->arg) returns and the node is freed.
WorkerRun(w) == /\ pc[w] = "run"
                /\ runs' = [runs EXCEPT ![arg[task[w]]] = @ + 1]
                /\ live' = live \ {task[w]}
                /\ task' = [task EXCEPT ![w] = NULL]
                /\ pc' = [pc EXCEPT ![w] = "loop"]
                /\ UNCHANGED <<shutdown, queue, arg, mpc, client>>

WorkerStep(w) == WorkerWait(w) \/ WorkerExit(w) \/ WorkerTake(w) \/ WorkerRun(w)

-------------------------------------------------------------------------------
(* thread_pool_create: the first workers run while the others are started. *)

Create(w) ==
  /\ mpc = "create"
  /\ pc[w] = "absent"
  /\ pc' = [pc EXCEPT ![w] = "loop"]
  /\ mpc' = IF \E v \in Worker \ {w} : pc[v] = "absent" THEN "create" ELSE "idle"
  /\ UNCHANGED <<shutdown, queue, arg, live, task, client, runs>>

(* thread_pool_add_task: allocate and fill the node, then link it. *)

AddAlloc(n) ==
  /\ mpc = "idle" /\ added < NumTasks
  /\ n \notin live
  /\ live' = live \cup {n}
  /\ next' = [next EXCEPT ![n] = NULL]
  /\ arg' = [arg EXCEPT ![n] = added + 1]
  /\ added' = added + 1
  /\ mtask' = n
  /\ mpc' = "add"
  /\ UNCHANGED <<shutdown, head, tail, size, fifo, pc, task, runs>>

AddLink ==
  /\ mpc = "add"
  /\ IF tail = NULL THEN head' = mtask /\ UNCHANGED next
                    ELSE next' = [next EXCEPT ![tail] = mtask] /\ UNCHANGED head
  /\ tail' = mtask
  /\ size' = size + 1
  /\ fifo' = Append(fifo, mtask)
  /\ \E ws \in Signal : Wake(ws)
  /\ mtask' = NULL
  /\ mpc' = "idle"
  /\ UNCHANGED <<shutdown, arg, live, task, added, runs>>

\* The nodes the loops of task_num and thread_pool_destroy walk through, and
\* what task_num returns (it changes nothing).
FromHead == {n \in Node : \A S \in SUBSET Node :
               /\ head \in S \cup {NULL}
               /\ \A m \in S : next[m] \in S \cup {NULL}
               => n \in S}
task_num == Cardinality(FromHead)

(* thread_pool_wait: poll until the list is empty; nothing is awaited. *)

WaitCall == /\ mpc = "idle"
            /\ mpc' = "poll"
            /\ UNCHANGED <<shutdown, queue, arg, live, pc, task, client, runs>>

PollNothing == TRUE
PollDone == size = 0
WaitReturn == /\ mpc = "poll"
              /\ PollDone
              /\ mpc' = "idle"
              /\ UNCHANGED <<shutdown, queue, arg, live, pc, task, client, runs>>

(* thread_pool_destroy: raise the flag and wake everybody, ... *)

Shutdown == /\ mpc = "idle"
            /\ shutdown' = TRUE
            /\ Wake(Broadcast)
            /\ mpc' = "join"
            /\ UNCHANGED <<queue, arg, live, task, client, runs>>

\* ... join the threads, free what is still linked, and free the pool.
JoinNobody == {}
Joined == Worker
Free == /\ mpc = "join"
        /\ \A w \in Joined : pc[w] = "exit"
        /\ live' = live \ FromHead
        /\ mpc' = "freed"
        /\ UNCHANGED <<shutdown, queue, arg, pc, task, client, runs>>

-------------------------------------------------------------------------------

ClientStep == AddLink \/ WaitReturn \/ Free \/ \E w \in Worker : Create(w)

\* The client has destroyed the pool and every worker has returned.
Terminated == mpc = "freed" /\ (\A w \in Worker : pc[w] = "exit") /\ UNCHANGED vars

Next == \/ \E w \in Worker : WorkerStep(w) \/ SpuriousWakeup(w)
        \/ ClientStep \/ WaitCall \/ Shutdown \/ \E n \in Node : AddAlloc(n)
        \/ Terminated

\* A thread inside the pool's code is scheduled, the mutex starves nobody and
\* a task function returns.  The client may stop between two calls, and no
\* worker ever has to wake up spuriously.
Fairness == WF_vars(ClientStep) /\ \A w \in Worker : WF_vars(WorkerStep(w))

Spec == Init /\ [][Next]_vars /\ Fairness

-------------------------------------------------------------------------------
(* Properties *)

\* The type of every variable; size never exceeds the nodes there are.
TypeOK ==
  /\ shutdown \in BOOLEAN
  /\ head \in Node \cup {NULL} /\ tail \in Node \cup {NULL}
  /\ size \in 0 .. Cardinality(Node)
  /\ next \in [Node -> Node \cup {NULL}] /\ arg \in [Node -> 0 .. NumTasks]
  /\ live \subseteq Node
  /\ pc \in [Worker -> {"absent", "loop", "wait", "run", "exit"}]
  /\ task \in [Worker -> Node \cup {NULL}]
  /\ mpc \in {"create", "idle", "add", "poll", "join", "freed"}
  /\ mtask \in Node \cup {NULL}
  /\ added \in 0 .. NumTasks
  /\ fifo \in Seq(Node)
  /\ runs \in [Task -> Nat]

\* head, tail, size and the next pointers describe one list: the first node
\* is head, the last one is tail, each node points at its successor, and size,
\* which alone decides whether a worker sleeps, takes or exits, counts them.
ListIsQueue ==
  /\ size = Len(fifo)
  /\ head = IF fifo = << >> THEN NULL ELSE fifo[1]
  /\ tail = IF fifo = << >> THEN NULL ELSE fifo[Len(fifo)]
  /\ \A i \in 1 .. Len(fifo) :
       next[fifo[i]] = IF i = Len(fifo) THEN NULL ELSE fifo[i + 1]

Running == {w \in Worker : pc[w] = "run"}
Linked == {fifo[i] : i \in 1 .. Len(fifo)}

\* Every allocated node has exactly one owner - the list, the worker that runs
\* it, or thread_pool_add_task before it is linked - so no worker reads a node
\* another one has freed, and none is freed twice.
OneOwner ==
  /\ \A i, j \in 1 .. Len(fifo) : fifo[i] = fifo[j] => i = j
  /\ \A v, w \in Running : task[v] = task[w] => v = w
  /\ \A w \in Running : task[w] \in live \ Linked
  /\ Linked \subseteq live
  /\ mpc = "add" => mtask \in live \ (Linked \cup {task[w] : w \in Running})

\* No task runs twice, and when thread_pool_destroy frees the pool every task
\* ever added has run: its loop over the rest of the list finds nothing, and
\* no worker is left that could touch the freed pool.
ExactlyOnce ==
  /\ \A t \in Task : runs[t] <= IF t <= added THEN 1 ELSE 0
  /\ mpc = "freed" => /\ \A t \in 1 .. added : runs[t] = 1
                      /\ fifo = << >> /\ live = {}
                      /\ \A w \in Worker : pc[w] = "exit"

\* What makes the properties above inductive.  A thread's program counter says
\* whether its local variable holds a node and what the pool is in for;
\* workers leave only when nothing can be added and the list is empty.
Phases ==
  /\ \A w \in Worker : pc[w] = "run" <=> task[w] # NULL
  /\ mpc = "add" <=> mtask # NULL
  /\ mpc = "add" => next[mtask] = NULL
  /\ shutdown <=> mpc \in {"join", "freed"}
  /\ \A w \in Worker : pc[w] = "exit" => shutdown /\ size = 0
  /\ mpc = "freed" => \A w \in Worker : pc[w] = "exit"

\* No allocated node is without an owner ...
NoOrphan ==
  \A n \in live : n \in Linked \/ n = mtask \/ \E w \in Running : task[w] = n

\* ... and the allocated nodes carry different tasks, which have not run; every
\* other task that was added has run once.
Carried(t) == \E n \in live : arg[n] = t
Accounts ==
  /\ \A n \in live : arg[n] \in 1 .. added
  /\ \A m, n \in live : arg[m] = arg[n] => m = n
  /\ \A t \in Task : runs[t] = IF t <= added /\ ~Carried(t) THEN 1 ELSE 0

IInv == TypeOK /\ ListIsQueue /\ OneOwner /\ Phases /\ NoOrphan /\ Accounts

\* Work conservation: one signal per added task is enough.  While some worker
\* sleeps, at least as many workers as there are linked tasks are awake and on
\* their way to take one, so no task waits for a worker that sleeps.
NoTaskBehindASleeper ==
  Sleeping # {} => Len(fifo) <= Cardinality({w \in Worker : pc[w] = "loop"})

\* When thread_pool_wait returns, no task is lost between the list and the
\* workers: those that have not finished are those the workers are running.
WaitLeavesRunning ==
  [][WaitReturn => {t \in 1 .. added : runs[t] = 0} = {arg[task[w]] : w \in Running}]_vars

\* The pool as its client sees it.
TP == INSTANCE TaskPool WITH
        Job     <- Task,
        Width   <- Cardinality(Worker),
        queue   <- [i \in 1 .. Len(fifo) |-> arg[fifo[i]]],
        running <- {arg[task[w]] : w \in Running},
        done    <- {t \in Task : runs[t] # 0},
        closed  <- mpc = "freed"

\* The list, the mutex and the condition variable implement the abstract pool:
\* tasks start in the order they were added, and never on more workers than
\* there are; the pool closes only when all of them have finished.
ImplementsTaskPool == TP!PoolSpec

\* Every task that is added is executed, whether or not the client goes on.
EveryTaskRuns == \A t \in Task : added >= t ~> runs[t] = 1

\* The polling loop of thread_pool_wait ends, and thread_pool_destroy joins every
\* worker: none sleeps through the shutdown.
CallsReturn == (mpc = "poll" ~> mpc = "idle") /\ (mpc = "join" ~> mpc = "freed")
===============================================================================
