--------------------------- MODULE ThreadPoolProofs ---------------------------
(***************************************************************************)
(* The safety of ThreadPool for every number of workers, nodes and tasks:  *)
(* IInv is inductive, and the invariants the runs check follow from it.    *)
(***************************************************************************)
EXTENDS ThreadPool, FiniteSetTheorems, SequenceTheorems, TLAPS

\* A list without repetition is no longer than the set of nodes.
LEMMA ListFits ==
  ASSUME NEW s \in Seq(Node),
         \A i, j \in 1 .. Len(s) : s[i] = s[j] => i = j
  PROVE  Len(s) \in 0 .. Cardinality(Node)
<1>1. s \in [1 .. Len(s) -> Node] /\ Len(s) \in Nat
  OBVIOUS
<1>2. s \in Injection(1 .. Len(s), Node)
  BY <1>1 DEF Injection, IsInjective
<1>3. Cardinality(1 .. Len(s)) <= Cardinality(Node)
  BY <1>2, FS_Injection, ThreadPoolAssumption
<1>4. Cardinality(1 .. Len(s)) = Len(s)
  <2>1. Cardinality(1 .. Len(s)) = IF 1 > Len(s) THEN 0 ELSE Len(s) - 1 + 1
    BY <1>1, FS_Interval
  <2> QED
    BY <1>1, <2>1
<1>5. Cardinality(Node) \in Nat
  BY FS_CardinalityType, ThreadPoolAssumption
<1> QED
  BY <1>1, <1>3, <1>4, <1>5

\* thread_pool_create starts from an empty list that nobody works on.
LEMMA InitIInv == Init => IInv
<1> SUFFICES ASSUME Init PROVE IInv
  OBVIOUS
<1>1. TypeOK
  <2>1. Cardinality(Node) \in Nat /\ NumTasks \in Nat
    BY FS_CardinalityType, ThreadPoolAssumption
  <2>2. fifo \in Seq(Node)
    BY DEF Init
  <2>3. size \in 0 .. Cardinality(Node) /\ added \in 0 .. NumTasks
    BY <2>1 DEF Init
  <2>4. arg \in [Node -> 0 .. NumTasks] /\ runs \in [Task -> Nat]
    BY <2>1 DEF Init
  <2> QED
    BY <2>2, <2>3, <2>4 DEF Init, TypeOK
<1>2. ListIsQueue /\ OneOwner
  BY DEF Init, ListIsQueue, OneOwner, Running, Linked
<1>3. Phases /\ NoOrphan
  BY DEF Init, Phases, NoOrphan
<1>4. Accounts
  BY DEF Init, Accounts, Task
<1> QED
  BY <1>1, <1>2, <1>3, <1>4 DEF IInv

\* A step that moves no node and runs no task preserves IInv if the program
\* counters still tell the truth.
LEMMA Quiet ==
  ASSUME IInv, UNCHANGED <<queue, arg, live, task, client, runs>>,
         TypeOK', Running' = Running,
         mpc' = "add" <=> mpc = "add",
         shutdown' <=> mpc' \in {"join", "freed"},
         \A w \in Worker : pc'[w] = "exit" => shutdown' /\ size = 0,
         mpc' = "freed" => \A w \in Worker : pc'[w] = "exit"
  PROVE  IInv'
<1>1. ListIsQueue'
  BY DEF IInv, ListIsQueue, queue
<1>2. OneOwner'
  BY DEF IInv, OneOwner, Linked, queue, client
<1>3. Phases'
  BY DEF IInv, Phases, Running, queue, client
<1>4. NoOrphan'
  BY DEF IInv, NoOrphan, Linked, queue, client
<1>5. Accounts'
  BY DEF IInv, Accounts, Carried, client
<1> QED
  BY <1>1, <1>2, <1>3, <1>4, <1>5 DEF IInv

\* A worker falls asleep because the list is empty.
LEMMA WorkerWaitStep == ASSUME IInv, NEW w \in Worker, WorkerWait(w) PROVE IInv'
<1> USE DEF WorkerWait
<1>1. TypeOK'
  BY DEF IInv, TypeOK, queue, client
<1>2. Running' = Running
  BY DEF IInv, TypeOK, Running
<1> QED
  BY <1>1, <1>2, Quiet DEF IInv, Phases, TypeOK, queue, client

\* A worker leaves, after the shutdown and with an empty list.
LEMMA WorkerExitStep == ASSUME IInv, NEW w \in Worker, WorkerExit(w) PROVE IInv'
<1> USE DEF WorkerExit, MayExit
<1>1. TypeOK'
  BY DEF IInv, TypeOK, queue, client
<1>2. Running' = Running
  BY DEF IInv, TypeOK, Running
<1> QED
  BY <1>1, <1>2, Quiet DEF IInv, Phases, TypeOK, queue, client

\* A sleeping worker wakes up for no reason.
LEMMA SpuriousWakeupStep == ASSUME IInv, NEW w \in Worker, SpuriousWakeup(w) PROVE IInv'
<1> USE DEF SpuriousWakeup, Wake, Sleeping
<1>1. TypeOK'
  BY DEF IInv, TypeOK, queue, client
<1>2. Running' = Running
  BY DEF IInv, TypeOK, Running
<1> QED
  BY <1>1, <1>2, Quiet DEF IInv, Phases, TypeOK, queue, client

\* thread_pool_create starts one more worker.
LEMMA CreateStep == ASSUME IInv, NEW w \in Worker, Create(w) PROVE IInv'
<1> USE DEF Create
<1>1. TypeOK'
  BY DEF IInv, TypeOK, queue, client
<1>2. Running' = Running
  BY DEF IInv, TypeOK, Running
<1> QED
  BY <1>1, <1>2, Quiet DEF IInv, Phases, TypeOK, queue, client

\* thread_pool_wait begins to poll.
LEMMA WaitCallStep == ASSUME IInv, WaitCall PROVE IInv'
<1> USE DEF WaitCall
<1>1. TypeOK'
  BY DEF IInv, TypeOK, queue, client
<1>2. Running' = Running
  BY DEF IInv, TypeOK, Running
<1> QED
  BY <1>1, <1>2, Quiet DEF IInv, Phases, TypeOK, queue, client

\* thread_pool_wait sees the empty list.
LEMMA WaitReturnStep == ASSUME IInv, WaitReturn PROVE IInv'
<1> USE DEF WaitReturn, PollDone
<1>1. TypeOK'
  BY DEF IInv, TypeOK, queue, client
<1>2. Running' = Running
  BY DEF IInv, TypeOK, Running
<1> QED
  BY <1>1, <1>2, Quiet DEF IInv, Phases, TypeOK, queue, client

\* thread_pool_destroy raises the flag and wakes every sleeper.
LEMMA ShutdownStep == ASSUME IInv, Shutdown PROVE IInv'
<1> USE DEF Shutdown, Wake, Sleeping, Broadcast
<1>1. TypeOK'
  BY DEF IInv, TypeOK, queue, client
<1>2. Running' = Running
  BY DEF IInv, TypeOK, Running
<1> QED
  BY <1>1, <1>2, Quiet DEF IInv, Phases, TypeOK, queue, client

\* A worker unlinks the first node: the list is the tail of the old one.
LEMMA WorkerTakeStep == ASSUME IInv, NEW w \in Worker, WorkerTake(w) PROVE IInv'
<1> USE DEF IInv
<1>1. fifo # << >> /\ head = fifo[1] /\ head \in Node /\ head # NULL
  BY ThreadPoolAssumption DEF WorkerTake, MayExit, ListIsQueue, TypeOK
<1>2. /\ fifo \in Seq(Node) /\ fifo' \in Seq(Node)
      /\ Len(fifo') = Len(fifo) - 1 /\ Len(fifo) \in Nat /\ Len(fifo) >= 1
      /\ \A i \in 1 .. Len(fifo') : fifo'[i] = fifo[i + 1]
  <2>1. fifo \in Seq(Node) /\ fifo' = Tail(fifo)
    BY <1>1 DEF WorkerTake, TypeOK
  <2>2. Len(fifo) \in Nat /\ Len(fifo) >= 1
    BY <1>1, <2>1, EmptySeq
  <2> QED
    BY <1>1, <2>1, <2>2, HeadTailProperties
<1>3. /\ UNCHANGED <<shutdown, next, arg, live, mpc, mtask, added, runs>>
      /\ head' = next[head] /\ size' = size - 1
      /\ tail' = IF next[head] = NULL THEN NULL ELSE tail
      /\ task' = [task EXCEPT ![w] = head] /\ pc' = [pc EXCEPT ![w] = "run"]
      /\ pc[w] = "loop"
  BY <1>1 DEF WorkerTake, HeadAfter, TailAfter, SizeAfter, client
<1>4. Running' = Running \cup {w} /\ w \notin Running
  BY <1>3 DEF Running, TypeOK
<1>5. Linked' = Linked \ {head} /\ head \in Linked
  <2>1. \A n : n \in Linked' => n \in Linked /\ n # head
    <3> SUFFICES ASSUME NEW i \in 1 .. Len(fifo')
                 PROVE  fifo'[i] \in Linked /\ fifo'[i] # head
      BY DEF Linked
    <3>1. i + 1 \in 1 .. Len(fifo) /\ 1 \in 1 .. Len(fifo) /\ i + 1 # 1
      BY <1>2
    <3> QED
      BY <1>1, <1>2, <3>1 DEF Linked, OneOwner
  <2>2. \A n : n \in Linked /\ n # head => n \in Linked'
    <3> SUFFICES ASSUME NEW i \in 1 .. Len(fifo), fifo[i] # head
                 PROVE  fifo[i] \in Linked'
      BY DEF Linked
    <3>1. i - 1 \in 1 .. Len(fifo') /\ fifo'[i - 1] = fifo[i]
      BY <1>1, <1>2
    <3> QED
      BY <3>1 DEF Linked
  <2>3. 1 \in 1 .. Len(fifo)
    BY <1>2
  <2> QED
    BY <1>1, <2>1, <2>2, <2>3 DEF Linked
<1>6. ListIsQueue'
  <2>1. next[head] = IF Len(fifo') = 0 THEN NULL ELSE fifo'[1]
    <3>1. next[fifo[1]] = IF 1 = Len(fifo) THEN NULL ELSE fifo[1 + 1]
      BY <1>2 DEF ListIsQueue
    <3>2. Len(fifo') # 0 => fifo'[1] = fifo[1 + 1]
      BY <1>2
    <3> QED
      BY <1>1, <1>2, <3>1, <3>2
  <2>2. Len(fifo') # 0 => fifo'[1] \in Node /\ fifo'[Len(fifo')] = fifo[Len(fifo)]
    BY <1>2
  <2>3. fifo' = << >> <=> Len(fifo') = 0
    BY <1>2
  <2>4. size' = Len(fifo')
    BY <1>2, <1>3 DEF ListIsQueue
  <2>5. head' = IF fifo' = << >> THEN NULL ELSE fifo'[1]
    BY <1>3, <2>1, <2>3
  <2>6. tail' = IF fifo' = << >> THEN NULL ELSE fifo'[Len(fifo')]
    BY <1>1, <1>3, <2>1, <2>2, <2>3, ThreadPoolAssumption DEF ListIsQueue
  <2>7. \A i \in 1 .. Len(fifo') :
          next'[fifo'[i]] = IF i = Len(fifo') THEN NULL ELSE fifo'[i + 1]
    <3> SUFFICES ASSUME NEW i \in 1 .. Len(fifo')
                 PROVE  next[fifo'[i]] = IF i = Len(fifo') THEN NULL ELSE fifo'[i + 1]
      BY <1>3
    <3>1. /\ i + 1 \in 1 .. Len(fifo) /\ fifo'[i] = fifo[i + 1]
          /\ i = Len(fifo') <=> i + 1 = Len(fifo)
          /\ i # Len(fifo') => fifo'[i + 1] = fifo[i + 1 + 1]
      BY <1>2
    <3>2. next[fifo[i + 1]] = IF i + 1 = Len(fifo) THEN NULL ELSE fifo[i + 1 + 1]
      BY <3>1 DEF ListIsQueue
    <3> QED
      BY <3>1, <3>2
  <2> QED
    BY <2>4, <2>5, <2>6, <2>7 DEF ListIsQueue
<1>7. OneOwner'
  <2>1. \A i, j \in 1 .. Len(fifo') : fifo'[i] = fifo'[j] => i = j
    BY <1>2 DEF OneOwner
  <2>2. \A v \in Running' : task'[v] = IF v = w THEN head ELSE task[v]
    BY <1>3, <1>4 DEF TypeOK, Running
  <2>3. \A v \in Running' : v # w => v \in Running /\ task[v] # head
    BY <1>4, <1>5 DEF OneOwner
  <2>4. \A u, v \in Running' : task'[u] = task'[v] => u = v
    BY <2>2, <2>3 DEF OneOwner
  <2>5. \A v \in Running' : task'[v] \in live' \ Linked'
    BY <1>3, <1>5, <2>2, <2>3 DEF OneOwner
  <2>6. Linked' \subseteq live' /\ (mpc' # "add" \/ mtask' \in live' \ (Linked' \cup {task'[v] : v \in Running'}))
    BY <1>3, <1>4, <1>5, <2>2 DEF OneOwner
  <2> QED
    BY <1>3, <1>5, <2>1, <2>4, <2>5, <2>6 DEF OneOwner
<1>8. size' \in 0 .. Cardinality(Node)
  BY <1>2, <1>3, <1>6, <1>7, ListFits DEF ListIsQueue, OneOwner
<1>9. TypeOK'
  BY <1>1, <1>2, <1>3, <1>8 DEF TypeOK
<1>10. Phases'
  BY <1>1, <1>2, <1>3 DEF Phases, TypeOK, ListIsQueue
<1>11. NoOrphan'
  BY <1>3, <1>4, <1>5 DEF NoOrphan, TypeOK, Running
<1>12. Accounts'
  BY <1>3 DEF Accounts, Carried
<1> QED
  BY <1>6, <1>7, <1>9, <1>10, <1>11, <1>12

\* A worker has run its task and frees the node, which nobody else owns.
LEMMA WorkerRunStep == ASSUME IInv, NEW w \in Worker, WorkerRun(w) PROVE IInv'
<1> USE DEF IInv
<1>1. /\ UNCHANGED <<shutdown, queue, arg, mpc, client>>
      /\ pc[w] = "run" /\ task[w] \in live /\ task[w] \in Node /\ task[w] # NULL
      /\ arg[task[w]] \in 1 .. added /\ arg[task[w]] \in Task
      /\ runs' = [runs EXCEPT ![arg[task[w]]] = @ + 1]
      /\ live' = live \ {task[w]}
      /\ task' = [task EXCEPT ![w] = NULL] /\ pc' = [pc EXCEPT ![w] = "loop"]
  BY ThreadPoolAssumption DEF WorkerRun, TypeOK, OneOwner, Running, Phases, Accounts, Task
<1>2. Running' = Running \ {w} /\ w \in Running
  BY <1>1 DEF Running, TypeOK
<1>3. TypeOK'
  BY <1>1 DEF TypeOK, queue, client
<1>4. ListIsQueue'
  BY <1>1 DEF ListIsQueue, queue
<1>5. OneOwner'
  BY <1>1, <1>2 DEF OneOwner, TypeOK, Linked, queue, client
<1>6. \A t \in Task : Carried(t)' <=> Carried(t) /\ t # arg[task[w]]
  BY <1>1 DEF Carried, Accounts
<1>7. runs[arg[task[w]]] = 0
  BY <1>1 DEF Accounts, Carried
<1>8. \A t \in Task : runs'[t] = IF t <= added' /\ ~Carried(t)' THEN 1 ELSE 0
  BY <1>1, <1>6, <1>7 DEF Accounts, client, TypeOK, Task
<1>9. Accounts'
  BY <1>1, <1>8 DEF Accounts, client
<1>10. Phases'
  BY <1>1 DEF Phases, TypeOK, queue, client
<1>11. NoOrphan'
  BY <1>1, <1>2 DEF NoOrphan, TypeOK, Linked, queue, client
<1> QED
  BY <1>3, <1>4, <1>5, <1>9, <1>10, <1>11

\* malloc hands out a node nobody owns, and the next task is filled in.
LEMMA AddAllocStep == ASSUME IInv, NEW n \in Node, AddAlloc(n) PROVE IInv'
<1> USE DEF IInv
<1>1. /\ UNCHANGED <<shutdown, head, tail, size, fifo, pc, task, runs>>
      /\ mpc = "idle" /\ added < NumTasks /\ n \notin live
      /\ live' = live \cup {n} /\ next' = [next EXCEPT ![n] = NULL]
      /\ arg' = [arg EXCEPT ![n] = added + 1] /\ added' = added + 1
      /\ mtask' = n /\ mpc' = "add"
  BY DEF AddAlloc
<1>2. Running' = Running /\ Linked' = Linked
  BY <1>1 DEF Running, Linked
<1>3. added \in Nat /\ added + 1 \in 0 .. NumTasks /\ added + 1 \in Task
  BY <1>1, ThreadPoolAssumption DEF TypeOK, Task
<1>4. TypeOK'
  BY <1>1, <1>3 DEF TypeOK
<1>5. ListIsQueue'
  BY <1>1 DEF ListIsQueue, OneOwner, Linked, TypeOK
<1>6. OneOwner'
  BY <1>1, <1>2, ThreadPoolAssumption DEF OneOwner, TypeOK
<1>7. \A t \in Task : Carried(t)' <=> Carried(t) \/ t = added + 1
  BY <1>1 DEF Carried, TypeOK
<1>8. \A t \in Task : runs'[t] = IF t <= added' /\ ~Carried(t)' THEN 1 ELSE 0
  BY <1>1, <1>3, <1>7 DEF Accounts, Task
<1>9. \A m \in live' : arg'[m] \in 1 .. added'
  BY <1>1, <1>3 DEF Accounts, TypeOK
<1>10. \A l, m \in live' : arg'[l] = arg'[m] => l = m
  BY <1>1, <1>3 DEF Accounts, TypeOK
<1>11. Accounts'
  BY <1>8, <1>9, <1>10 DEF Accounts
<1>12. Phases'
  BY <1>1, ThreadPoolAssumption DEF Phases, TypeOK
<1>13. NoOrphan'
  <2>1. mtask \notin live \/ mtask = NULL
    BY <1>1 DEF Phases
  <2>2. \A m \in live : m \in Linked \/ \E w \in Running : task[w] = m
    BY <2>1, ThreadPoolAssumption DEF NoOrphan, TypeOK
  <2> QED
    BY <1>1, <1>2, <2>2 DEF NoOrphan
<1> QED
  BY <1>4, <1>5, <1>6, <1>11, <1>12, <1>13

\* The new node goes behind the last one, in the list and in fifo.
LEMMA AddLinkStep == ASSUME IInv, AddLink PROVE IInv'
<1> USE DEF IInv
<1>1. /\ UNCHANGED <<shutdown, arg, live, task, added, runs>>
      /\ mpc = "add" /\ mpc' = "idle" /\ mtask' = NULL
      /\ tail' = mtask /\ size' = size + 1 /\ fifo' = Append(fifo, mtask)
      /\ mtask \in Node /\ mtask \in live /\ mtask \notin Linked /\ mtask # NULL
      /\ \A v \in Running : task[v] # mtask
  BY DEF AddLink, OneOwner, TypeOK, Phases
<1>2. /\ fifo \in Seq(Node) /\ fifo' \in Seq(Node) /\ Len(fifo) \in Nat
      /\ Len(fifo') = Len(fifo) + 1 /\ fifo'[Len(fifo) + 1] = mtask
      /\ \A i \in 1 .. Len(fifo) : fifo'[i] = fifo[i]
  BY <1>1 DEF TypeOK
<1>3. pc' \in [Worker -> {"absent", "loop", "wait", "run", "exit"}] /\ Running' = Running
      /\ \A v \in Worker : pc'[v] = "exit" <=> pc[v] = "exit"
  BY DEF AddLink, Signal, Wake, Sleeping, Running, TypeOK
<1>4. Linked' = Linked \cup {mtask}
  BY <1>2 DEF Linked
<1>5. ListIsQueue'
  <2>1. CASE tail = NULL
    <3>1. fifo = << >>
      BY <1>2, <2>1, ThreadPoolAssumption, EmptySeq DEF ListIsQueue
    <3>2. Len(fifo) = 0 /\ fifo'[1] = mtask /\ Len(fifo') = 1
      BY <1>2, <3>1
    <3>3. head' = mtask /\ next' = next /\ next[mtask] = NULL
      BY <2>1 DEF AddLink, Phases
    <3> QED
      BY <1>1, <3>2, <3>3 DEF ListIsQueue
  <2>2. CASE tail # NULL
    <3>1. fifo # << >> /\ Len(fifo) >= 1 /\ tail = fifo[Len(fifo)] /\ head = fifo[1]
      BY <1>2, <2>2, EmptySeq DEF ListIsQueue
    <3>2. head' = head /\ next' = [next EXCEPT ![tail] = mtask] /\ next[mtask] = NULL
      BY <2>2 DEF AddLink, Phases
    <3>3. \A i \in 1 .. Len(fifo) : fifo[i] \in Node /\ fifo[i] # mtask
      BY <1>1, <1>2 DEF Linked
    <3>4. \A i \in 1 .. Len(fifo) : i # Len(fifo) => fifo[i] # tail
      BY <1>2, <3>1 DEF OneOwner
    <3>5. ASSUME NEW i \in 1 .. Len(fifo')
          PROVE  next'[fifo'[i]] = IF i = Len(fifo') THEN NULL ELSE fifo'[i + 1]
      <4>1. CASE i = Len(fifo')
        BY <1>1, <1>2, <3>1, <3>2, <3>3, <4>1 DEF TypeOK
      <4>2. CASE i = Len(fifo)
        BY <1>1, <1>2, <3>1, <3>2, <3>3, <4>2 DEF TypeOK
      <4>3. CASE i < Len(fifo)
        BY <1>1, <1>2, <3>1, <3>2, <3>3, <3>4, <4>3 DEF TypeOK, ListIsQueue
      <4> QED
        BY <1>2, <4>1, <4>2, <4>3
    <3>6. fifo' # << >> /\ fifo'[1] = fifo[1]
      BY <1>2, <3>1
    <3> QED
      BY <1>1, <1>2, <3>1, <3>2, <3>5, <3>6 DEF ListIsQueue
  <2> QED
    BY <2>1, <2>2
<1>6. OneOwner'
  BY <1>1, <1>2, <1>3, <1>4 DEF OneOwner, Linked
<1>7. size' \in 0 .. Cardinality(Node)
  BY <1>2, <1>5, <1>6, ListFits DEF ListIsQueue, OneOwner
<1>8. next' \in [Node -> Node \cup {NULL}] /\ head' \in Node \cup {NULL}
  BY <1>1 DEF AddLink, TypeOK
<1>9. TypeOK'
  BY <1>1, <1>2, <1>3, <1>7, <1>8 DEF TypeOK
<1>10. Accounts'
  BY <1>1 DEF Accounts, Carried
<1>11. Phases'
  BY <1>1, <1>3 DEF Phases, Running
<1>12. NoOrphan'
  BY <1>1, <1>3, <1>4 DEF NoOrphan
<1> QED
  BY <1>5, <1>6, <1>9, <1>10, <1>11, <1>12

\* When all workers have left, nothing is allocated, so nothing is freed.
LEMMA FreeStep == ASSUME IInv, Free PROVE IInv'
<1> USE DEF IInv
<1>1. UNCHANGED <<shutdown, queue, arg, pc, task, client, runs>>
      /\ mpc = "join" /\ mpc' = "freed" /\ live' \subseteq live
      /\ \A w \in Worker : pc[w] = "exit"
  BY DEF Free, Joined
<1>2. PICK w \in Worker : TRUE
  BY ThreadPoolAssumption
<1>3. fifo = << >> /\ Running = {} /\ mtask = NULL
  BY <1>1, <1>2 DEF Phases, ListIsQueue, TypeOK, Running
<1>4. live = {} /\ live' = live
  <2>1. Linked = {}
    BY <1>3, EmptySeq DEF Linked
  <2> QED
    BY <1>1, <1>3, <2>1, ThreadPoolAssumption DEF NoOrphan, TypeOK
<1>5. TypeOK' /\ Running' = Running
  BY <1>1, <1>4 DEF TypeOK, Running, queue, client
<1> QED
  BY <1>1, <1>4, <1>5, Quiet DEF Phases, queue, client

\* Every step of a worker and of the client preserves IInv.
THEOREM Invariance == Spec => []IInv
<1>1. IInv /\ [Next]_vars => IInv'
  <2> SUFFICES ASSUME IInv, [Next]_vars PROVE IInv'
    OBVIOUS
  <2>1. ASSUME NEW w \in Worker, WorkerStep(w) \/ SpuriousWakeup(w) PROVE IInv'
    BY <2>1, WorkerWaitStep, WorkerExitStep, WorkerTakeStep, WorkerRunStep,
       SpuriousWakeupStep DEF WorkerStep
  <2>2. CASE ClientStep
    BY <2>2, AddLinkStep, WaitReturnStep, FreeStep, CreateStep DEF ClientStep
  <2>3. ASSUME NEW n \in Node, AddAlloc(n) PROVE IInv'
    BY <2>3, AddAllocStep
  <2>4. CASE UNCHANGED vars
    <3>1. TypeOK' /\ Running' = Running
      BY <2>4 DEF IInv, TypeOK, Running, vars, queue, client
    <3> QED
      BY <2>4, <3>1, Quiet DEF IInv, Phases, vars, queue, client
  <2> QED
    BY <2>1, <2>2, <2>3, <2>4, WaitCallStep, ShutdownStep DEF Next, Terminated
<1> QED
  BY InitIInv, <1>1, PTL DEF Spec

\* Type correctness, for any number of workers, addresses and tasks.
THEOREM TypeCorrect == Spec => []TypeOK
<1>1. IInv => TypeOK
  BY DEF IInv
<1> QED
  BY <1>1, Invariance, PTL

\* The linked list is always the queue it stands for.
THEOREM ListCorrect == Spec => []ListIsQueue
<1>1. IInv => ListIsQueue
  BY DEF IInv
<1> QED
  BY <1>1, Invariance, PTL

\* No node is shared, leaked to two workers or freed twice.
THEOREM Ownership == Spec => []OneOwner
<1>1. IInv => OneOwner
  BY DEF IInv
<1> QED
  BY <1>1, Invariance, PTL

\* Every added task runs at most once, and exactly once when the pool is
\* destroyed.
THEOREM RunsExactlyOnce == Spec => []ExactlyOnce
<1>1. IInv => ExactlyOnce
  <2> SUFFICES ASSUME IInv PROVE ExactlyOnce
    OBVIOUS
  <2>1. \A t \in Task : runs[t] <= IF t <= added THEN 1 ELSE 0
    BY DEF IInv, Accounts
  <2>2. ASSUME mpc = "freed"
        PROVE /\ \A t \in 1 .. added : runs[t] = 1
              /\ fifo = << >> /\ live = {}
              /\ \A w \in Worker : pc[w] = "exit"
    <3>1. PICK w \in Worker : pc[w] = "exit"
      BY <2>2, ThreadPoolAssumption DEF IInv, Phases
    <3>2. fifo = << >> /\ Running = {} /\ mtask = NULL
      BY <2>2, <3>1 DEF IInv, Phases, ListIsQueue, TypeOK, Running
    <3>3. live = {}
      <4>1. Linked = {}
        BY <3>2, EmptySeq DEF Linked
      <4> QED
        BY <3>2, <4>1, ThreadPoolAssumption DEF IInv, NoOrphan, TypeOK
    <3>4. \A t \in 1 .. added : t \in Task
      BY ThreadPoolAssumption DEF IInv, TypeOK, Task
    <3> QED
      BY <2>2, <3>2, <3>3, <3>4 DEF IInv, Phases, Accounts, Carried
  <2> QED
    BY <2>1, <2>2 DEF ExactlyOnce
<1> QED
  BY <1>1, Invariance, PTL

\* When thread_pool_wait returns, the unfinished tasks are exactly those that
\* some worker is running: they may exist, and they are all there is.
THEOREM WaitIsNoBarrier == Spec => WaitLeavesRunning
<1> DEFINE Unfinished == {t \in 1 .. added : runs[t] = 0}
           InFlight == {arg[task[w]] : w \in Running}
<1>1. IInv /\ [Next]_vars => [WaitReturn => Unfinished = InFlight]_vars
  <2> SUFFICES ASSUME IInv, WaitReturn PROVE Unfinished = InFlight
    OBVIOUS
  <2>1. Linked = {} /\ mtask = NULL
    BY EmptySeq DEF WaitReturn, PollDone, IInv, ListIsQueue, Phases, Linked, TypeOK
  <2>2. \A n \in live : \E w \in Running : task[w] = n
    BY <2>1, ThreadPoolAssumption DEF IInv, NoOrphan, TypeOK
  <2>3. \A w \in Running : task[w] \in live /\ arg[task[w]] \in 1 .. added
    BY DEF IInv, OneOwner, Accounts
  <2>4. \A t \in 1 .. added : runs[t] = 0 <=> Carried(t)
    BY ThreadPoolAssumption DEF IInv, TypeOK, Accounts, Task
  <2> QED
    BY <2>2, <2>3, <2>4 DEF Carried
<1> QED
  BY <1>1, Invariance, PTL DEF WaitLeavesRunning, Spec

-------------------------------------------------------------------------------
(* Work conservation *)

Looping == {w \in Worker : pc[w] = "loop"}

\* Sets of workers have a size, which grows and shrinks by one.
LEMMA WorkersCount ==
  ASSUME NEW S \in SUBSET Worker
  PROVE  /\ IsFiniteSet(S) /\ Cardinality(S) \in Nat
         /\ \A w : Cardinality(S \cup {w}) = IF w \in S THEN Cardinality(S) ELSE Cardinality(S) + 1
         /\ \A w : Cardinality(S \ {w}) = IF w \in S THEN Cardinality(S) - 1 ELSE Cardinality(S)
<1>1. IsFiniteSet(S)
  BY FS_Subset, ThreadPoolAssumption
<1> QED
  BY <1>1, FS_CardinalityType, FS_AddElement, FS_RemoveElement

\* More workers on their way to the list serve a list that is no longer.
LEMMA MoreLooping ==
  ASSUME NoTaskBehindASleeper, fifo \in Seq(Node), Looping \subseteq Looping', fifo' = fifo,
         Sleeping' # {} => Sleeping # {}
  PROVE  NoTaskBehindASleeper'
<1>1. Looping' \in SUBSET Worker /\ Looping \in SUBSET Worker
  BY DEF Looping
<1>2. Cardinality(Looping) <= Cardinality(Looping')
  BY <1>1, WorkersCount, FS_Subset
<1>3. Cardinality(Looping) \in Nat /\ Cardinality(Looping') \in Nat /\ Len(fifo) \in Nat
  BY <1>1, WorkersCount
<1> QED
  BY <1>2, <1>3 DEF NoTaskBehindASleeper, Looping

\* An empty list needs nobody.
LEMMA NothingToTake == ASSUME fifo' = << >> PROVE NoTaskBehindASleeper'
<1>1. Looping' \in SUBSET Worker
  BY DEF Looping
<1>2. Cardinality(Looping') \in Nat
  BY <1>1, WorkersCount
<1>3. Len(fifo') = 0
  BY EmptySeq
<1> QED
  BY <1>2, <1>3 DEF NoTaskBehindASleeper, Looping

\* A worker that takes a task leaves the loop, and leaves one task less.
LEMMA TakeConserves ==
  ASSUME IInv, NoTaskBehindASleeper, NEW w \in Worker, WorkerTake(w)
  PROVE  NoTaskBehindASleeper'
<1>1. fifo # << >> /\ head # NULL
  BY ThreadPoolAssumption DEF WorkerTake, MayExit, IInv, ListIsQueue, TypeOK
<1>2. fifo \in Seq(Node) /\ fifo' = Tail(fifo) /\ pc' = [pc EXCEPT ![w] = "run"] /\ pc[w] = "loop"
  BY <1>1 DEF WorkerTake, IInv, TypeOK
<1>3. Len(fifo) \in Nat /\ Len(fifo') = Len(fifo) - 1
  BY <1>1, <1>2, HeadTailProperties
<1>4. Looping' = Looping \ {w} /\ w \in Looping /\ Sleeping' = Sleeping
  BY <1>2 DEF Looping, Sleeping, IInv, TypeOK
<1>5. Cardinality(Looping) \in Nat /\ Cardinality(Looping') = Cardinality(Looping) - 1
  <2>1. Looping \in SUBSET Worker
    BY DEF Looping
  <2> QED
    BY <1>4, <2>1, WorkersCount
<1> QED
  BY <1>3, <1>4, <1>5 DEF NoTaskBehindASleeper, Looping

\* thread_pool_add_task adds one task and, if anybody sleeps, wakes one worker.
LEMMA LinkConserves ==
  ASSUME IInv, NoTaskBehindASleeper, AddLink
  PROVE  NoTaskBehindASleeper'
<1> SUFFICES ASSUME Sleeping' # {}
             PROVE  Len(fifo') <= Cardinality(Looping')
  BY DEF NoTaskBehindASleeper, Looping
<1>1. PICK ws \in Signal : Wake(ws)
  BY DEF AddLink
<1>2. Sleeping # {}
  BY <1>1 DEF Wake, Signal, Sleeping, IInv, TypeOK
<1>3. PICK w \in Sleeping : ws = {w}
  BY <1>1, <1>2 DEF Signal
<1>4. Looping' = Looping \cup {w} /\ w \notin Looping /\ Looping \in SUBSET Worker
  BY <1>1, <1>3 DEF Wake, Looping, Sleeping, IInv, TypeOK
<1>5. Cardinality(Looping) \in Nat /\ Cardinality(Looping') = Cardinality(Looping) + 1
  BY <1>4, WorkersCount
<1>6. Len(fifo) \in Nat /\ Len(fifo') = Len(fifo) + 1
  BY DEF AddLink, IInv, TypeOK
<1>7. Len(fifo) <= Cardinality(Looping)
  BY <1>2 DEF NoTaskBehindASleeper, Looping
<1> QED
  BY <1>5, <1>6, <1>7

\* One signal for each task is enough: no task waits for a worker that sleeps,
\* whatever wakes up and whoever is quicker at the mutex.
THEOREM WorkConservation == Spec => []NoTaskBehindASleeper
<1>1. Init => NoTaskBehindASleeper
  BY DEF Init, NoTaskBehindASleeper, Sleeping
<1>2. IInv /\ NoTaskBehindASleeper /\ [Next]_vars => NoTaskBehindASleeper'
  <2> SUFFICES ASSUME IInv, NoTaskBehindASleeper, [Next]_vars PROVE NoTaskBehindASleeper'
    OBVIOUS
  <2>1. fifo \in Seq(Node) /\ pc \in [Worker -> {"absent", "loop", "wait", "run", "exit"}]
    BY DEF IInv, TypeOK
  <2>2. ASSUME NEW w \in Worker, WorkerWait(w) \/ WorkerExit(w) PROVE NoTaskBehindASleeper'
    <3>1. size = 0 /\ fifo' = fifo
      BY <2>2 DEF WorkerWait, WorkerExit, MayExit, queue
    <3>2. fifo = << >>
      BY <2>1, <3>1, EmptySeq DEF IInv, ListIsQueue
    <3> QED
      BY <3>1, <3>2, NothingToTake
  <2>3. ASSUME NEW w \in Worker, WorkerRun(w) \/ SpuriousWakeup(w) \/ Create(w) PROVE NoTaskBehindASleeper'
    <3>1. Looping \subseteq Looping' /\ fifo' = fifo /\ (Sleeping' # {} => Sleeping # {})
      BY <2>1, <2>3 DEF WorkerRun, SpuriousWakeup, Create, Wake, Sleeping, Looping, queue
    <3> QED
      BY <2>1, <3>1, MoreLooping
  <2>4. CASE Shutdown
    <3>1. Looping \subseteq Looping' /\ fifo' = fifo /\ Sleeping' = {}
      BY <2>1, <2>4 DEF Shutdown, Wake, Broadcast, Sleeping, Looping, queue
    <3> QED
      BY <2>1, <3>1, MoreLooping
  <2>5. ASSUME \/ WaitCall \/ WaitReturn \/ Free \/ (\E n \in Node : AddAlloc(n)) \/ UNCHANGED vars
        PROVE  NoTaskBehindASleeper'
    <3>1. fifo' = fifo /\ pc' = pc
      BY <2>5 DEF WaitCall, WaitReturn, Free, AddAlloc, vars, queue
    <3> QED
      BY <3>1 DEF NoTaskBehindASleeper, Sleeping
  <2> QED
    BY <2>2, <2>3, <2>4, <2>5, TakeConserves, LinkConserves
    DEF Next, WorkerStep, ClientStep, Terminated
<1> QED
  BY <1>1, <1>2, Invariance, PTL DEF Spec

-------------------------------------------------------------------------------
(* Refinement: the state as the client sees it, and how each action changes it *)

PoolQueue == [i \in 1 .. Len(fifo) |-> arg[fifo[i]]]
PoolRunning == {arg[task[w]] : w \in Running}
PoolDone == {t \in Task : runs[t] # 0}
PoolClosed == mpc = "freed"

\* Who has finished is who has been added and is not carried by a node.
LEMMA CarriedIsUnfinished ==
  ASSUME IInv
  PROVE  /\ \A n \in live : arg[n] \in Task /\ arg[n] \notin PoolDone
         /\ \A m, n \in live : arg[m] = arg[n] => m = n
         /\ \A w \in Running : task[w] \in live
         /\ \A i \in 1 .. Len(fifo) : fifo[i] \in live
BY ThreadPoolAssumption DEF IInv, TypeOK, Accounts, Carried, PoolDone, Task, OneOwner, Linked

\* The instance of TaskPool counts as this module does.
LEMMA SameCardinality == \A S : TP!Cardinality(S) = Cardinality(S)
BY DEF TP!Cardinality, Cardinality

\* A sequence is the function it is.
LEMMA SeqIsFunction == ASSUME NEW S, NEW s \in Seq(S) PROVE s \in [1 .. Len(s) -> S]
OBVIOUS

\* A worker that takes a task starts the oldest one; until then not all workers
\* were busy.
LEMMA TakeIsStart == ASSUME IInv, NEW w \in Worker, WorkerTake(w) PROVE TP!Start
<1> USE DEF IInv
<1>1. fifo # << >> /\ head = fifo[1] /\ head # NULL
  BY ThreadPoolAssumption DEF WorkerTake, MayExit, ListIsQueue, TypeOK
<1>2. /\ UNCHANGED <<arg, mpc, runs>> /\ fifo \in Seq(Node) /\ fifo' = Tail(fifo)
      /\ task' = [task EXCEPT ![w] = head] /\ pc' = [pc EXCEPT ![w] = "run"] /\ pc[w] = "loop"
  BY <1>1 DEF WorkerTake, TypeOK, client
<1>3. /\ Len(fifo) \in Nat \ {0} /\ Len(fifo') = Len(fifo) - 1
      /\ \A i \in 1 .. Len(fifo') : fifo'[i] = fifo[i + 1]
  BY <1>1, <1>2, HeadTailProperties, EmptySeq
<1>4. Running' = Running \cup {w} /\ w \notin Running
  BY <1>2 DEF Running, TypeOK
<1>5. PoolQueue \in Seq(Range(PoolQueue)) /\ Len(PoolQueue) = Len(fifo) /\ PoolQueue # << >>
  <2>1. PoolQueue \in [1 .. Len(fifo) -> Range(PoolQueue)]
    BY DEF PoolQueue, Range
  <2>2. PoolQueue \in Seq(Range(PoolQueue)) /\ Len(PoolQueue) = Len(fifo)
    BY <1>3, <2>1
  <2> QED
    BY <1>3, <2>2, EmptySeq
<1>6. Head(PoolQueue) = arg[head]
  BY <1>1, <1>3, <1>5 DEF PoolQueue
<1>7. PoolQueue' = Tail(PoolQueue)
  <2>1. Len(Tail(PoolQueue)) = Len(fifo') /\ Tail(PoolQueue) \in Seq(Range(PoolQueue))
    BY <1>3, <1>5, HeadTailProperties
  <2>2. \A i \in 1 .. Len(fifo') : Tail(PoolQueue)[i] = PoolQueue[i + 1]
    BY <1>3, <1>5, HeadTailProperties
  <2>3. \A i \in 1 .. Len(fifo') : PoolQueue[i + 1] = arg[fifo'[i]]
    BY <1>3 DEF PoolQueue
  <2>4. Tail(PoolQueue) \in [1 .. Len(fifo') -> Range(PoolQueue)]
    BY <2>1, SeqIsFunction, Zenon
  <2>5. PoolQueue' = [i \in 1 .. Len(fifo') |-> arg[fifo'[i]]]
    BY <1>2 DEF PoolQueue
  <2> QED
    BY <2>2, <2>3, <2>4, <2>5
<1>8. PoolRunning' = PoolRunning \cup {arg[head]}
  <2>1. task'[w] = head /\ \A v \in Running : task'[v] = task[v]
    BY <1>2, <1>4 DEF TypeOK, Running
  <2>2. PoolRunning' = {arg[task'[v]] : v \in Running} \cup {arg[task'[w]]}
    BY <1>2, <1>4 DEF PoolRunning
  <2>3. {arg[task'[v]] : v \in Running} = PoolRunning
    BY <2>1, Zenon DEF PoolRunning
  <2> QED
    BY <2>1, <2>2, <2>3
<1>9. Cardinality(PoolRunning) < Cardinality(Worker)
  <2>1. Running \in SUBSET Worker /\ Running # Worker
    BY <1>4 DEF Running
  <2>2. IsFiniteSet(Running) /\ Cardinality(Running) \in Nat /\ Cardinality(Worker) \in Nat
    BY <2>1, WorkersCount
  <2>3. Cardinality(Running) < Cardinality(Worker)
    BY <2>1, <2>2, FS_Subset, ThreadPoolAssumption
  <2>4. [v \in Running |-> arg[task[v]]] \in Surjection(Running, PoolRunning)
    BY DEF Surjection, PoolRunning
  <2>5. IsFiniteSet(PoolRunning) /\ Cardinality(PoolRunning) <= Cardinality(Running)
    BY <2>2, <2>4, FS_Surjection
  <2>6. Cardinality(PoolRunning) \in Nat
    BY <2>5, FS_CardinalityType
  <2> QED
    BY <2>2, <2>3, <2>5, <2>6
<1>10. PoolDone' = PoolDone /\ PoolClosed' = PoolClosed
  BY <1>2 DEF PoolDone, PoolClosed
<1> QED
  BY <1>5, <1>6, <1>7, <1>8, <1>9, <1>10, SameCardinality
  DEF TP!Start, PoolQueue, PoolRunning, PoolDone, PoolClosed

\* A worker whose task returns finishes it.
LEMMA RunIsFinish ==
  ASSUME IInv, NEW w \in Worker, WorkerRun(w)
  PROVE  \E t \in Task : TP!Finish(t)
<1>1. /\ UNCHANGED <<fifo, arg, mpc>> /\ w \in Running /\ task[w] \in live
      /\ runs' = [runs EXCEPT ![arg[task[w]]] = @ + 1]
      /\ task' = [task EXCEPT ![w] = NULL] /\ pc' = [pc EXCEPT ![w] = "loop"]
      /\ \A v \in Running : v # w => task[v] # task[w]
  BY DEF WorkerRun, Running, queue, IInv, OneOwner
<1>2. arg[task[w]] \in Task
  BY <1>1, CarriedIsUnfinished
<1>3. Running' = Running \ {w}
  BY <1>1 DEF Running, IInv, TypeOK
<1>4. PoolRunning' = PoolRunning \ {arg[task[w]]} /\ arg[task[w]] \in PoolRunning
  <2>1. \A v \in Running \ {w} : task'[v] = task[v] /\ arg[task[v]] # arg[task[w]]
    BY <1>1, CarriedIsUnfinished DEF IInv, TypeOK, Running
  <2>2. PoolRunning' = {arg[task'[v]] : v \in Running \ {w}}
    BY <1>1, <1>3 DEF PoolRunning
  <2> QED
    BY <1>1, <2>1, <2>2 DEF PoolRunning
<1>5. PoolDone' = PoolDone \cup {arg[task[w]]}
  BY <1>1, <1>2 DEF PoolDone, IInv, TypeOK
<1>6. PoolQueue' = PoolQueue /\ PoolClosed' = PoolClosed
  BY <1>1 DEF PoolQueue, PoolClosed
<1> QED
  BY <1>2, <1>4, <1>5, <1>6 DEF TP!Finish, PoolQueue, PoolRunning, PoolDone, PoolClosed

\* Linking a node adds its task, which is new.
LEMMA LinkIsAdd == ASSUME IInv, AddLink PROVE \E t \in Task : TP!Add(t)
<1>1. /\ UNCHANGED <<arg, task, runs>> /\ mpc = "add" /\ mpc' = "idle"
      /\ fifo \in Seq(Node) /\ fifo' = Append(fifo, mtask) /\ mtask \in Node
      /\ mtask \in live /\ mtask \notin Linked /\ \A v \in Running : task[v] # mtask
  BY DEF AddLink, IInv, TypeOK, OneOwner
<1>2. Running' = Running
  BY DEF AddLink, Signal, Wake, Sleeping, Running, IInv, TypeOK
<1>3. Len(fifo') = Len(fifo) + 1 /\ Len(fifo) \in Nat /\ fifo'[Len(fifo) + 1] = mtask
      /\ \A i \in 1 .. Len(fifo) : fifo'[i] = fifo[i]
  BY <1>1
<1>4. arg[mtask] \in Task /\ arg[mtask] \notin PoolRunning \cup PoolDone
  BY <1>1, CarriedIsUnfinished DEF PoolRunning
<1>5. arg[mtask] \notin {PoolQueue[i] : i \in DOMAIN PoolQueue}
  <2> SUFFICES ASSUME NEW i \in 1 .. Len(fifo), arg[fifo[i]] = arg[mtask] PROVE FALSE
    BY DEF PoolQueue
  <2> QED
    BY <1>1, CarriedIsUnfinished DEF Linked
<1>6. PoolQueue' = Append(PoolQueue, arg[mtask])
  <2>1. PoolQueue \in [1 .. Len(fifo) -> Range(PoolQueue) \cup {arg[mtask]}]
    BY DEF PoolQueue, Range
  <2>2. PoolQueue \in Seq(Range(PoolQueue) \cup {arg[mtask]}) /\ Len(PoolQueue) = Len(fifo)
    BY <1>3, <2>1
  <2>3. /\ Append(PoolQueue, arg[mtask]) \in Seq(Range(PoolQueue) \cup {arg[mtask]})
        /\ Len(Append(PoolQueue, arg[mtask])) = Len(fifo')
        /\ \A i \in 1 .. Len(fifo) : Append(PoolQueue, arg[mtask])[i] = PoolQueue[i]
        /\ Append(PoolQueue, arg[mtask])[Len(fifo) + 1] = arg[mtask]
    BY <1>3, <2>2
  <2>4. \A i \in 1 .. Len(fifo') : Append(PoolQueue, arg[mtask])[i] = arg[fifo'[i]]
    <3> SUFFICES ASSUME NEW i \in 1 .. Len(fifo')
                 PROVE  Append(PoolQueue, arg[mtask])[i] = arg[fifo'[i]]
      OBVIOUS
    <3>1. CASE i = Len(fifo) + 1
      BY <1>3, <2>3, <3>1
    <3>2. CASE i \in 1 .. Len(fifo)
      BY <1>3, <2>3, <3>2 DEF PoolQueue
    <3>3. i = Len(fifo) + 1 \/ i \in 1 .. Len(fifo)
      BY <1>3
    <3> QED
      BY <3>1, <3>2, <3>3
  <2>5. Append(PoolQueue, arg[mtask]) \in [1 .. Len(fifo') -> Range(PoolQueue) \cup {arg[mtask]}]
    BY <2>3, SeqIsFunction, Zenon
  <2>6. PoolQueue' = [i \in 1 .. Len(fifo') |-> arg[fifo'[i]]]
    BY <1>1 DEF PoolQueue
  <2> QED
    BY <2>4, <2>5, <2>6
<1>7. PoolRunning' = PoolRunning /\ PoolDone' = PoolDone /\ ~PoolClosed /\ ~PoolClosed'
  BY <1>1, <1>2 DEF PoolRunning, PoolDone, PoolClosed
<1> QED
  BY <1>4, <1>5, <1>6, <1>7
  DEF TP!Add, TP!Queued, PoolQueue, PoolRunning, PoolDone, PoolClosed

\* thread_pool_destroy returns when nothing is queued and nobody runs a task.
LEMMA FreeIsClose == ASSUME IInv, Free PROVE TP!Close
<1>1. UNCHANGED <<fifo, arg, pc, task, runs>> /\ mpc = "join" /\ mpc' = "freed"
      /\ \A w \in Worker : pc[w] = "exit"
  BY DEF Free, Joined, queue
<1>2. fifo = << >> /\ Running = {} /\ Running' = {}
  BY <1>1, ThreadPoolAssumption DEF IInv, Phases, ListIsQueue, TypeOK, Running
<1>3. PoolQueue = << >> /\ PoolRunning = {} /\ PoolRunning' = {} /\ PoolQueue' = PoolQueue
      /\ PoolDone' = PoolDone /\ ~PoolClosed /\ PoolClosed'
  BY <1>1, <1>2, EmptySeq DEF PoolQueue, PoolRunning, PoolDone, PoolClosed
<1> QED
  BY <1>3 DEF TP!Close, PoolQueue, PoolRunning, PoolDone, PoolClosed

\* The client does not see the other steps.
LEMMA OthersAreHidden ==
  ASSUME IInv,
         \/ \E w \in Worker : WorkerWait(w) \/ WorkerExit(w) \/ SpuriousWakeup(w) \/ Create(w)
         \/ WaitCall \/ WaitReturn \/ Shutdown \/ (\E n \in Node : AddAlloc(n)) \/ UNCHANGED vars
  PROVE  UNCHANGED TP!poolVars
<1>1. fifo' = fifo /\ task' = task /\ runs' = runs /\ (mpc' = "freed" <=> mpc = "freed")
  BY DEF WorkerWait, WorkerExit, SpuriousWakeup, Create, WaitCall, WaitReturn, Shutdown, AddAlloc,
         vars, queue
<1>2. \A n \in live : arg'[n] = arg[n]
  BY DEF WorkerWait, WorkerExit, SpuriousWakeup, Create, WaitCall, WaitReturn, Shutdown, AddAlloc,
         vars, IInv, TypeOK
<1>3. Running' = Running
  BY DEF WorkerWait, WorkerExit, SpuriousWakeup, Wake, Sleeping, Create, WaitCall, WaitReturn,
         Shutdown, Broadcast, AddAlloc, vars, Running, IInv, TypeOK
<1>4. PoolQueue' = PoolQueue /\ PoolRunning' = PoolRunning
  BY <1>1, <1>2, <1>3, CarriedIsUnfinished DEF PoolQueue, PoolRunning
<1>5. PoolDone' = PoolDone /\ PoolClosed' = PoolClosed
  BY <1>1 DEF PoolDone, PoolClosed
<1> QED
  BY <1>4, <1>5 DEF TP!poolVars, PoolQueue, PoolRunning, PoolDone, PoolClosed

\* Without its fairness, the abstract pool is what the linked list, the mutex and
\* the condition variable implement, for any number of workers and tasks: tasks
\* start in the order they were added, on no more workers than there are, finish
\* once, and the pool is closed when none is left.
THEOREM Refinement == Spec => TP!PoolSafety
<1>1. Init => TP!PoolInit
  <2> SUFFICES ASSUME Init PROVE TP!PoolInit
    OBVIOUS
  <2>1. PoolQueue = << >> /\ PoolRunning = {} /\ PoolDone = {} /\ ~PoolClosed
    BY EmptySeq DEF Init, PoolQueue, PoolRunning, PoolDone, PoolClosed, Running
  <2> QED
    BY <2>1 DEF TP!PoolInit, PoolQueue, PoolRunning, PoolDone, PoolClosed
<1>2. IInv /\ [Next]_vars => [TP!PoolNext]_TP!poolVars
  <2> SUFFICES ASSUME IInv, [Next]_vars PROVE [TP!PoolNext]_TP!poolVars
    OBVIOUS
  <2>1. ASSUME NEW w \in Worker, WorkerTake(w) PROVE TP!PoolNext
    BY <2>1, TakeIsStart DEF TP!PoolNext, TP!WorkerStep
  <2>2. ASSUME NEW w \in Worker, WorkerRun(w) PROVE TP!PoolNext
    BY <2>2, RunIsFinish DEF TP!PoolNext, TP!WorkerStep
  <2>3. CASE AddLink
    BY <2>3, LinkIsAdd DEF TP!PoolNext
  <2>4. CASE Free
    BY <2>4, FreeIsClose DEF TP!PoolNext
  <2> QED
    BY <2>1, <2>2, <2>3, <2>4, OthersAreHidden DEF Next, WorkerStep, ClientStep, Terminated
<1> QED
  BY <1>1, <1>2, Invariance, PTL DEF Spec, TP!PoolSafety
===============================================================================
