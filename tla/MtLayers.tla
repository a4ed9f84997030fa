------------------------------- MODULE MtLayers -------------------------------
(***************************************************************************)
(* The multi-threaded direct NTT, mt_rvv_ori_qiNTTAndEqual_withBar of      *)
(* src/src/RVV_NTT.cpp: for each layer the main thread puts the layer's    *)
(* parameters into the static variable ori_global, adds one task per block *)
(* and waits for an empty queue.  A task gets the number of its block as   *)
(* its argument and reads everything else when it starts.                  *)
(*                                                                         *)
(* Nothing orders a task's reads of ori_global and main's writes of the    *)
(* next layer's parameters, so each happens field by field, in any order.  *)
(* Coefficients are symbolic terms: which butterfly produced them from     *)
(* which two.  late records that main went on while a task was unfinished. *)
(***************************************************************************)
EXTENDS Integers, Sequences, FiniteSets, Numbers

CONSTANTS
  Worker,  \* the threads of Context::thread_pool
  LogN,    \* the arrays have 2^LogN words
  Calls,   \* how many arrays NTTAndEqual transforms
  Idle     \* no task

Size == Pow2[LogN]
Word == 0 .. Size - 1
Layer == 1 .. LogN
Blocks(layer) == Pow2[layer - 1]
Task == UNION {[call : 1 .. Calls, layer : {s}, block : 0 .. Blocks(s) - 1] : s \in Layer}

\* What the constants may be.
LayerParameters == {LogN, Calls} \subseteq Nat \ {0} /\ Idle \notin Task

\* ori_global.  Its fields m, q, data, qRootPows and barPres are one, "where": the
\* number of blocks and the call.
Field == {"where", "t", "logt"}

VARIABLES
  queue, running, done, closed,  \* of the thread pool
  mem,      \* mem[c] is the c-th array
  globals,  \* ori_global
  unset,    \* the fields main still has to write for the layer it is in
  on,       \* on[w]: the task worker w is in
  seen,     \* seen[w]: the fields of ori_global it has read
  pc, call, layer, block,  \* where main is
  late      \* history: main went on while a task was still to be finished

pool == <<queue, running, done, closed>>
worker == <<on, seen>>
main == <<pc, call, layer, block, unset>>
vars == <<pool, mem, globals, worker, main, late>>

P == INSTANCE TaskPool WITH Job <- Task, Width <- Cardinality(Worker)

\* The parameters of a layer.
ParametersWide(c, s) == [where |-> [m |-> Blocks(s), call |-> c],
                         t |-> Pow2[LogN - s], logt |-> LogN - s + 2]
ParametersOf(c, s) == [where |-> [m |-> Blocks(s), call |-> c],
                       t |-> Pow2[LogN - s], logt |-> LogN - s + 1]

Given(c, k) == [layer |-> 0, call |-> c, twiddle |-> 0, upper |-> FALSE, of |-> <<k>>]

Init == /\ P!PoolInit
        /\ mem = [c \in 1 .. Calls |-> [k \in Word |-> Given(c, k)]]
        /\ globals = [f \in Field |-> 0]
        /\ on = [w \in Worker |-> Idle]
        /\ seen = [w \in Worker |-> << >>]
        /\ pc = "add" /\ call = 1 /\ layer = 1 /\ block = 0 /\ unset = Field
        /\ late = FALSE

-------------------------------------------------------------------------------
(* mt_rvv_rowNTTWithBar_work_wrapper *)

\* A worker unlinks a task.
Take(w) == /\ on[w] = Idle
           /\ P!Start
           /\ on' = [on EXCEPT ![w] = Head(queue)]
           /\ UNCHANGED <<mem, globals, seen, main, late>>

\* It reads a field.
Read(w) == /\ on[w] # Idle
           /\ \E f \in Field \ DOMAIN seen[w] :
                seen' = [seen EXCEPT ![w] = [g \in DOMAIN @ \cup {f} |->
                                               IF g = f THEN globals[f] ELSE @[g]]]
           /\ UNCHANGED <<pool, mem, globals, on, main, late>>

\* The butterflies of block i: word j with word j + t, for the t words from
\* i << logt on.  Their table index is m + i.
Butterflies(s, i, p) ==
  LET first == i * Pow2[p.logt]
      Result(j, upper) == [layer |-> p.t, call |-> p.where.call, twiddle |-> p.where.m + i, upper |-> upper,
                           of |-> <<s[j], s[j + p.t]>>]
  IN  [k \in Word |-> IF k \in first .. first + p.t - 1 /\ k + p.t \in Word
                      THEN Result(k, FALSE)
                      ELSE IF k \in first + p.t .. first + 2 * p.t - 1 THEN Result(k - p.t, TRUE)
                      ELSE s[k]]

HasRead(w) == DOMAIN seen[w] = Field

End(w) == /\ on[w] # Idle /\ HasRead(w)
          /\ P!Finish(on[w])
          /\ mem' = [mem EXCEPT ![seen[w].where.call] = Butterflies(@, on[w].block, seen[w])]
          /\ on' = [on EXCEPT ![w] = Idle]
          /\ seen' = [seen EXCEPT ![w] = << >>]
          /\ UNCHANGED <<globals, main, late>>

-------------------------------------------------------------------------------
(* The main thread *)

Unfinished == P!Queued \cup running

\* The assignments to ori_global before the tasks of a layer are added.
SetField == /\ pc = "add"
            /\ \E f \in unset : /\ globals' = [globals EXCEPT ![f] = ParametersOf(call, layer)[f]]
                                /\ unset' = unset \ {f}
            /\ UNCHANGED <<pool, mem, worker, pc, call, layer, block, late>>

AddBlock == /\ pc = "add" /\ unset = {}
            /\ P!Add([call |-> call, layer |-> layer, block |-> block])
            /\ block' = block + 1
            /\ pc' = IF block' = Blocks(layer) THEN "wait" ELSE "add"
            /\ UNCHANGED <<mem, globals, worker, call, layer, unset, late>>

\* thread_pool_wait: the queue is empty.  main goes on with the next layer, with
\* the next call from NTTAndEqual, or to ~Context.
WaitIsOver == queue = << >>
\* The fields main assigns before the tasks of a layer are added: all of them.
FirstLayerOnly(s) == IF s = 1 THEN Field ELSE {}
Assigned(s) == Field
Wait == /\ pc = "wait"
        /\ WaitIsOver
        /\ IF layer < LogN THEN layer' = layer + 1 /\ UNCHANGED call
           ELSE IF call < Calls THEN layer' = 1 /\ call' = call + 1
           ELSE UNCHANGED <<layer, call>>
        /\ pc' = IF layer = LogN /\ call = Calls THEN "destroy" ELSE "add"
        /\ unset' = IF pc' = "add" THEN Assigned(layer') ELSE {}
        /\ block' = 0
        /\ late' = (late \/ (pc' = "add" /\ Unfinished # {}))
        /\ UNCHANGED <<pool, mem, globals, worker>>

Destroy == /\ pc = "destroy"
           /\ P!Close
           /\ UNCHANGED <<mem, globals, worker, main, late>>

Terminated == closed /\ UNCHANGED vars

Next == \/ SetField \/ AddBlock \/ Wait \/ Destroy
        \/ \E w \in Worker : Take(w) \/ Read(w) \/ End(w)
        \/ Terminated

Spec == Init /\ [][Next]_vars

-------------------------------------------------------------------------------
(* Properties *)

\* The sequential NTT, origin_qiNTTAndEqual_withBar of src/src/Context.cpp.
Sequential(c) ==
  LET after[s \in 0 .. LogN] ==
        IF s = 0 THEN [k \in Word |-> Given(c, k)]
        ELSE LET p == ParametersOf(c, s)
                 upTo[i \in 0 .. Blocks(s)] ==
                   IF i = 0 THEN after[s - 1] ELSE Butterflies(upTo[i - 1], i - 1, p)
             IN  upTo[Blocks(s)]
  IN  after[LogN]

\* If whenever the queue ran empty the tasks happened to be finished too, each
\* array ends as the sequential NTT leaves it, whatever the order of the tasks
\* of a layer.
CalmIsSequentialNTT == closed /\ ~late => \A c \in 1 .. Calls : mem[c] = Sequential(c)

\* Even a task that main has left behind stays inside the array and the tables,
\* whichever mixture of layers it reads, as long as main is in the same call: a
\* block of an earlier layer exists in every later one.  In the next call, which
\* starts with one block again, it does not.
LateStaysInBounds ==
  \A w \in Worker : on[w] # Idle /\ HasRead(w) /\ on[w].call = call =>
    /\ on[w].block * Pow2[seen[w].logt] + 2 * seen[w].t <= Size
    /\ seen[w].where.m + on[w].block < Size

-------------------------------------------------------------------------------
(* The inductive invariant *)

IsArray(s) == s = [k \in Word |-> s[k]]
TypeOK ==
  /\ queue \in Seq(Task) /\ running \subseteq Task /\ done \subseteq Task /\ closed \in BOOLEAN
  /\ mem = [c \in 1 .. Calls |-> mem[c]] /\ \A c \in 1 .. Calls : IsArray(mem[c])
  /\ globals = [f \in Field |-> globals[f]] /\ unset \subseteq Field
  /\ on \in [Worker -> Task \cup {Idle}]
  /\ seen = [w \in Worker |-> seen[w]] /\ \A w \in Worker : DOMAIN seen[w] \subseteq Field
  /\ pc \in {"add", "wait", "destroy"}
  /\ call \in 1 .. Calls /\ layer \in Layer /\ block \in Nat /\ late \in BOOLEAN

Phases == /\ pc = "add" => block < Blocks(layer) /\ (unset # {} => block = 0)
          /\ pc # "add" => unset = {}
          /\ pc = "destroy" => layer = LogN /\ call = Calls
          /\ closed => pc = "destroy" /\ Unfinished = {}

\* A task is queued, in a worker or done, and in one of these places only.
Busy == {w \in Worker : on[w] # Idle}
OnePlace == /\ running = {on[w] : w \in Busy}
            /\ \A v, w \in Busy : on[v] = on[w] => v = w
            /\ \A i, j \in DOMAIN queue : queue[i] = queue[j] => i = j
            /\ P!Queued \cap running = {} /\ Unfinished \cap done = {}

\* The tasks main has added so far.
Added == {j \in Task : \/ j.call < call
                       \/ /\ j.call = call
                          /\ \/ j.layer < layer
                             \/ j.layer = layer /\ (pc = "add" => j.block < block)}
Accounts == Added = Unfinished \cup done

\* ori_global has the parameters of the layer main is in but for the fields still
\* to be written, which have those of the layer before.
Globals == \A f \in Field :
             IF f \notin unset THEN globals[f] = ParametersOf(call, layer)[f]
             ELSE layer > 1 => globals[f] = ParametersOf(call, layer - 1)[f]

\* A task of main's call has read parameters of its own layer or later ones.
Seen == \A w \in Worker :
          /\ on[w] = Idle => DOMAIN seen[w] = {}
          /\ on[w] # Idle /\ on[w].call = call =>
               \A f \in DOMAIN seen[w] :
                 \E s \in on[w].layer .. layer : seen[w][f] = ParametersOf(call, s)[f]

\* The array after each layer, every word by the butterfly of its block.
BlockOf(s, k) == k \div Pow2[LogN - s + 1]
Layered(c) ==
  LET after[s \in 0 .. LogN] ==
        IF s = 0 THEN [k \in Word |-> Given(c, k)]
        ELSE LET before == after[s - 1]
             IN  [k \in Word |-> Butterflies(before, BlockOf(s, k), ParametersOf(c, s))[k]]
  IN  after

LayerMemory ==
  \A c \in 1 .. Calls :
    LET after == Layered(c)
    IN  \A k \in Word :
          mem[c][k] = IF c < call THEN after[LogN][k]
                      ELSE IF c > call THEN Given(c, k)
                      ELSE IF [call |-> c, layer |-> layer, block |-> BlockOf(layer, k)] \in done
                      THEN after[layer][k] ELSE after[layer - 1][k]

\* Unless main ran ahead, only tasks of the layer it is in are unfinished, and
\* the blocks of the tasks that are done are those that have been transformed.
Calm == /\ \A j \in Unfinished : j.call = call /\ j.layer = layer
        /\ LayerMemory

Structure == TypeOK /\ Phases /\ OnePlace /\ Accounts /\ Globals /\ Seen
IInv == Structure /\ (~late => Calm)
===============================================================================
