------------------------------ MODULE MtStep4NTT ------------------------------
(***************************************************************************)
(* The multi-threaded four-step NTT, MT_STEP4NTT_TEMPLATE_IMPLEMENT of     *)
(* src/src/multi_threading_acc.h: the main thread transposes the matrix    *)
(* and hands its rows to the thread pool, whose tasks find their operands  *)
(* in the static variable global_args.  Context::NTTAndEqual calls it once *)
(* per modulus, each time on another array, and ~Context destroys the pool.*)
(*                                                                         *)
(* Coefficients are symbolic: a term says which row NTT, under which       *)
(* tables and which modulus, produced it from which row, so two runs agree *)
(* on an array only if the same operations reached every coefficient.  A   *)
(* task reads global_args when it starts and its row when it finishes; main*)
(* transposes in one step.  Where the two overlap the program has a data   *)
(* race, which the history variable late records beforehand: results are   *)
(* claimed only of executions in which it stays FALSE.                     *)
(***************************************************************************)
EXTENDS Integers, Sequences, FiniteSets

CONSTANTS
  Worker,  \* the threads of Context::thread_pool
  N1, N2,  \* the matrix has N1 rows and N2 columns
  B,       \* the side of a transposed block
  Calls,   \* how many arrays NTTAndEqual transforms: l + k
  Ext,     \* the variant for the FHE instructions, RVV_Ext_NTT.cpp?
  SetMods, \* how many tasks SETMOD_FORTHREAD adds (three)
  Idle     \* no task

ASSUME MtAssumption ==
  /\ IsFiniteSet(Worker) /\ Worker # {}
  /\ N1 \in Nat \ {0} /\ N2 \in Nat \ {0} /\ B \in Nat \ {0}
  /\ N1 % B = 0 /\ N2 % B = 0
  /\ Calls \in Nat \ {0} /\ SetMods \in Nat \ {0} /\ Ext \in BOOLEAN

Cell == 0 .. N1 * N2 - 1
Square == N1 = N2

\* Pass 1 runs mt_case_rowntt_col_func on N2 rows of N1 coefficients, pass 2
\* mt_case_row_mulntt_row_func on N1 rows of N2, "pass" 0 setmod_work_wrap.
Rows(p) == IF p = 1 THEN N2 ELSE N1
RowLen(p) == IF p = 1 THEN N1 ELSE N2
Buffer(p) == IF Square \/ p = 2 THEN "a" ELSE "temp"
Task == [call : 1 .. Calls, pass : {0}, row : 0 .. SetMods - 1]
          \cup UNION {[call : 1 .. Calls, pass : {p}, row : 0 .. Rows(p) - 1] : p \in 1 .. 2}

ASSUME IdleIsNoTask == Idle \notin Task

VARIABLES
  queue, running, done, closed,  \* of the thread pool
  mem,      \* mem[c].a is the c-th array, mem[c].temp what its call allocates
  globals,  \* global_args: the index of the modulus and its tables, the row
            \* length N and the buffer the rows are in
  on,       \* on[w]: the task worker w is in
  seen,     \* seen[w]: the global_args it read
  modulus,  \* modulus[w]: what set_mod last put into its FHEMod register
  pc, call, pass, row,  \* where main is
  late      \* history: main went on while a task was still to be finished

pool == <<queue, running, done, closed>>
worker == <<on, seen, modulus>>
main == <<pc, call, pass, row>>
vars == <<pool, mem, globals, worker, main, late>>

P == INSTANCE TaskPool WITH Job <- Task, Width <- Cardinality(Worker)

\* Terms: coefficient k of array c as given (array 0: memory not written yet).
Given(c, k) == [op |-> 0, index |-> c, mod |-> 0, twiddle |-> 0, j |-> k, of |-> << >>]
Input(c) == [k \in Cell |-> Given(c, k)]

Init == /\ P!PoolInit
        /\ mem = [c \in 1 .. Calls |-> [a |-> Input(c), temp |-> Input(0)]]
        /\ globals = [index |-> 0, n |-> 0, data |-> [call |-> 0, buf |-> "a"]]
        /\ on = [w \in Worker |-> Idle]
        /\ seen = [w \in Worker |-> globals]
        /\ modulus = [w \in Worker |-> 0]
        /\ pc = "call" /\ call = 1 /\ pass = 1 /\ row = 0
        /\ late = FALSE

-------------------------------------------------------------------------------
(* Transposition, MatrixUtils.h *)

\* non_square_block_mtp: all blocks of an m x n matrix.
Transposed(s, m, n) == [k \in Cell |-> s[(k % m) * n + k \div m]]

\* Nth_square_block_mtp swaps the pairs above the diagonal whose row is in the
\* block row that starts at r.
InLastRow(i, j, r) == i # j /\ (IF i > j THEN i ELSE j) \in r .. r + B - 1
InBlockRow(i, j, r) == i # j /\ (IF i < j THEN i ELSE j) \in r .. r + B - 1
BlockTransposed(s, r) ==
  [k \in Cell |-> LET i == k \div N1  j == k % N1
                  IN  IF InBlockRow(i, j, r) THEN s[j * N1 + i] ELSE s[k]]

(* The tasks' functions *)

\* The row NTT of row i, after the multiplication by row i of the twiddle
\* matrix in pass 2, under the tables of index and the modulus mod.
RowDone(p, s, i, n, index, mod) ==
  LET in == [j \in 0 .. n - 1 |-> s[i * n + j]]
  IN  [k \in Cell |-> IF k \div n = i
                      THEN [op |-> p, index |-> index, mod |-> mod,
                            twiddle |-> IF p = 2 THEN i ELSE 0, j |-> k % n, of |-> in]
                      ELSE s[k]]

\* A worker unlinks a task and reads global_args.
Begin(w) == /\ on[w] = Idle
            /\ P!Start
            /\ on' = [on EXCEPT ![w] = Head(queue)]
            /\ seen' = [seen EXCEPT ![w] = globals]
            /\ UNCHANGED <<mem, globals, modulus, main, late>>

\* The modulus its arithmetic uses: q of global_args, or the register.
ModulusOf(w) == IF Ext THEN modulus[w] ELSE seen[w].index

End(w) ==
  /\ on[w] # Idle
  /\ P!Finish(on[w])
  /\ IF on[w].pass = 0
     THEN /\ modulus' = [modulus EXCEPT ![w] = seen[w].index]
          /\ UNCHANGED mem
     ELSE LET g == seen[w]
          IN  /\ mem' = [mem EXCEPT ![g.data.call][g.data.buf] =
                           RowDone(on[w].pass, @, on[w].row, g.n, g.index, ModulusOf(w))]
              /\ UNCHANGED modulus
  /\ on' = [on EXCEPT ![w] = Idle]
  /\ UNCHANGED <<globals, seen, main, late>>

-------------------------------------------------------------------------------
(* The main thread *)

Unfinished == P!Queued \cup running

\* Where the loops over the rows begin.
FirstRowKept == row
FirstRow == 0

\* global_args.q, qInv, c and index; then the initcode, which for the FHE
\* instructions means to set main's own register and those of the workers.
NoInitcode == "enter"
Initcode == IF Ext THEN "setmod" ELSE NoInitcode
BeginCall == /\ pc = "call"
             /\ globals' = [globals EXCEPT !.index = call]
             /\ pc' = Initcode
             /\ pass' = 1 /\ row' = FirstRow
             /\ UNCHANGED <<pool, mem, worker, call, late>>

AddSetMod == /\ pc = "setmod"
             /\ P!Add([call |-> call, pass |-> 0, row |-> row])
             /\ row' = row + 1
             /\ pc' = IF row' = SetMods THEN "enter" ELSE "setmod"
             /\ UNCHANGED <<mem, globals, worker, call, pass, late>>

\* Before the rows of a pass are added: global_args.N, logN and data, and for
\* a matrix that is not square the transposition from one buffer to the other.
LengthKept(c, p) == [index |-> c, n |-> N1, data |-> [call |-> c, buf |-> Buffer(p)]]
GlobalsOf(c, p) == [index |-> c, n |-> RowLen(p), data |-> [call |-> c, buf |-> Buffer(p)]]
EnterPass ==
  /\ pc = "enter"
  /\ globals' = GlobalsOf(call, pass)
  /\ mem' = IF Square THEN mem
            ELSE IF pass = 1
                 THEN [mem EXCEPT ![call].temp = Transposed(mem[call].a, N1, N2)]
                 ELSE [mem EXCEPT ![call].a = Transposed(mem[call].temp, N2, N1)]
  /\ row' = FirstRow
  /\ pc' = IF Square THEN "block" ELSE "row"
  /\ UNCHANGED <<pool, worker, call, pass, late>>

\* In a square matrix each block row is transposed in place just before its
\* rows are added.
TransposeBlock == /\ pc = "block"
                  /\ mem' = [mem EXCEPT ![call].a = BlockTransposed(@, row)]
                  /\ pc' = "row"
                  /\ UNCHANGED <<pool, globals, worker, call, pass, row, late>>

AfterAnyPass == "return"
AfterLastRow == IF pass = 1 THEN "wait" ELSE "return"
AddRow == /\ pc = "row"
          /\ P!Add([call |-> call, pass |-> pass, row |-> row])
          /\ row' = row + 1
          /\ pc' = IF row' = Rows(pass) THEN AfterLastRow
                   ELSE IF Square /\ row' % B = 0 THEN "block" ELSE "row"
          /\ UNCHANGED <<mem, globals, worker, call, pass, late>>

\* thread_pool_wait returns as soon as the queue is empty.
WaitForNothing == TRUE
WaitIsOver == queue = << >>
Wait == /\ pc = "wait"
        /\ WaitIsOver
        /\ pc' = "enter"
        /\ pass' = 2
        /\ late' = (late \/ Unfinished # {})
        /\ UNCHANGED <<pool, mem, globals, worker, call, row>>

\* The function returns without a wait, and NTTAndEqual goes on to the next
\* modulus.
Return == /\ pc = "return" /\ call < Calls
          /\ call' = call + 1
          /\ pc' = "call"
          /\ late' = (late \/ Unfinished # {})
          /\ UNCHANGED <<pool, mem, globals, worker, pass, row>>

\* ~Context, after the last call.
Destroy == /\ pc = "return" /\ call = Calls
           /\ P!Close
           /\ UNCHANGED <<mem, globals, worker, main, late>>

MainStep == \/ BeginCall \/ AddSetMod \/ EnterPass \/ TransposeBlock
            \/ AddRow \/ Wait \/ Return \/ Destroy

Terminated == closed /\ UNCHANGED vars

Next == MainStep \/ (\E w \in Worker : Begin(w) \/ End(w)) \/ Terminated

\* Main is scheduled, the pool starts what it can and row NTTs terminate.
Fairness == /\ WF_vars(MainStep)
            /\ WF_vars(\E w \in Worker : Begin(w))
            /\ \A w \in Worker : WF_vars(End(w))

Spec == Init /\ [][Next]_vars /\ Fairness

-------------------------------------------------------------------------------
(* The sequential template, STEP4NTT_TEMPLATE_IMPLEMENT of Step4NTTUtil.h *)

RowsDone(p, c, s, rs) == [k \in Cell |-> LET i == k \div RowLen(p)
                                         IN  IF i \in rs THEN RowDone(p, s, i, RowLen(p), c, c)[k]
                                                         ELSE s[k]]

SequentialPass(p, c, s) ==
  IF Square
  THEN LET after[b \in 0 .. N1 \div B] ==
             IF b = 0 THEN s
             ELSE LET r == (b - 1) * B
                  IN  RowsDone(p, c, BlockTransposed(after[b - 1], r), r .. r + B - 1)
       IN  after[N1 \div B]
  ELSE RowsDone(p, c, IF p = 1 THEN Transposed(s, N1, N2) ELSE Transposed(s, N2, N1),
                0 .. Rows(p) - 1)

Sequential == [c \in 1 .. Calls |-> SequentialPass(2, c, SequentialPass(1, c, Input(c)))]

-------------------------------------------------------------------------------
(* Properties *)

\* The coefficients of a task's row, where the pass put them.
RowOf(j, m) == [k \in 0 .. RowLen(j.pass) - 1 |->
                  m[j.call][Buffer(j.pass)][j.row * RowLen(j.pass) + k]]

\* Unless main ran ahead, nobody but the task itself changes a row between the
\* moment it is added and the moment its task finishes: the transposition of
\* the later block rows, which goes on meanwhile, does not reach it.
RowsAreOwned ==
  [][~late' => \A j \in Unfinished : j.pass # 0 /\ j \notin done' => RowOf(j, mem') = RowOf(j, mem)]_vars

\* Unless main ran ahead, a task works on the array, with the row length and
\* under the tables that were in global_args when it was added.
ArgsAreTheirOwn ==
  ~late => \A w \in Worker : on[w] # Idle /\ on[w].pass # 0 =>
             /\ seen[w].index = on[w].call /\ seen[w].n = RowLen(on[w].pass)
             /\ seen[w].data = [call |-> on[w].call, buf |-> Buffer(on[w].pass)]

\* If at every wait and every return the workers happened to be ready, the
\* arrays hold what the sequential template computes once the pool is gone.
CalmIsSequential == closed /\ ~late => \A c \in 1 .. Calls : mem[c].a = Sequential[c]

\* Nor does it matter that block rows are transposed in place, each just before
\* its NTTs: the arrays hold what transposing the whole matrix before each pass
\* would have given.
FourStep(c) ==
  LET columns == RowsDone(1, c, Transposed(Input(c), N1, N2), 0 .. N2 - 1)
  IN  RowsDone(2, c, Transposed(columns, N2, N1), 0 .. N1 - 1)
CalmIsFourStep == closed /\ ~late => \A c \in 1 .. Calls : mem[c].a = FourStep(c)

\* The term of a coefficient but for the moduli of its two passes.
Unreduced(t) == [t EXCEPT !.mod = 0, !.of = [k \in DOMAIN @ |-> [@[k] EXCEPT !.mod = 0]]]

\* The same of the variant for the FHE instructions, whose workers may compute
\* under a modulus left in their registers: all else about an array is right.
CalmIsRightUpToModulus ==
  closed /\ ~late => \A c \in 1 .. Calls, k \in Cell :
                      Unreduced(mem[c].a[k]) = Unreduced(Sequential[c][k])

\* Main never gets further ahead than this: queued tasks belong to the pass
\* main is in, or to the second pass of the call before while main is in the
\* first pass of the next.
QueueIsRecent ==
  \A j \in P!Queued : \/ j.call = call /\ j.pass \in {0, pass}
                      \/ j.call = call - 1 /\ j.pass = 2 /\ pass = 1
                      \/ pc = "call" /\ j.call = call - 1

-------------------------------------------------------------------------------
(* The inductive invariant *)

\* Two buffers of N1 * N2 coefficients per call, whatever these are.
IsArray(s) == s = [k \in Cell |-> s[k]]
IsMemory(m) == /\ m = [c \in 1 .. Calls |-> [a |-> m[c].a, temp |-> m[c].temp]]
               /\ \A c \in 1 .. Calls : IsArray(m[c].a) /\ IsArray(m[c].temp)

GlobalArgs == [index : 0 .. Calls, n : Nat, data : [call : 0 .. Calls, buf : {"a", "temp"}]]

TypeOK ==
  /\ queue \in Seq(Task) /\ running \subseteq Task /\ done \subseteq Task /\ closed \in BOOLEAN
  /\ IsMemory(mem)
  /\ globals \in GlobalArgs /\ seen \in [Worker -> GlobalArgs]
  /\ on \in [Worker -> Task \cup {Idle}] /\ modulus \in [Worker -> 0 .. Calls]
  /\ pc \in {"call", "setmod", "enter", "block", "row", "wait", "return"}
  /\ call \in 1 .. Calls /\ pass \in 1 .. 2 /\ row \in Nat /\ late \in BOOLEAN

\* Where main is, it keeps to the rows of the pass and global_args are those of
\* the call and, once entered, of the pass.
Phases ==
  /\ pc = "setmod" => Ext /\ pass = 1 /\ row < SetMods
  /\ pc \in {"block", "row"} => row < Rows(pass)
  /\ pc = "block" => Square /\ row % B = 0
  /\ pc = "wait" => pass = 1
  /\ pc = "return" => pass = 2
  /\ pc # "call" => globals.index = call
  /\ pc \in {"block", "row", "wait", "return"} => globals = GlobalsOf(call, pass)
  /\ closed => pc = "return" /\ call = Calls /\ Unfinished = {}

\* A task is queued, in a worker or done, and in one of these places only.
Busy == {w \in Worker : on[w] # Idle}
OnePlace ==
  /\ running = {on[w] : w \in Busy}
  /\ \A v, w \in Busy : on[v] = on[w] => v = w
  /\ \A i, j \in DOMAIN queue : queue[i] = queue[j] => i = j
  /\ P!Queued \cap running = {} /\ Unfinished \cap done = {}

\* The tasks main has added so far.
AddedOf(p, i) ==
  IF p = 0 THEN Ext /\ (pc = "setmod" => i < row)
  ELSE \/ p < pass
       \/ p = pass /\ pc \notin {"setmod", "enter"} /\ (pc \in {"block", "row"} => i < row)
Added == {j \in Task : \/ j.call < call /\ (j.pass = 0 => Ext)
                       \/ j.call = call /\ pc # "call" /\ AddedOf(j.pass, j.row)}
Accounts == Added = Unfinished \cup done

InPass(j) == /\ j.call = call /\ pc # "call"
             /\ \/ j.pass = pass
                \/ j.pass = 0 /\ pass = 1
Recent == \A j \in P!Queued :
            \/ InPass(j)
            \/ j.call = call - 1 /\ j.pass = 2 /\ (pc = "call" \/ pass = 1)

\* A pass turns its source into the transposed matrix and that, row by row,
\* into its result.
Source(p, c) == IF p = 1 THEN Input(c)
                ELSE RowsDone(1, c, Transposed(Input(c), N1, N2), 0 .. N2 - 1)
Moved(p, c) == IF p = 1 THEN Transposed(Source(p, c), N1, N2) ELSE Transposed(Source(p, c), N2, N1)
Result(p, c) == RowsDone(p, c, Moved(p, c), 0 .. Rows(p) - 1)

\* Terms after p passes that are equal but, with the registers of the FHE
\* instructions, for the moduli.
Like(p, t, u) == \/ t = u
                 \/ Ext /\ p = 1 /\ t = [u EXCEPT !.mod = t.mod]
                 \/ Ext /\ p = 2 /\ Unreduced(t) = Unreduced(u)

\* Main has transposed the cells whose row or column is below this.
Frontier == IF pc = "block" THEN row ELSE row - (row % B) + B
IsMoved(k) == \/ ~Square \/ pc \in {"wait", "return"}
              \/ k \div N1 < Frontier \/ k % N1 < Frontier

PassMemory ==
  \A k \in Cell : LET t == mem[call][Buffer(pass)][k]
                  IN  IF [call |-> call, pass |-> pass, row |-> k \div RowLen(pass)] \in done
                      THEN Like(pass, t, Result(pass, call)[k])
                      ELSE Like(pass - 1, t, (IF IsMoved(k) THEN Moved(pass, call)
                                                            ELSE Source(pass, call))[k])

OtherCalls == \A c \in 1 .. Calls, k \in Cell :
                /\ c < call => Like(2, mem[c].a[k], Result(2, c)[k])
                /\ c > call => mem[c].a[k] = Given(c, k)

AsGiven == \A k \in Cell : mem[call].a[k] = Given(call, k)
FirstPassDone == \A k \in Cell : Like(1, mem[call][Buffer(1)][k], Result(1, call)[k])

CalmMemory == /\ OtherCalls
              /\ pc \in {"call", "setmod"} => AsGiven
              /\ pc = "enter" => IF pass = 1 THEN AsGiven ELSE FirstPassDone
              /\ pc \in {"block", "row", "wait", "return"} => PassMemory

\* Unless main ran ahead, only tasks of the pass it is in are unfinished, they
\* have read their own global_args, and every coefficient is where and what
\* the four-step NTT has it at that point.
Calm == /\ \A j \in Unfinished : InPass(j)
        /\ \A w \in Busy : on[w].pass # 0 => seen[w] = GlobalsOf(on[w].call, on[w].pass)
        /\ CalmMemory

Structure == TypeOK /\ Phases /\ OnePlace /\ Accounts /\ Recent
IInv == Structure /\ (~late => Calm)

-------------------------------------------------------------------------------
\* Every call returns and the destructor gets the workers to stop, having run
\* every row of both passes of every call.
Terminates == <>(closed /\ \A c \in 1 .. Calls, p \in 1 .. 2 :
                             \A i \in 0 .. Rows(p) - 1 : [call |-> c, pass |-> p, row |-> i] \in done)

\* The NTT is in the array when the function returns, as the comparison with
\* origin_qiNTTAndEqual_withMont in src/run/test_case.cpp has it.  It is not:
\* the tasks of the second pass may not even have started.
TransformedOnReturn == pc = "return" => mem[call].a = Sequential[call]
===============================================================================
