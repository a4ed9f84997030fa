--------------------------- MODULE MtStep4NTTProofs ---------------------------
(***************************************************************************)
(* The safety of MtStep4NTT for every number of workers, rows, columns and *)
(* arrays: IInv is inductive.  From it follow that main never runs more    *)
(* than one pass ahead and, as long as every wait and return found the     *)
(* workers ready, that tasks find their own arguments, that nobody touches *)
(* the row of a task, and that the arrays end as the four-step NTT of the  *)
(* given ones.                                                             *)
(***************************************************************************)
EXTENDS MtStep4NTT, Lemmas, SequenceTheorems, TLAPS

(* Cells of a matrix *)

LEMMA Sizes ==
  /\ \A p \in 0 .. 2 : Rows(p) \in Nat \ {0} /\ RowLen(p) \in Nat \ {0}
  /\ \A p \in 1 .. 2 : N1 * N2 = Rows(p) * RowLen(p)
  /\ N1 * N2 \in Nat
BY MtAssumption DEF Rows, RowLen

\* The row and the column of a cell, and the cell of a row and a column.
LEMMA CellOfRow ==
  ASSUME NEW p \in 1 .. 2, NEW i \in 0 .. Rows(p) - 1, NEW j \in 0 .. RowLen(p) - 1
  PROVE  /\ i * RowLen(p) + j \in Cell
         /\ (i * RowLen(p) + j) \div RowLen(p) = i /\ (i * RowLen(p) + j) % RowLen(p) = j
<1>1. Rows(p) \in Nat \ {0} /\ RowLen(p) \in Nat \ {0} /\ N1 * N2 = Rows(p) * RowLen(p)
  BY Sizes
<1> DEFINE m == Rows(p)  n == RowLen(p)
<1>2. i * n + j \in 0 .. m * n - 1
  <2> HIDE DEF m, n
  <2>1. i \in Nat /\ j \in Nat /\ i + 1 <= m /\ j < n /\ m \in Nat /\ n \in Nat
    BY <1>1 DEF m, n
  <2>2. (i + 1) * n <= m * n
    BY <2>1
  <2> QED
    BY <2>1, <2>2
<1> QED
  BY <1>1, <1>2, Compose DEF Cell

LEMMA RowOfCell ==
  ASSUME NEW p \in 1 .. 2, NEW k \in Cell
  PROVE  /\ k \in Nat /\ k \div RowLen(p) \in 0 .. Rows(p) - 1 /\ k % RowLen(p) \in 0 .. RowLen(p) - 1
         /\ k = (k \div RowLen(p)) * RowLen(p) + (k % RowLen(p))
<1>1. Rows(p) \in Nat \ {0} /\ RowLen(p) \in Nat \ {0} /\ N1 * N2 = Rows(p) * RowLen(p)
  BY Sizes
<1> DEFINE m == Rows(p)  n == RowLen(p)
<1>2. k \in Nat /\ k < m * n
  BY <1>1 DEF Cell
<1> HIDE DEF m, n
<1>3. m \in Nat \ {0} /\ n \in Nat \ {0}
  BY <1>1 DEF m, n
<1>4. k \div n \in Nat /\ k % n \in 0 .. n - 1 /\ k = (k \div n) * n + (k % n)
  BY <1>2, <1>3, DivMod
<1>5. k \div n < m
  BY <1>2, <1>3, <1>4
<1> QED
  BY <1>2, <1>3, <1>4, <1>5 DEF m, n

(* Tasks and the queue *)

LEMMA TaskFields ==
  \A j \in Task : /\ j.call \in 1 .. Calls /\ j.pass \in 0 .. 2 /\ j.row \in Nat
                  /\ j.pass = 0 => j.row \in 0 .. SetMods - 1
                  /\ j.pass # 0 => j.row \in 0 .. Rows(j.pass) - 1
                  /\ j = [call |-> j.call, pass |-> j.pass, row |-> j.row]
BY MtAssumption, Sizes DEF Task

LEMMA SetModIsTask ==
  \A c \in 1 .. Calls, i \in 0 .. SetMods - 1 : [call |-> c, pass |-> 0, row |-> i] \in Task
BY DEF Task

LEMMA RowIsTask ==
  \A c \in 1 .. Calls, p \in 1 .. 2 :
    \A i \in 0 .. Rows(p) - 1 : [call |-> c, pass |-> p, row |-> i] \in Task
BY DEF Task

LEMMA QueueIs == P!Queued = Elements(queue) /\ Unfinished = Elements(queue) \cup running
BY DEF P!Queued, Unfinished, Elements

\* What adding a task, taking one and finishing one do to the places of tasks.
LEMMA AddMoves ==
  ASSUME TypeOK, OnePlace, NEW j \in Task, j \notin Unfinished \cup done,
         queue' = Append(queue, j), UNCHANGED <<running, done, on>>
  PROVE  /\ queue' \in Seq(Task) /\ OnePlace' /\ P!Queued' = P!Queued \cup {j}
         /\ Unfinished' = Unfinished \cup {j}
<1>1. queue' \in Seq(Task) /\ Distinct(queue') /\ Elements(queue') = Elements(queue) \cup {j}
  BY AddToQueue, QueueIs DEF TypeOK, OnePlace, Distinct
<1>2. P!Queued' = P!Queued \cup {j} /\ Unfinished' = Unfinished \cup {j}
  BY <1>1, QueueIs DEF P!Queued, Elements, Unfinished
<1>3. OnePlace'
  BY <1>1, <1>2 DEF OnePlace, Busy, Distinct, Unfinished
<1> QED
  BY <1>1, <1>2, <1>3

LEMMA BeginMoves ==
  ASSUME TypeOK, OnePlace, NEW w \in Worker, Begin(w)
  PROVE  /\ Head(queue) \in P!Queued /\ Head(queue) \in Task /\ on' = [on EXCEPT ![w] = Head(queue)]
         /\ queue' \in Seq(Task) /\ P!Queued' = P!Queued \ {Head(queue)}
         /\ Unfinished' = Unfinished /\ OnePlace' /\ Busy' = Busy \cup {w}
<1>1. /\ queue # << >> /\ queue' = Tail(queue) /\ running' = running \cup {Head(queue)}
      /\ done' = done /\ on' = [on EXCEPT ![w] = Head(queue)] /\ on[w] = Idle
  BY DEF Begin, P!Start
<1>2. /\ Head(queue) \in Task /\ queue' \in Seq(Task) /\ Distinct(queue')
      /\ Elements(queue) = Elements(queue') \cup {Head(queue)} /\ Head(queue) \notin Elements(queue')
  <2>1. queue \in Seq(Task) /\ Distinct(queue)
    BY DEF TypeOK, OnePlace, Distinct
  <2> QED
    BY <1>1, <2>1, TakeFromQueue
<1>3. /\ P!Queued = Elements(queue) /\ P!Queued' = Elements(queue')
      /\ Unfinished = Elements(queue) \cup running /\ Unfinished' = Elements(queue') \cup running'
  BY DEF P!Queued, Unfinished, Elements
<1>4. P!Queued' = P!Queued \ {Head(queue)} /\ Unfinished' = Unfinished
  BY <1>1, <1>2, <1>3
<1>5. Busy' = Busy \cup {w} /\ w \notin Busy /\ on'[w] = Head(queue)
      /\ \A v \in Busy : on'[v] = on[v]
  BY <1>1, <1>2, IdleIsNoTask DEF Busy, TypeOK
<1>6. running' = {on'[v] : v \in Busy'}
  <2>1. {on'[v] : v \in Busy'} = {on[v] : v \in Busy} \cup {Head(queue)}
    BY <1>5
  <2> QED
    BY <1>1, <2>1 DEF OnePlace
<1>7. \A u, v \in Busy' : on'[u] = on'[v] => u = v
  BY <1>2, <1>3, <1>5 DEF OnePlace
<1>8. P!Queued' \cap running' = {} /\ Unfinished' \cap done' = {}
  BY <1>1, <1>2, <1>3, <1>4 DEF OnePlace
<1> QED
  BY <1>1, <1>2, <1>3, <1>4, <1>5, <1>6, <1>7, <1>8 DEF OnePlace, Distinct

LEMMA EndMoves ==
  ASSUME TypeOK, OnePlace, NEW w \in Worker, End(w)
  PROVE  /\ on[w] \in Task /\ on[w] \in running /\ w \in Busy /\ on' = [on EXCEPT ![w] = Idle]
         /\ queue' = queue /\ P!Queued' = P!Queued
         /\ Unfinished' = Unfinished \ {on[w]} /\ done' = done \cup {on[w]} /\ OnePlace'
         /\ Busy' = Busy \ {w}
<1>1. /\ on[w] # Idle /\ on[w] \in Task /\ running' = running \ {on[w]} /\ on[w] \in running
      /\ done' = done \cup {on[w]} /\ on' = [on EXCEPT ![w] = Idle] /\ queue' = queue
  <2>1. on[w] # Idle /\ P!Finish(on[w]) /\ on' = [on EXCEPT ![w] = Idle]
    BY DEF End
  <2>2. on[w] \in Task
    BY <2>1 DEF TypeOK
  <2> QED
    BY <2>1, <2>2 DEF P!Finish
<1>2. P!Queued' = P!Queued /\ Unfinished' = Unfinished \ {on[w]}
  BY <1>1 DEF P!Queued, Unfinished, OnePlace
<1>3. Busy' = Busy \ {w} /\ w \in Busy /\ \A v \in Busy \ {w} : on'[v] = on[v] /\ on[v] # on[w]
  BY <1>1, IdleIsNoTask DEF Busy, TypeOK, OnePlace
<1>4. running' = {on'[v] : v \in Busy'}
  <2>1. {on'[v] : v \in Busy'} = {on[v] : v \in Busy \ {w}}
    BY <1>3
  <2> QED
    BY <1>1, <1>3, <2>1 DEF OnePlace
<1> QED
  BY <1>1, <1>2, <1>3, <1>4 DEF OnePlace

(* Memory *)

LEMMA Arrays ==
  /\ \A c : IsArray(Input(c))
  /\ \A s, m, n : IsArray(Transposed(s, m, n))
  /\ \A s, r : IsArray(BlockTransposed(s, r))
  /\ \A p, s, i, n, index, mod : IsArray(RowDone(p, s, i, n, index, mod))
  /\ \A p, c, s, rs : IsArray(RowsDone(p, c, s, rs))
BY DEF IsArray, Input, Transposed, BlockTransposed, RowDone, RowsDone

\* Writing one buffer of one call.
LEMMA MemoryWrite ==
  ASSUME NEW m, IsMemory(m), NEW c \in 1 .. Calls, NEW b \in {"a", "temp"}, NEW s, IsArray(s)
  PROVE  /\ IsMemory([m EXCEPT ![c][b] = s])
         /\ [m EXCEPT ![c][b] = s][c][b] = s
         /\ \A d \in 1 .. Calls, e \in {"a", "temp"} :
              d # c \/ e # b => [m EXCEPT ![c][b] = s][d][e] = m[d][e]
<1>1. m = [d \in 1 .. Calls |-> [a |-> m[d].a, temp |-> m[d].temp]]
  BY DEF IsMemory
<1> DEFINE n == [m EXCEPT ![c][b] = s]
<1>2. n = [d \in 1 .. Calls |-> IF d = c THEN [m[c] EXCEPT ![b] = s] ELSE m[d]]
  BY <1>1
<1>3. m[c] = [a |-> m[c].a, temp |-> m[c].temp]
  BY <1>1
<1>4. [m[c] EXCEPT ![b] = s] = IF b = "a" THEN [a |-> s, temp |-> m[c].temp]
                                          ELSE [a |-> m[c].a, temp |-> s]
  BY <1>3
<1>5. \A d \in 1 .. Calls : m[d] = [a |-> m[d].a, temp |-> m[d].temp]
  BY <1>1
<1> HIDE DEF n
<1>6. IsMemory(n)
  BY <1>2, <1>4, <1>5 DEF IsMemory
<1>7. n[c][b] = s /\ \A d \in 1 .. Calls, e \in {"a", "temp"} : d # c \/ e # b => n[d][e] = m[d][e]
  BY <1>2, <1>4, <1>5
<1> QED
  BY <1>6, <1>7 DEF n

-------------------------------------------------------------------------------
(* Every step preserves the structure: where main is, what it has added and  *)
(* where the tasks are.                                                      *)

LEMMA InitStructure == Init => Structure
<1> SUFFICES ASSUME Init PROVE Structure
  OBVIOUS
<1>1. /\ queue = << >> /\ running = {} /\ done = {} /\ closed = FALSE
      /\ P!Queued = {} /\ Unfinished = {} /\ Busy = {}
  BY DEF Init, P!PoolInit, P!Queued, Unfinished, Busy
<1>2. IsMemory(mem)
  BY Arrays DEF Init, IsMemory
<1>3. /\ pc = "call" /\ call = 1 /\ pass = 1 /\ row = 0 /\ late = FALSE
      /\ globals = [index |-> 0, n |-> 0, data |-> [call |-> 0, buf |-> "a"]]
      /\ on = [w \in Worker |-> Idle] /\ seen = [w \in Worker |-> globals]
      /\ modulus = [w \in Worker |-> 0]
  BY DEF Init
<1>4. globals \in GlobalArgs /\ 1 \in 1 .. Calls
  BY <1>3, MtAssumption DEF GlobalArgs
<1>5. TypeOK
  <2>1. seen \in [Worker -> GlobalArgs] /\ on \in [Worker -> Task \cup {Idle}]
    BY <1>3, <1>4
  <2>2. modulus \in [Worker -> 0 .. Calls]
    BY <1>3, MtAssumption
  <2>3. queue \in Seq(Task) /\ running \subseteq Task /\ done \subseteq Task
    BY <1>1
  <2>4. /\ pc \in {"call", "setmod", "enter", "block", "row", "wait", "return"}
        /\ call \in 1 .. Calls /\ pass \in 1 .. 2 /\ row \in Nat
    BY <1>3, <1>4
  <2>5. late \in BOOLEAN /\ closed \in BOOLEAN
    BY <1>1, <1>3
  <2> QED
    BY <1>2, <1>4, <2>1, <2>2, <2>3, <2>4, <2>5 DEF TypeOK
<1>6. Phases /\ OnePlace /\ Recent
  BY <1>1, <1>3 DEF Phases, OnePlace, Recent
<1>7. Added = {}
  BY <1>3, TaskFields DEF Added
<1> QED
  BY <1>1, <1>5, <1>6, <1>7 DEF Structure, Accounts

\* A worker takes a task and reads global_args.
LEMMA BeginStructure == ASSUME Structure, NEW w \in Worker, Begin(w) PROVE Structure'
<1>1. /\ UNCHANGED <<mem, globals, modulus, pc, call, pass, row, late, done, closed>>
      /\ seen' = [seen EXCEPT ![w] = globals] /\ queue # << >> /\ running' = running \cup {Head(queue)}
  BY DEF Begin, P!Start, main
<1>2. /\ Head(queue) \in P!Queued /\ Head(queue) \in Task /\ on' = [on EXCEPT ![w] = Head(queue)]
      /\ queue' \in Seq(Task) /\ P!Queued' = P!Queued \ {Head(queue)}
      /\ Unfinished' = Unfinished /\ OnePlace'
  BY BeginMoves DEF Structure
<1>3. TypeOK'
  BY <1>1, <1>2 DEF Structure, TypeOK
<1>4. Phases'
  BY <1>1, <1>2 DEF Structure, Phases, GlobalsOf, Buffer
<1>5. Accounts' /\ Recent'
  BY <1>1, <1>2 DEF Structure, Accounts, Added, AddedOf, Recent, InPass
<1> QED
  BY <1>2, <1>3, <1>4, <1>5 DEF Structure

\* A task ends.
LEMMA EndStructure == ASSUME Structure, NEW w \in Worker, End(w) PROVE Structure'
<1>1. UNCHANGED <<globals, seen, pc, call, pass, row, late, closed, queue>>
  BY DEF End, P!Finish, main
<1>2. /\ on[w] \in Task /\ on[w] \in running /\ on' = [on EXCEPT ![w] = Idle]
      /\ P!Queued' = P!Queued /\ Unfinished' = Unfinished \ {on[w]} /\ done' = done \cup {on[w]}
      /\ OnePlace'
  BY EndMoves DEF Structure
<1>3. IsMemory(mem') /\ modulus' \in [Worker -> 0 .. Calls]
  <2>1. seen[w] \in GlobalArgs /\ IsMemory(mem) /\ modulus \in [Worker -> 0 .. Calls]
    BY DEF Structure, TypeOK
  <2>2. CASE on[w].pass = 0
    BY <2>1, <2>2 DEF End, GlobalArgs
  <2>3. CASE on[w].pass # 0
    <3> DEFINE g == seen[w]
               s == RowDone(on[w].pass, mem[g.data.call][g.data.buf], on[w].row, g.n, g.index, ModulusOf(w))
    <3>1. modulus' = modulus /\ mem' = [mem EXCEPT ![g.data.call][g.data.buf] = s]
      BY <2>3 DEF End
    <3>2. IsArray(s) /\ g.data.call \in 0 .. Calls /\ g.data.buf \in {"a", "temp"}
      BY <2>1, Arrays DEF GlobalArgs
    <3> HIDE DEF s
    <3>3. CASE g.data.call = 0
      <4>1. DOMAIN mem = 1 .. Calls /\ mem = [c \in DOMAIN mem |-> mem[c]]
        BY <2>1 DEF IsMemory
      <4>2. 0 \notin DOMAIN mem
        BY <4>1, MtAssumption
      <4>3. mem' = mem
        BY <3>1, <3>3, <4>1, <4>2
      <4> QED
        BY <2>1, <3>1, <4>3
    <3>4. CASE g.data.call \in 1 .. Calls
      BY <2>1, <3>1, <3>2, <3>4, MemoryWrite
    <3> QED
      BY <3>2, <3>3, <3>4, MtAssumption
  <2> QED
    BY <2>2, <2>3
<1>4. TypeOK'
  <2>1. running' \subseteq Task /\ done' \subseteq Task /\ on' \in [Worker -> Task \cup {Idle}]
    BY <1>2, EndMoves DEF Structure, TypeOK, End, P!Finish
  <2> QED
    BY <1>1, <1>3, <2>1 DEF Structure, TypeOK
<1>5. Phases'
  BY <1>1, <1>2 DEF Structure, Phases, GlobalsOf, Buffer
<1>6. Accounts' /\ Recent'
  BY <1>1, <1>2 DEF Structure, Accounts, Added, AddedOf, Recent, InPass, Unfinished
<1> QED
  BY <1>2, <1>4, <1>5, <1>6 DEF Structure

\* Main sets the index of the modulus, for the next array.
LEMMA BeginCallStructure == ASSUME Structure, BeginCall PROVE Structure'
<1>1. /\ UNCHANGED <<queue, running, done, closed, mem, on, seen, modulus, call, late>>
      /\ pc = "call" /\ globals' = [globals EXCEPT !.index = call]
      /\ pass' = 1 /\ row' = 0 /\ pc' = IF Ext THEN "setmod" ELSE "enter"
  BY DEF BeginCall, pool, worker, Initcode, NoInitcode, FirstRow
<1>2. P!Queued' = P!Queued /\ Unfinished' = Unfinished /\ Busy' = Busy
  BY <1>1 DEF P!Queued, Unfinished, Busy
<1>3. TypeOK'
  <2>1. globals' \in GlobalArgs
    <3>1. globals \in GlobalArgs /\ call \in 0 .. Calls
      BY MtAssumption DEF Structure, TypeOK
    <3>2. globals' = [index |-> call, n |-> globals.n, data |-> globals.data]
      BY <1>1, <3>1 DEF GlobalArgs
    <3> QED
      BY <3>1, <3>2 DEF GlobalArgs
  <2> QED
    BY <1>1, <2>1 DEF Structure, TypeOK
<1>4. Phases'
  BY <1>1, <1>2, MtAssumption DEF Structure, Phases, TypeOK, GlobalArgs
<1>5. OnePlace'
  BY <1>1, <1>2 DEF Structure, OnePlace
<1>6. Accounts'
  <2>1. ASSUME NEW j \in Task PROVE j \in Added' <=> j \in Added
    <3>1. j.pass \in 0 .. 2 /\ j.row \in Nat /\ Ext \in BOOLEAN
      BY TaskFields, MtAssumption
    <3>2. AddedOf(j.pass, j.row)' <=> j.pass = 0 /\ Ext /\ (Ext => j.row < 0)
      BY <1>1, <3>1 DEF AddedOf
    <3>3. ~AddedOf(j.pass, j.row)'
      BY <3>1, <3>2
    <3> QED
      BY <1>1, <3>3 DEF Added
  <2> QED
    BY <1>1, <1>2, <2>1 DEF Structure, Accounts, Added
<1>7. Recent'
  BY <1>1, <1>2 DEF Structure, Recent, InPass
<1> QED
  BY <1>3, <1>4, <1>5, <1>6, <1>7 DEF Structure

\* Main adds a task that sets the modulus of the worker that runs it.
LEMMA AddSetModStructure == ASSUME Structure, AddSetMod PROVE Structure'
<1> DEFINE j == [call |-> call, pass |-> 0, row |-> row]
<1>1. /\ UNCHANGED <<running, done, closed, mem, globals, on, seen, modulus, call, pass, late>>
      /\ pc = "setmod" /\ queue' = Append(queue, j) /\ j \notin Unfinished \cup done /\ ~closed
      /\ row' = row + 1 /\ pc' = IF row + 1 = SetMods THEN "enter" ELSE "setmod"
  BY DEF AddSetMod, worker, P!Add, Unfinished
<1>2. call \in 1 .. Calls /\ row \in 0 .. SetMods - 1 /\ Ext /\ pass = 1
  BY <1>1, MtAssumption DEF Structure, TypeOK, Phases
<1>3. j \in Task
  BY <1>2, SetModIsTask
<1>4. /\ queue' \in Seq(Task) /\ OnePlace' /\ P!Queued' = P!Queued \cup {j}
      /\ Unfinished' = Unfinished \cup {j}
  BY <1>1, <1>3, AddMoves DEF Structure
<1>5. TypeOK'
  BY <1>1, <1>2, <1>4 DEF Structure, TypeOK
<1>6. Phases'
  BY <1>1, <1>2, <1>4, MtAssumption DEF Structure, Phases, GlobalsOf, Buffer
<1>7. Accounts'
  <2>1. ASSUME NEW i \in Task PROVE i \in Added' <=> i \in Added \/ i = j
    BY <1>1, <1>2, <2>1, TaskFields DEF Added, AddedOf
  <2> QED
    BY <1>1, <1>3, <1>4, <2>1 DEF Structure, Accounts, Added
<1>8. Recent'
  BY <1>1, <1>2, <1>4 DEF Structure, Recent, InPass
<1> QED
  BY <1>4, <1>5, <1>6, <1>7, <1>8 DEF Structure

\* Main enters a pass.
LEMMA EnterPassStructure == ASSUME Structure, EnterPass PROVE Structure'
<1>1. /\ UNCHANGED <<queue, running, done, closed, on, seen, modulus, call, pass, late>>
      /\ pc = "enter" /\ globals' = GlobalsOf(call, pass)
      /\ row' = 0 /\ pc' = IF Square THEN "block" ELSE "row"
  BY DEF EnterPass, pool, worker, FirstRow
<1>2. P!Queued' = P!Queued /\ Unfinished' = Unfinished /\ Busy' = Busy
  BY <1>1 DEF P!Queued, Unfinished, Busy
<1>3. call \in 1 .. Calls /\ pass \in 1 .. 2 /\ IsMemory(mem)
  BY DEF Structure, TypeOK
<1>4. IsMemory(mem')
  BY <1>3, Arrays, MemoryWrite DEF EnterPass
<1>5. TypeOK'
  <2>1. globals' \in GlobalArgs
    BY <1>1, <1>3, Sizes, MtAssumption DEF GlobalsOf, GlobalArgs, Buffer
  <2> QED
    BY <1>1, <1>4, <2>1 DEF Structure, TypeOK
<1>6. Phases'
  <2>1. 0 < Rows(pass) /\ 0 % B = 0
    BY <1>3, Sizes, MtAssumption
  <2> QED
    BY <1>1, <1>2, <2>1 DEF Structure, Phases, GlobalsOf, Buffer
<1>7. OnePlace' /\ Recent'
  BY <1>1, <1>2 DEF Structure, OnePlace, Recent, InPass
<1>8. Accounts'
  <2>1. ASSUME NEW j \in Task PROVE j \in Added' <=> j \in Added
    BY <1>1, <2>1, TaskFields DEF Added, AddedOf
  <2> QED
    BY <1>1, <1>2, <2>1 DEF Structure, Accounts, Added
<1> QED
  BY <1>5, <1>6, <1>7, <1>8 DEF Structure

\* Main transposes a block row.
LEMMA TransposeBlockStructure == ASSUME Structure, TransposeBlock PROVE Structure'
<1>1. /\ UNCHANGED <<queue, running, done, closed, globals, on, seen, modulus, call, pass, row, late>>
      /\ pc = "block" /\ pc' = "row"
      /\ mem' = [mem EXCEPT ![call].a = BlockTransposed(mem[call].a, row)]
  BY DEF TransposeBlock, pool, worker
<1>2. P!Queued' = P!Queued /\ Unfinished' = Unfinished /\ Busy' = Busy
  BY <1>1 DEF P!Queued, Unfinished, Busy
<1>3. IsMemory(mem')
  BY <1>1, Arrays, MemoryWrite DEF Structure, TypeOK
<1>4. TypeOK'
  BY <1>1, <1>3 DEF Structure, TypeOK
<1>5. Phases'
  BY <1>1, <1>2 DEF Structure, Phases, GlobalsOf, Buffer
<1>6. OnePlace' /\ Recent'
  BY <1>1, <1>2 DEF Structure, OnePlace, Recent, InPass
<1>7. Accounts'
  BY <1>1, <1>2 DEF Structure, Accounts, Added, AddedOf
<1> QED
  BY <1>4, <1>5, <1>6, <1>7 DEF Structure

\* Main adds the task of a row.
LEMMA AddRowStructure == ASSUME Structure, AddRow PROVE Structure'
<1> DEFINE j == [call |-> call, pass |-> pass, row |-> row]
<1>1. /\ UNCHANGED <<running, done, closed, mem, globals, on, seen, modulus, call, pass, late>>
      /\ pc = "row" /\ queue' = Append(queue, j) /\ j \notin Unfinished \cup done /\ ~closed
      /\ row' = row + 1
      /\ pc' = IF row + 1 = Rows(pass) THEN IF pass = 1 THEN "wait" ELSE "return"
               ELSE IF Square /\ (row + 1) % B = 0 THEN "block" ELSE "row"
  BY DEF AddRow, worker, P!Add, Unfinished, AfterLastRow
<1>2. call \in 1 .. Calls /\ pass \in 1 .. 2 /\ row \in 0 .. Rows(pass) - 1 /\ Rows(pass) \in Nat
  <2>1. call \in 1 .. Calls /\ pass \in 1 .. 2 /\ row \in Nat
    BY DEF Structure, TypeOK
  <2>2. row < Rows(pass)
    BY <1>1 DEF Structure, Phases
  <2>3. Rows(pass) \in Nat
    BY <2>1, Sizes
  <2> QED
    BY <2>1, <2>2, <2>3
<1>3. j \in Task
  BY <1>2, RowIsTask
<1>4. /\ queue' \in Seq(Task) /\ OnePlace' /\ P!Queued' = P!Queued \cup {j}
      /\ Unfinished' = Unfinished \cup {j}
  BY <1>1, <1>3, AddMoves DEF Structure
<1>5. TypeOK'
  BY <1>1, <1>2, <1>4 DEF Structure, TypeOK
<1>6. Phases'
  BY <1>1, <1>2, <1>4 DEF Structure, Phases, GlobalsOf, Buffer
<1>7. Accounts'
  <2>1. ASSUME NEW i \in Task PROVE i \in Added' <=> i \in Added \/ i = j
    BY <1>1, <1>2, <2>1, TaskFields DEF Added, AddedOf
  <2> QED
    BY <1>1, <1>3, <1>4, <2>1 DEF Structure, Accounts, Added
<1>8. Recent'
  BY <1>1, <1>2, <1>4 DEF Structure, Recent, InPass
<1> QED
  BY <1>4, <1>5, <1>6, <1>7, <1>8 DEF Structure

\* Main goes on to the second pass: the queue is empty.
LEMMA WaitStructure == ASSUME Structure, Wait PROVE Structure'
<1>1. /\ UNCHANGED <<queue, running, done, closed, mem, globals, on, seen, modulus, call, row>>
      /\ pc = "wait" /\ pc' = "enter" /\ queue = << >> /\ pass' = 2
      /\ late' = (late \/ Unfinished # {})
  BY DEF Wait, WaitIsOver, pool, worker
<1>2. P!Queued' = P!Queued /\ P!Queued = {} /\ Unfinished' = Unfinished /\ Busy' = Busy
  BY <1>1 DEF P!Queued, Unfinished, Busy
<1>3. TypeOK'
  BY <1>1 DEF Structure, TypeOK
<1>4. Phases'
  BY <1>1, <1>2 DEF Structure, Phases
<1>5. OnePlace' /\ Recent'
  BY <1>1, <1>2 DEF Structure, OnePlace, Recent
<1>6. Accounts'
  <2>1. ASSUME NEW j \in Task PROVE j \in Added' <=> j \in Added
    BY <1>1, <2>1, TaskFields DEF Added, AddedOf, Structure, Phases
  <2> QED
    BY <1>1, <1>2, <2>1 DEF Structure, Accounts, Added
<1> QED
  BY <1>3, <1>4, <1>5, <1>6 DEF Structure

\* Main goes on to the next array.
LEMMA ReturnStructure == ASSUME Structure, Return PROVE Structure'
<1>1. /\ UNCHANGED <<queue, running, done, closed, mem, globals, on, seen, modulus, pass, row>>
      /\ pc = "return" /\ pc' = "call" /\ call < Calls /\ call' = call + 1
      /\ late' = (late \/ Unfinished # {})
  BY DEF Return, pool, worker
<1>2. P!Queued' = P!Queued /\ Unfinished' = Unfinished /\ Busy' = Busy
  BY <1>1 DEF P!Queued, Unfinished, Busy
<1>3. call \in 1 .. Calls /\ Calls \in Nat /\ pass = 2
  BY <1>1, MtAssumption DEF Structure, TypeOK, Phases
<1>4. TypeOK'
  BY <1>1, <1>3 DEF Structure, TypeOK
<1>5. Phases'
  BY <1>1, <1>2, <1>3 DEF Structure, Phases
<1>6. OnePlace' /\ Recent'
  BY <1>1, <1>2, <1>3 DEF Structure, OnePlace, Recent, InPass
<1>7. Accounts'
  <2>1. ASSUME NEW j \in Task PROVE j \in Added' <=> j \in Added
    BY <1>1, <1>3, <2>1, TaskFields DEF Added, AddedOf
  <2> QED
    BY <1>1, <1>2, <2>1 DEF Structure, Accounts, Added
<1> QED
  BY <1>4, <1>5, <1>6, <1>7 DEF Structure

\* ~Context gets the pool destroyed.
LEMMA DestroyStructure == ASSUME Structure, Destroy PROVE Structure'
<1>1. /\ UNCHANGED <<queue, running, done, mem, globals, on, seen, modulus, pc, call, pass, row, late>>
      /\ closed' = TRUE /\ queue = << >> /\ running = {} /\ pc = "return" /\ call = Calls
  BY DEF Destroy, P!Close, worker, main
<1>2. P!Queued' = P!Queued /\ P!Queued = {} /\ Unfinished' = Unfinished /\ Unfinished = {} /\ Busy' = Busy
  BY <1>1 DEF P!Queued, Unfinished, Busy
<1>3. TypeOK'
  BY <1>1 DEF Structure, TypeOK
<1>4. Phases' /\ OnePlace' /\ Recent' /\ Accounts'
  BY <1>1, <1>2 DEF Structure, Phases, OnePlace, Recent, InPass, Accounts, Added, AddedOf, GlobalsOf,
                    Buffer
<1> QED
  BY <1>3, <1>4 DEF Structure

LEMMA StutterStructure == ASSUME Structure, UNCHANGED vars PROVE Structure'
<1>1. /\ UNCHANGED <<queue, running, done, closed, mem, globals, on, seen, modulus>>
      /\ UNCHANGED <<pc, call, pass, row, late>>
  BY DEF vars, pool, worker, main
<1>2. P!Queued' = P!Queued /\ Unfinished' = Unfinished /\ Busy' = Busy
  BY <1>1 DEF P!Queued, Unfinished, Busy
<1>3. TypeOK'
  BY <1>1 DEF Structure, TypeOK
<1>4. Phases' /\ OnePlace' /\ Recent' /\ Accounts'
  BY <1>1, <1>2 DEF Structure, Phases, OnePlace, Recent, InPass, Accounts, Added, AddedOf, GlobalsOf,
                    Buffer
<1> QED
  BY <1>3, <1>4 DEF Structure

LEMMA StepStructure == Structure /\ [Next]_vars => Structure'
BY BeginStructure, EndStructure, BeginCallStructure, AddSetModStructure, EnterPassStructure,
   TransposeBlockStructure, AddRowStructure, WaitStructure, ReturnStructure, DestroyStructure,
   StutterStructure
DEF Next, MainStep, Terminated

\* In every execution, main may run ahead of the workers, but never by more
\* than a pass: what is queued belongs to the pass main is in or to the second
\* pass of the array before.
THEOREM AtMostOnePassAhead == Spec => []QueueIsRecent
<1>1. Structure => QueueIsRecent
  BY DEF Structure, Recent, InPass, QueueIsRecent
<1> QED
  BY <1>1, InitStructure, StepStructure, PTL DEF Spec

-------------------------------------------------------------------------------
(* What a pass does to a coefficient *)

LEMMA MovedIs ==
  ASSUME NEW p \in 1 .. 2, NEW c, NEW k \in Cell
  PROVE  Moved(p, c)[k] = Source(p, c)[(k % RowLen(p)) * Rows(p) + k \div RowLen(p)]
BY DEF Moved, Transposed, RowLen, Rows

Term(p, c, m, x, y, f) == [op |-> p, index |-> c, mod |-> m, twiddle |-> x, j |-> y, of |-> f]

LEMMA ResultIs ==
  ASSUME NEW p \in 1 .. 2, NEW c, NEW k \in Cell
  PROVE  Result(p, c)[k] = RowDone(p, Moved(p, c), k \div RowLen(p), RowLen(p), c, c)[k]
BY RowOfCell DEF Result, RowsDone

\* The second pass starts from what the first one ends with.
LEMMA SourceIs ==
  ASSUME NEW c
  PROVE  /\ \A k \in Cell : Source(1, c)[k] = Given(c, k)
         /\ Source(2, c) = Result(1, c)
BY DEF Source, Result, Moved, Input, Rows

\* The fields of a term.
LEMMA TermMod ==
  ASSUME NEW p, NEW c, NEW m, NEW n, NEW x, NEW y, NEW f
  PROVE  /\ Term(p, c, m, x, y, f).mod = m
         /\ Term(p, c, m, x, y, f) = [Term(p, c, n, x, y, f) EXCEPT !.mod = m]
BY DEF Term

LEMMA TermUnreduced ==
  ASSUME NEW p, NEW c, NEW m, NEW x, NEW y, NEW f
  PROVE  Unreduced(Term(p, c, m, x, y, f)) =
           Term(p, c, 0, x, y, [k \in DOMAIN f |-> [f[k] EXCEPT !.mod = 0]])
<1> DEFINE t == Term(p, c, m, x, y, f)
           r == [k \in DOMAIN f |-> [f[k] EXCEPT !.mod = 0]]
<1>1. t.of = f
  BY DEF Term
<1>2. Unreduced(t) = [t EXCEPT !.mod = 0, !.of = r]
  BY <1>1 DEF Unreduced
<1> HIDE DEF r
<1>3. [t EXCEPT !.mod = 0] = Term(p, c, 0, x, y, f)
  BY TermMod
<1>4. [Term(p, c, 0, x, y, f) EXCEPT !.of = r] = Term(p, c, 0, x, y, r)
  BY DEF Term
<1>5. [t EXCEPT !.mod = 0, !.of = r] = [[t EXCEPT !.mod = 0] EXCEPT !.of = r]
  OBVIOUS
<1> QED
  BY <1>2, <1>3, <1>4, <1>5 DEF r

\* Two terms are alike if they are the same row NTT of alike rows; the moduli
\* may differ with the FHE instructions only.
LEMMA LikeTerms ==
  ASSUME NEW p \in 1 .. 2, NEW c, NEW m, Ext \/ m = c, NEW x, NEW y, NEW D, NEW f, NEW g,
         f = [j \in D |-> f[j]], g = [j \in D |-> g[j]],
         \A j \in D : Like(p - 1, f[j], g[j])
  PROVE  Like(p, Term(p, c, m, x, y, f),
                 Term(p, c, c, x, y, g))
<1>1. CASE ~Ext
  <2>1. m = c /\ \A j \in D : f[j] = g[j]
    BY <1>1 DEF Like
  <2> QED
    BY <2>1, Zenon DEF Like
<1>2. CASE Ext /\ p = 1
  <2>1. \A j \in D : f[j] = g[j]
    BY <1>2 DEF Like
  <2>2. f = g
    BY <2>1
  <2>3. Term(p, c, m, x, y, g) =
           [Term(p, c, c, x, y, g) EXCEPT
              !.mod = Term(p, c, m, x, y, g).mod]
    BY TermMod
  <2> QED
    BY <1>2, <2>2, <2>3, Zenon DEF Like
<1>3. CASE Ext /\ p = 2
  <2>1. ASSUME NEW j \in D PROVE [f[j] EXCEPT !.mod = 0] = [g[j] EXCEPT !.mod = 0]
    <3>1. f[j] = g[j] \/ f[j] = [g[j] EXCEPT !.mod = f[j].mod]
      BY <1>3 DEF Like
    <3> QED
      BY <3>1
  <2>2. DOMAIN f = D /\ DOMAIN g = D
    OBVIOUS
  <2>3. [j \in DOMAIN f |-> [f[j] EXCEPT !.mod = 0]] = [j \in DOMAIN g |-> [g[j] EXCEPT !.mod = 0]]
    BY <2>1, <2>2
  <2>4. Unreduced(Term(p, c, m, x, y, f)) = Unreduced(Term(p, c, c, x, y, g))
    <3> DEFINE F == [j \in DOMAIN f |-> [f[j] EXCEPT !.mod = 0]]
               G == [j \in DOMAIN g |-> [g[j] EXCEPT !.mod = 0]]
    <3>1. Unreduced(Term(p, c, m, x, y, f)) = Term(p, c, 0, x, y, F)
      BY TermUnreduced
    <3>2. Unreduced(Term(p, c, c, x, y, g)) = Term(p, c, 0, x, y, G)
      BY TermUnreduced
    <3>3. F = G
      BY <2>3
    <3> QED
      BY <3>1, <3>2, <3>3
  <2> QED
    BY <1>3, <2>4, Zenon DEF Like
<1> QED
  BY <1>1, <1>2, <1>3

\* The row NTT of a row that is alike gives coefficients that are alike.
LEMMA LikeRow ==
  ASSUME NEW p \in 1 .. 2, NEW c, NEW m, Ext \/ m = c, NEW s, NEW k \in Cell,
         NEW n, n = RowLen(p), NEW i, i = k \div n,
         \A l \in Cell : l \div n = i => Like(p - 1, s[l], Moved(p, c)[l])
  PROVE  Like(p, RowDone(p, s, i, n, c, m)[k], Result(p, c)[k])
<1> DEFINE D == 0 .. n - 1
           f == [j \in D |-> s[i * n + j]]
           g == [j \in D |-> Moved(p, c)[i * n + j]]
           x == IF p = 2 THEN i ELSE 0
<1>1. i \in 0 .. Rows(p) - 1
  BY RowOfCell
<1>2. \A j \in D : i * n + j \in Cell /\ (i * n + j) \div n = i
  BY <1>1, CellOfRow
<1>3. \A j \in D : Like(p - 1, f[j], g[j])
  BY <1>2
<1>4. RowDone(p, s, i, n, c, m)[k] =
        Term(p, c, m, x, k % n, f)
  BY DEF RowDone, Term
<1>5. Result(p, c)[k] = Term(p, c, c, x, k % n, g)
  <2>1. Result(p, c)[k] = RowDone(p, Moved(p, c), i, n, c, c)[k]
    BY ResultIs
  <2> QED
    BY <2>1 DEF RowDone, Term
<1>6. f = [j \in D |-> f[j]] /\ g = [j \in D |-> g[j]]
  OBVIOUS
<1> HIDE DEF D, f, g, x
<1> QED
  BY <1>3, <1>4, <1>5, <1>6, LikeTerms

-------------------------------------------------------------------------------
(* Unless main runs ahead, every step preserves the rest of the invariant.   *)

RowTask(p, k) == [call |-> call, pass |-> p, row |-> k \div RowLen(p)]
InRows == pc \in {"block", "row", "wait", "return"}

LEMMA Constants ==
  /\ N1 \in Nat \ {0} /\ N2 \in Nat \ {0} /\ B \in Nat \ {0} /\ Calls \in Nat \ {0}
  /\ N1 % B = 0 /\ \A p \in 1 .. 2 : RowLen(p) \in Nat \ {0} /\ Rows(p) \in Nat \ {0}
  /\ \A p \in 1 .. 2 : Buffer(p) \in {"a", "temp"} /\ (Square => Buffer(p) = "a" /\ RowLen(p) = N1 /\ Rows(p) = N1)
  /\ Buffer(2) = "a" /\ (~Square => Buffer(1) = "temp")
BY MtAssumption DEF RowLen, Rows, Buffer, Square

\* A task of a row that is unfinished or done has been added in this pass.
LEMMA AddedRow ==
  ASSUME Structure, NEW j \in Unfinished \cup done, j.call = call, j.pass = pass
  PROVE  InRows /\ (pc \in {"block", "row"} => j.row < row)
<1>1. j \in Added
  BY DEF Structure, Accounts
<1>2. pass \in 1 .. 2 /\ call \in 1 .. Calls
      /\ pc \in {"call", "setmod", "enter", "block", "row", "wait", "return"}
  BY DEF Structure, TypeOK
<1>3. pc # "call" /\ AddedOf(pass, j.row)
  BY <1>1, <1>2 DEF Added
<1> QED
  BY <1>2, <1>3 DEF AddedOf, InRows

\* When nothing is unfinished, every row of the pass main has added is done.
LEMMA AllDone ==
  ASSUME Structure, Unfinished = {}, pc \in {"wait", "return"}, NEW k \in Cell
  PROVE  RowTask(pass, k) \in done
<1>1. pass \in 1 .. 2 /\ call \in 1 .. Calls
  BY DEF Structure, TypeOK
<1>2. RowTask(pass, k) \in Task
  BY <1>1, RowOfCell, RowIsTask DEF RowTask
<1>3. RowTask(pass, k) \in Added
  BY <1>1, <1>2 DEF Added, AddedOf, RowTask
<1> QED
  BY <1>3 DEF Structure, Accounts

LEMMA FrontierIsAhead ==
  ASSUME Structure, pc \in {"block", "row"} PROVE Frontier \in Nat /\ row <= Frontier
<1>1. row \in Nat /\ row % B \in 0 .. B - 1 /\ B \in Nat
  BY Constants, DivMod DEF Structure, TypeOK
<1> QED
  BY <1>1 DEF Frontier

LEMMA InitCalm == Init => Calm
<1> SUFFICES ASSUME Init PROVE Calm
  OBVIOUS
<1>1. Unfinished = {} /\ Busy = {} /\ pc = "call" /\ call = 1
  BY DEF Init, P!PoolInit, P!Queued, Unfinished, Busy
<1>2. \A c \in 1 .. Calls, k \in Cell : mem[c].a[k] = Given(c, k)
  BY DEF Init, Input
<1>3. CalmMemory
  BY <1>1, <1>2, Constants DEF CalmMemory, OtherCalls, AsGiven
<1> QED
  BY <1>1, <1>3 DEF Calm

\* The steps that change neither a coefficient nor where main is.
LEMMA SameMemory ==
  ASSUME CalmMemory, UNCHANGED <<mem, done, pc, call, pass, row>> PROVE CalmMemory'
BY DEF CalmMemory, OtherCalls, AsGiven, FirstPassDone, PassMemory, IsMoved, Frontier

LEMMA BeginCalm == ASSUME IInv, NEW w \in Worker, Begin(w), ~late' PROVE Calm'
<1>1. /\ UNCHANGED <<mem, globals, modulus, pc, call, pass, row, late, done>>
      /\ seen' = [seen EXCEPT ![w] = globals]
  BY DEF Begin, P!Start, main
<1>2. Structure /\ Calm
  BY <1>1 DEF IInv
<1>3. /\ Head(queue) \in P!Queued /\ Head(queue) \in Task /\ on' = [on EXCEPT ![w] = Head(queue)]
      /\ Unfinished' = Unfinished /\ Busy' = Busy \cup {w}
  BY <1>2, BeginMoves DEF Structure
<1>4. \A j \in Unfinished' : InPass(j)'
  BY <1>1, <1>2, <1>3 DEF Calm, InPass
<1>5. ASSUME Head(queue).pass # 0
      PROVE  globals = GlobalsOf(Head(queue).call, Head(queue).pass)
  <2>1. Head(queue) \in Unfinished /\ InPass(Head(queue))
    BY <1>2, <1>3 DEF Calm, Unfinished
  <2>2. Head(queue).call = call /\ Head(queue).pass = pass
    BY <1>5, <2>1 DEF InPass
  <2>3. InRows
    BY <1>2, <2>1, <2>2, AddedRow
  <2> QED
    BY <1>2, <2>2, <2>3 DEF Structure, Phases, InRows
<1>6. ASSUME NEW v \in Busy', on'[v].pass # 0 PROVE seen'[v] = GlobalsOf(on'[v].call, on'[v].pass)
  <2>1. on \in [Worker -> Task \cup {Idle}] /\ seen \in [Worker -> GlobalArgs] /\ v \in Worker
    BY <1>2, <1>3, <1>6 DEF Structure, TypeOK, Busy
  <2>2. CASE v = w
    BY <1>1, <1>3, <1>5, <1>6, <2>1, <2>2
  <2>3. CASE v # w
    BY <1>1, <1>2, <1>3, <1>6, <2>1, <2>3 DEF Calm
  <2> QED
    BY <2>2, <2>3
<1>7. CalmMemory'
  BY <1>1, <1>2, SameMemory DEF Calm
<1> QED
  BY <1>4, <1>6, <1>7 DEF Calm, GlobalsOf, Buffer

\* The cells of a row that is being worked on were transposed and are not done.
LEMMA RowIsReady ==
  ASSUME Structure, PassMemory, NEW j \in Unfinished, j.call = call, j.pass = pass,
         NEW k \in Cell, k \div RowLen(pass) = j.row
  PROVE  Like(pass - 1, mem[call][Buffer(pass)][k], Moved(pass, call)[k])
<1>1. j \in Task /\ pass \in 1 .. 2 /\ call \in 1 .. Calls
  BY QueueIs DEF Structure, TypeOK, Elements
<1>2. RowTask(pass, k) = j /\ j \notin done
  BY <1>1, TaskFields DEF RowTask, Structure, OnePlace
<1>3. InRows /\ (pc \in {"block", "row"} => j.row < row)
  BY AddedRow
<1>4. IsMoved(k)
  <2>1. CASE Square /\ pc \in {"block", "row"}
    <3>1. k \div N1 = j.row /\ j.row \in Nat /\ row \in Nat
      BY <1>1, <2>1, Constants, TaskFields DEF Structure, TypeOK
    <3>2. k \div N1 < Frontier
      BY <1>3, <2>1, <3>1, FrontierIsAhead
    <3> QED
      BY <3>2 DEF IsMoved
  <2> QED
    BY <1>3, <2>1 DEF IsMoved, InRows
<1> QED
  BY <1>2, <1>4 DEF PassMemory, RowTask

\* What a task that ends does to memory: it writes its row.
LEMMA EndWrites ==
  ASSUME IInv, ~late, NEW w \in Worker, End(w), on[w].pass # 0
  PROVE  /\ on[w] \in Unfinished /\ on[w].call = call /\ on[w].pass = pass /\ InRows
         /\ on[w].row \in 0 .. Rows(pass) - 1
         /\ \E m : /\ Ext \/ m = call
                   /\ mem' = [mem EXCEPT ![call][Buffer(pass)] =
                                RowDone(pass, mem[call][Buffer(pass)], on[w].row, RowLen(pass), call, m)]
<1>1. Structure /\ Calm
  BY DEF IInv
<1>2. on[w] \in Task /\ on[w] \in Unfinished /\ w \in Busy
  BY <1>1, EndMoves DEF Structure, Unfinished
<1>3. on[w].call = call /\ on[w].pass = pass
  BY <1>1, <1>2 DEF Calm, InPass
<1>4. on[w].row \in 0 .. Rows(pass) - 1
  BY <1>2, <1>3, TaskFields
<1>5. seen[w] = GlobalsOf(call, pass)
  BY <1>1, <1>2, <1>3 DEF Calm
<1>6. /\ seen[w].index = call /\ seen[w].n = RowLen(pass)
      /\ seen[w].data.call = call /\ seen[w].data.buf = Buffer(pass)
  BY <1>5 DEF GlobalsOf
<1>7. mem' = [mem EXCEPT ![call][Buffer(pass)] =
                RowDone(pass, mem[call][Buffer(pass)], on[w].row, RowLen(pass), call, ModulusOf(w))]
  BY <1>3, <1>6 DEF End
<1>8. Ext \/ ModulusOf(w) = call
  BY <1>6 DEF ModulusOf
<1>9. InRows
  BY <1>1, <1>2, <1>3, AddedRow
<1> QED
  BY <1>2, <1>3, <1>4, <1>7, <1>8, <1>9

LEMMA EndCalm == ASSUME IInv, NEW w \in Worker, End(w), ~late' PROVE Calm'
<1>1. UNCHANGED <<globals, seen, pc, call, pass, row, late>>
  BY DEF End, main
<1>2. Structure /\ Calm /\ ~late
  BY <1>1 DEF IInv
<1>3. /\ on[w] \in Task /\ on[w] \in running /\ on' = [on EXCEPT ![w] = Idle]
      /\ Unfinished' = Unfinished \ {on[w]} /\ done' = done \cup {on[w]} /\ Busy' = Busy \ {w}
  BY <1>2, EndMoves DEF Structure
<1>4. \A j \in Unfinished' : InPass(j)'
  BY <1>1, <1>2, <1>3 DEF Calm, InPass
<1>5. \A v \in Busy' : on'[v].pass # 0 => seen'[v] = GlobalsOf(on'[v].call, on'[v].pass)
  <2>1. \A v \in Busy' : v \in Busy /\ on'[v] = on[v]
    BY <1>2, <1>3 DEF Structure, TypeOK, Busy
  <2> QED
    BY <1>1, <1>2, <2>1 DEF Calm
<1>6. CASE on[w].pass = 0
  <2>1. mem' = mem
    BY <1>6 DEF End
  <2>2. CalmMemory'
    <3>1. pass \in 1 .. 2
      BY <1>2 DEF Structure, TypeOK
    <3>2. \A k \in Cell : RowTask(pass, k) \in done' <=> RowTask(pass, k) \in done
      BY <1>3, <1>6, <3>1 DEF RowTask
    <3> QED
      BY <1>1, <1>2, <2>1, <3>2
      DEF Calm, CalmMemory, OtherCalls, AsGiven, FirstPassDone, PassMemory, RowTask, IsMoved, Frontier
  <2> QED
    BY <1>4, <1>5, <2>2 DEF Calm, GlobalsOf, Buffer
<1>7. CASE on[w].pass # 0
  <2>1. /\ on[w] \in Unfinished /\ on[w].call = call /\ on[w].pass = pass /\ InRows
        /\ on[w].row \in 0 .. Rows(pass) - 1
    BY <1>2, <1>7, EndWrites
  <2>2. PICK m : /\ Ext \/ m = call
                 /\ mem' = [mem EXCEPT ![call][Buffer(pass)] =
                              RowDone(pass, mem[call][Buffer(pass)], on[w].row, RowLen(pass), call, m)]
    BY <1>2, <1>7, EndWrites
  <2>3. call \in 1 .. Calls /\ pass \in 1 .. 2 /\ IsMemory(mem) /\ Buffer(pass) \in {"a", "temp"}
    BY <1>2, Constants DEF Structure, TypeOK
  <2> DEFINE s == mem[call][Buffer(pass)]
             t == RowDone(pass, s, on[w].row, RowLen(pass), call, m)
  <2>4. /\ mem'[call][Buffer(pass)] = t
        /\ \A c \in 1 .. Calls : c # call => mem'[c].a = mem[c].a
    <3>1. IsArray(t) /\ mem' = [mem EXCEPT ![call][Buffer(pass)] = t]
      BY <2>2, Arrays
    <3> HIDE DEF t
    <3>2. \A c \in 1 .. Calls : c # call => mem'[c]["a"] = mem[c]["a"]
      BY <2>3, <3>1, MemoryWrite
    <3> QED
      BY <2>3, <3>1, <3>2, MemoryWrite
  <2>5. PassMemory
    BY <1>2, <2>1 DEF Calm, CalmMemory, InRows
  <2>6. ASSUME NEW k \in Cell, k \div RowLen(pass) = on[w].row
        PROVE  RowTask(pass, k) \in done' /\ Like(pass, t[k], Result(pass, call)[k])
    <3>1. RowTask(pass, k) \in done'
      BY <1>3, <2>1, <2>6, TaskFields DEF RowTask
    <3>2. \A l \in Cell : l \div RowLen(pass) = on[w].row => Like(pass - 1, s[l], Moved(pass, call)[l])
      BY <1>2, <2>1, <2>5, RowIsReady
    <3> QED
      BY <2>2, <2>3, <2>6, <3>1, <3>2, LikeRow
  <2>7. ASSUME NEW k \in Cell, k \div RowLen(pass) # on[w].row
        PROVE  (RowTask(pass, k) \in done' <=> RowTask(pass, k) \in done) /\ t[k] = s[k]
    BY <1>3, <2>7 DEF RowTask, RowDone
  <2>8. PassMemory'
    <3> HIDE DEF s, t
    <3>1. ASSUME NEW k \in Cell
          PROVE  IF RowTask(pass, k) \in done' THEN Like(pass, t[k], Result(pass, call)[k])
                 ELSE Like(pass - 1, t[k], (IF IsMoved(k) THEN Moved(pass, call) ELSE Source(pass, call))[k])
      <4>1. CASE k \div RowLen(pass) = on[w].row
        BY <2>6, <4>1
      <4>2. CASE k \div RowLen(pass) # on[w].row
        BY <2>5, <2>7, <4>2 DEF PassMemory, RowTask, s
      <4> QED
        BY <4>1, <4>2
    <3>2. \A k \in Cell : IsMoved(k)' <=> IsMoved(k)
      BY <1>1 DEF IsMoved, Frontier
    <3> QED
      BY <1>1, <2>4, <3>1, <3>2 DEF PassMemory, RowTask
  <2>9. CalmMemory'
    <3>1. OtherCalls'
      BY <1>1, <1>2, <2>3, <2>4 DEF Calm, CalmMemory, OtherCalls
    <3> QED
      BY <1>1, <2>1, <2>8, <3>1 DEF CalmMemory, InRows
  <2> QED
    BY <1>4, <1>5, <2>9 DEF Calm, GlobalsOf, Buffer
<1> QED
  BY <1>6, <1>7

\* Workers that keep their tasks keep their arguments.
LEMMA SameArguments ==
  ASSUME Calm, UNCHANGED <<on, seen>>
  PROVE  \A v \in Busy' : on'[v].pass # 0 => seen'[v] = GlobalsOf(on'[v].call, on'[v].pass)
BY DEF Calm, Busy

LEMMA BeginCallCalm == ASSUME IInv, BeginCall, ~late' PROVE Calm'
<1>1. /\ UNCHANGED <<queue, running, done, mem, on, seen, call, late>>
      /\ pc = "call" /\ pass' = 1 /\ row' = 0 /\ pc' = IF Ext THEN "setmod" ELSE "enter"
  BY DEF BeginCall, pool, worker, Initcode, NoInitcode, FirstRow
<1>2. Structure /\ Calm
  BY <1>1 DEF IInv
<1>3. Unfinished = {} /\ Unfinished' = {}
  <2>1. Unfinished = {}
    BY <1>1, <1>2 DEF Calm, InPass
  <2> QED
    BY <1>1, <2>1 DEF Unfinished, P!Queued
<1>4. CalmMemory /\ AsGiven /\ OtherCalls
  BY <1>1, <1>2, Constants DEF Calm, CalmMemory
<1>5. AsGiven' /\ OtherCalls'
  BY <1>1, <1>4 DEF AsGiven, OtherCalls
<1>6. CalmMemory'
  BY <1>1, <1>5 DEF CalmMemory
<1> QED
  BY <1>1, <1>2, <1>3, <1>6, SameArguments DEF Calm, GlobalsOf, Buffer

LEMMA AddSetModCalm == ASSUME IInv, AddSetMod, ~late' PROVE Calm'
<1> DEFINE j == [call |-> call, pass |-> 0, row |-> row]
<1>1. /\ UNCHANGED <<running, done, mem, on, seen, call, pass, late>> /\ pc = "setmod"
      /\ queue' = Append(queue, j) /\ j \notin Unfinished \cup done
      /\ pc' = IF row + 1 = SetMods THEN "enter" ELSE "setmod"
  BY DEF AddSetMod, worker, P!Add, Unfinished
<1>2. Structure /\ Calm
  BY <1>1 DEF IInv
<1>3. call \in 1 .. Calls /\ row \in 0 .. SetMods - 1 /\ pass = 1
  BY <1>1, <1>2, MtAssumption DEF Structure, TypeOK, Phases
<1>4. j \in Task
  BY <1>3, SetModIsTask
<1>5. Unfinished' = Unfinished \cup {j}
  BY <1>1, <1>2, <1>4, AddMoves DEF Structure
<1>6. \A i \in Unfinished' : InPass(i)'
  BY <1>1, <1>2, <1>3, <1>5 DEF Calm, InPass
<1>7. AsGiven' /\ OtherCalls'
  BY <1>1, <1>2 DEF Calm, CalmMemory, AsGiven, OtherCalls
<1>8. CalmMemory'
  BY <1>1, <1>3, <1>7 DEF CalmMemory
<1> QED
  BY <1>1, <1>2, <1>6, <1>8, SameArguments DEF Calm, GlobalsOf, Buffer

\* Main waits until the queue is empty; if the workers are ready too, the first
\* pass is done.
LEMMA WaitCalm == ASSUME IInv, Wait, ~late' PROVE Calm'
<1>1. /\ UNCHANGED <<queue, running, done, mem, on, seen, call, row>>
      /\ pc = "wait" /\ pc' = "enter" /\ pass' = 2 /\ late' = (late \/ Unfinished # {})
  BY DEF Wait, WaitIsOver, pool, worker
<1>2. ~late /\ Unfinished = {} /\ Structure /\ Calm
  BY <1>1 DEF IInv
<1>3. Unfinished' = {} /\ pass = 1 /\ call \in 1 .. Calls
  BY <1>1, <1>2 DEF Unfinished, P!Queued, Structure, Phases, TypeOK
<1>4. PassMemory /\ OtherCalls
  BY <1>1, <1>2 DEF Calm, CalmMemory
<1>5. FirstPassDone
  <2>1. ASSUME NEW k \in Cell PROVE RowTask(pass, k) \in done
    BY <1>1, <1>2, AllDone
  <2> QED
    BY <1>3, <1>4, <2>1 DEF FirstPassDone, PassMemory, RowTask
<1>6. FirstPassDone' /\ OtherCalls'
  BY <1>1, <1>4, <1>5 DEF FirstPassDone, OtherCalls
<1>7. CalmMemory'
  BY <1>1, <1>6 DEF CalmMemory
<1> QED
  BY <1>1, <1>2, <1>3, <1>7, SameArguments DEF Calm, GlobalsOf, Buffer

\* The function returns; if the workers are ready, the second pass is done.
LEMMA ReturnedIsDone ==
  ASSUME Structure, PassMemory, pc = "return", Unfinished = {}, NEW k \in Cell
  PROVE  Like(2, mem[call].a[k], Result(2, call)[k])
<1>1. pass = 2 /\ Buffer(2) = "a"
  BY Constants DEF Structure, Phases
<1>2. RowTask(pass, k) \in done
  BY AllDone
<1> QED
  BY <1>1, <1>2 DEF PassMemory, RowTask

LEMMA ReturnCalm == ASSUME IInv, Return, ~late' PROVE Calm'
<1>1. /\ UNCHANGED <<queue, running, done, mem, on, seen, pass, row>>
      /\ pc = "return" /\ pc' = "call" /\ call < Calls /\ call' = call + 1
      /\ late' = (late \/ Unfinished # {})
  BY DEF Return, pool, worker
<1>2. ~late /\ Unfinished = {} /\ Structure /\ Calm
  BY <1>1 DEF IInv
<1>3. Unfinished' = {} /\ call \in 1 .. Calls /\ Calls \in Nat
  <2>1. Unfinished' = Unfinished
    BY <1>1 DEF Unfinished, P!Queued
  <2> QED
    BY <1>2, <2>1, Constants DEF Structure, TypeOK
<1>4. PassMemory /\ OtherCalls
  BY <1>1, <1>2 DEF Calm, CalmMemory
<1>5. \A k \in Cell : Like(2, mem[call].a[k], Result(2, call)[k])
  BY <1>1, <1>2, <1>4, ReturnedIsDone
<1>6. OtherCalls'
  <2>1. ASSUME NEW c \in 1 .. Calls, NEW k \in Cell, c < call + 1
        PROVE  Like(2, mem[c].a[k], Result(2, c)[k])
    <3>1. c < call \/ c = call
      BY <1>3, <2>1
    <3> QED
      BY <1>4, <1>5, <3>1 DEF OtherCalls
  <2>2. ASSUME NEW c \in 1 .. Calls, NEW k \in Cell, c > call + 1 PROVE mem[c].a[k] = Given(c, k)
    BY <1>3, <1>4, <2>2 DEF OtherCalls
  <2> QED
    BY <1>1, <2>1, <2>2 DEF OtherCalls
<1>7. AsGiven'
  <2>1. call + 1 \in 1 .. Calls /\ call + 1 > call
    BY <1>1, <1>3
  <2> QED
    BY <1>1, <1>4, <2>1 DEF AsGiven, OtherCalls
<1>8. CalmMemory'
  BY <1>1, <1>6, <1>7 DEF CalmMemory
<1> QED
  BY <1>1, <1>2, <1>3, <1>8, SameArguments DEF Calm, GlobalsOf, Buffer

LEMMA DestroyCalm == ASSUME IInv, Destroy \/ UNCHANGED vars, ~late' PROVE Calm'
<1>1. UNCHANGED <<queue, running, done, mem, on, seen, pc, call, pass, row, late>>
  BY DEF Destroy, P!Close, vars, pool, worker, main
<1>2. Calm /\ Unfinished' = Unfinished
  BY <1>1 DEF IInv, Unfinished, P!Queued
<1>3. CalmMemory'
  BY <1>1, <1>2, SameMemory DEF Calm
<1>4. \A j \in Unfinished' : InPass(j)'
  BY <1>1, <1>2 DEF Calm, InPass
<1> QED
  BY <1>1, <1>2, <1>3, <1>4, SameArguments DEF Calm, GlobalsOf, Buffer

\* Before the rows of a pass are added none of them is done.
LEMMA NoRowDone ==
  ASSUME Structure, ~InRows, NEW k \in Cell PROVE RowTask(pass, k) \notin done
<1>1. RowTask(pass, k).call = call /\ RowTask(pass, k).pass = pass
  BY DEF RowTask
<1> QED
  BY <1>1, AddedRow

\* The frontier moves with the block rows, not with the rows.
LEMMA FrontierKept ==
  ASSUME Structure, AddRow, NEW k \in Cell PROVE IsMoved(k)' <=> IsMoved(k)
<1>1. /\ row' = row + 1 /\ pass' = pass /\ pc = "row"
      /\ pc' = IF row + 1 = Rows(pass) THEN IF pass = 1 THEN "wait" ELSE "return"
               ELSE IF Square /\ (row + 1) % B = 0 THEN "block" ELSE "row"
  BY DEF AddRow, AfterLastRow
<1>2. CASE ~Square
  BY <1>2 DEF IsMoved
<1>3. CASE Square
  <2>1. row \in Nat /\ B \in Nat \ {0} /\ row % B \in 0 .. B - 1 /\ pass \in 1 .. 2 /\ N1 \in Nat
    BY Constants, DivMod DEF Structure, TypeOK
  <2>2. (row + 1) % B = IF row % B = B - 1 THEN 0 ELSE (row % B) + 1
    BY <2>1, NextMod
  <2>3. Frontier = row - (row % B) + B
    BY <1>1 DEF Frontier
  <2>4. CASE row + 1 = Rows(pass)
    <3>1. (row + 1) % B = 0 /\ N1 = row + 1
      BY <1>3, <2>1, <2>4, Constants
    <3>2. Frontier = N1
      BY <2>1, <2>2, <2>3, <3>1
    <3>3. RowLen(1) = N1 /\ Rows(1) = N1
      BY <1>3, Constants
    <3>4. k \div N1 \in 0 .. N1 - 1
      BY <3>3, RowOfCell
    <3>5. k \div N1 < Frontier
      BY <2>1, <3>2, <3>4
    <3> QED
      BY <1>1, <2>4, <3>5 DEF IsMoved
  <2>5. CASE row + 1 # Rows(pass)
    <3>1. Frontier' = Frontier
      <4>1. CASE (row + 1) % B = 0
        <5>1. Frontier' = row + 1 /\ row % B = B - 1
          BY <1>1, <1>3, <2>1, <2>2, <2>5, <4>1 DEF Frontier
        <5> QED
          BY <2>1, <2>3, <5>1
      <4>2. CASE (row + 1) % B # 0
        <5>1. Frontier' = (row + 1) - ((row + 1) % B) + B /\ (row + 1) % B = (row % B) + 1
          BY <1>1, <1>3, <2>2, <2>5, <4>2 DEF Frontier
        <5> QED
          BY <2>1, <2>3, <5>1
      <4> QED
        BY <4>1, <4>2
    <3> QED
      BY <1>1, <2>5, <3>1 DEF IsMoved
  <2> QED
    BY <2>4, <2>5
<1> QED
  BY <1>2, <1>3

LEMMA AddRowCalm == ASSUME IInv, AddRow, ~late' PROVE Calm'
<1> DEFINE j == [call |-> call, pass |-> pass, row |-> row]
<1>1. /\ UNCHANGED <<running, done, mem, on, seen, call, pass, late>> /\ pc = "row"
      /\ queue' = Append(queue, j) /\ j \notin Unfinished \cup done
      /\ pc' \in {"block", "row", "wait", "return"}
  BY DEF AddRow, worker, P!Add, Unfinished, AfterLastRow
<1>2. Structure /\ Calm
  BY <1>1 DEF IInv
<1>3. call \in 1 .. Calls /\ pass \in 1 .. 2 /\ row \in 0 .. Rows(pass) - 1
  BY <1>1, <1>2, Constants DEF Structure, TypeOK, Phases
<1>4. j \in Task
  BY <1>3, RowIsTask
<1>5. Unfinished' = Unfinished \cup {j}
  BY <1>1, <1>2, <1>4, AddMoves DEF Structure
<1>6. \A i \in Unfinished' : InPass(i)'
  BY <1>1, <1>2, <1>3, <1>5 DEF Calm, InPass
<1>7. PassMemory /\ OtherCalls
  BY <1>1, <1>2 DEF Calm, CalmMemory
<1>8. PassMemory' /\ OtherCalls'
  <2>1. \A k \in Cell : IsMoved(k)' <=> IsMoved(k)
    BY <1>2, FrontierKept
  <2> QED
    BY <1>1, <1>7, <2>1 DEF PassMemory, OtherCalls
<1>9. CalmMemory'
  BY <1>1, <1>8 DEF CalmMemory
<1> QED
  BY <1>1, <1>2, <1>6, <1>9, SameArguments DEF Calm, GlobalsOf, Buffer

\* The cell a cell is transposed to.
LEMMA MovedFrom ==
  ASSUME NEW p \in 1 .. 2, NEW k \in Cell
  PROVE  (k % RowLen(p)) * Rows(p) + k \div RowLen(p) \in Cell
<1> DEFINE q == 3 - p  i == k % RowLen(p)  j == k \div RowLen(p)
<1>1. q \in 1 .. 2 /\ Rows(q) = RowLen(p) /\ RowLen(q) = Rows(p)
  BY DEF Rows, RowLen
<1>2. i \in 0 .. RowLen(p) - 1 /\ j \in 0 .. Rows(p) - 1
  BY RowOfCell
<1> QED
  BY <1>1, <1>2, CellOfRow

\* Main enters a pass: a matrix that is not square is transposed as a whole.
LEMMA EnterPassCalm == ASSUME IInv, EnterPass, ~late' PROVE Calm'
<1>1. /\ UNCHANGED <<queue, running, done, on, seen, call, pass, late>> /\ pc = "enter"
      /\ row' = 0 /\ pc' = IF Square THEN "block" ELSE "row"
  BY DEF EnterPass, pool, worker, FirstRow
<1>2. Structure /\ Calm
  BY <1>1 DEF IInv
<1>3. call \in 1 .. Calls /\ pass \in 1 .. 2 /\ IsMemory(mem)
  BY <1>2 DEF Structure, TypeOK
<1>4. Unfinished' = Unfinished
  BY <1>1 DEF Unfinished, P!Queued
<1>5. \A j \in Unfinished' : InPass(j)'
  BY <1>1, <1>2, <1>4 DEF Calm, InPass
<1>6. OtherCalls /\ (pass = 1 => AsGiven) /\ (pass = 2 => FirstPassDone)
  BY <1>1, <1>2 DEF Calm, CalmMemory
<1> DEFINE from == IF pass = 1 THEN mem[call].a ELSE mem[call][Buffer(1)]
<1>7. ASSUME NEW k \in Cell PROVE Like(pass - 1, from[k], Source(pass, call)[k])
  <2>1. CASE pass = 1
    BY <1>6, <2>1, SourceIs DEF AsGiven, Like
  <2>2. CASE pass = 2
    BY <1>6, <2>2, SourceIs DEF FirstPassDone
  <2> QED
    BY <1>3, <2>1, <2>2
<1>8. \A k \in Cell : RowTask(pass, k) \notin done'
  BY <1>1, <1>2, NoRowDone DEF InRows
<1>9. /\ \A c \in 1 .. Calls : c # call => mem'[c].a = mem[c].a
      /\ IF Square THEN mem'[call][Buffer(pass)] = from
         ELSE mem'[call][Buffer(pass)] = IF pass = 1 THEN Transposed(from, N1, N2)
                                                    ELSE Transposed(from, N2, N1)
  <2>1. CASE Square
    BY <1>3, <2>1, Constants DEF EnterPass
  <2>2. CASE ~Square
    <3> DEFINE to == IF pass = 1 THEN Transposed(from, N1, N2) ELSE Transposed(from, N2, N1)
    <3>1. mem' = [mem EXCEPT ![call][Buffer(pass)] = to]
      <4>1. CASE pass = 1
        <5>1. Buffer(pass) = "temp"
          BY <2>2, <4>1, Constants
        <5> QED
          BY <2>2, <4>1, <5>1 DEF EnterPass
      <4>2. CASE pass = 2
        <5>1. Buffer(pass) = "a" /\ Buffer(1) = "temp"
          BY <2>2, <4>2, Constants
        <5> QED
          BY <2>2, <4>2, <5>1 DEF EnterPass
      <4> QED
        BY <1>3, <4>1, <4>2
    <3>2. IsArray(to) /\ Buffer(pass) \in {"a", "temp"}
      BY <1>3, Arrays, Constants
    <3> HIDE DEF to
    <3>3. \A c \in 1 .. Calls : c # call => mem'[c]["a"] = mem[c]["a"]
      BY <1>3, <3>1, <3>2, MemoryWrite
    <3>4. mem'[call][Buffer(pass)] = to
      BY <1>3, <3>1, <3>2, MemoryWrite
    <3> QED
      BY <2>2, <3>3, <3>4 DEF to
  <2> QED
    BY <2>1, <2>2
<1>10. PassMemory'
  <2> SUFFICES ASSUME NEW k \in Cell
               PROVE  Like(pass - 1, mem'[call][Buffer(pass)][k],
                           (IF IsMoved(k)' THEN Moved(pass, call) ELSE Source(pass, call))[k])
    BY <1>1, <1>8 DEF PassMemory, RowTask
  <2>1. CASE Square
    <3>1. k \div N1 \in Nat /\ k % N1 \in Nat
      BY <2>1, Constants, RowOfCell
    <3>2. ~IsMoved(k)'
      BY <1>1, <2>1, <3>1 DEF IsMoved, Frontier
    <3> QED
      BY <1>7, <1>9, <2>1, <3>2
  <2>2. CASE ~Square
    <3> DEFINE l == (k % RowLen(pass)) * Rows(pass) + k \div RowLen(pass)
    <3>1. l \in Cell /\ Moved(pass, call)[k] = Source(pass, call)[l]
      BY <1>3, MovedFrom, MovedIs
    <3>2. mem'[call][Buffer(pass)][k] = from[l]
      BY <1>3, <1>9, <2>2 DEF Transposed, RowLen, Rows
    <3>3. IsMoved(k)'
      BY <2>2 DEF IsMoved
    <3> HIDE DEF l, from
    <3> QED
      BY <1>7, <3>1, <3>2, <3>3
  <2> QED
    BY <2>1, <2>2
<1>11. OtherCalls'
  <2>1. \A c \in 1 .. Calls : c # call => mem'[c].a = mem[c].a
    BY <1>9
  <2> QED
    BY <1>1, <1>3, <1>6, <2>1 DEF OtherCalls
<1>12. CalmMemory'
  BY <1>1, <1>10, <1>11 DEF CalmMemory
<1> QED
  BY <1>1, <1>2, <1>5, <1>12, SameArguments DEF Calm, GlobalsOf, Buffer

\* In a square matrix the cell of row i and column j moves to row j and column i.
LEMMA SquareCell ==
  ASSUME Square, NEW p \in 1 .. 2, NEW c, NEW k \in Cell
  PROVE  /\ k \div N1 \in 0 .. N1 - 1 /\ k % N1 \in 0 .. N1 - 1 /\ k = (k \div N1) * N1 + (k % N1)
         /\ (k % N1) * N1 + k \div N1 \in Cell
         /\ ((k % N1) * N1 + k \div N1) \div N1 = k % N1
         /\ ((k % N1) * N1 + k \div N1) % N1 = k \div N1
         /\ Moved(p, c)[k] = Source(p, c)[(k % N1) * N1 + k \div N1]
<1>1. RowLen(p) = N1 /\ Rows(p) = N1
  BY Constants
<1>2. k \div N1 \in 0 .. N1 - 1 /\ k % N1 \in 0 .. N1 - 1 /\ k = (k \div N1) * N1 + (k % N1)
  BY <1>1, RowOfCell
<1>3. /\ (k % N1) * N1 + k \div N1 \in Cell
      /\ ((k % N1) * N1 + k \div N1) \div N1 = k % N1
      /\ ((k % N1) * N1 + k \div N1) % N1 = k \div N1
  BY <1>1, <1>2, CellOfRow
<1>4. Moved(p, c)[k] = Source(p, c)[(k % N1) * N1 + k \div N1]
  BY <1>1, MovedIs
<1> QED
  BY <1>2, <1>3, <1>4

\* Main transposes a block row in place: the cells it swaps are in rows that
\* have not been added, and had not been transposed.
LEMMA TransposeBlockCell ==
  ASSUME Structure, PassMemory, pc = "block", NEW k \in Cell
  PROVE  IF RowTask(pass, k) \in done
         THEN Like(pass, BlockTransposed(mem[call].a, row)[k], Result(pass, call)[k])
         ELSE Like(pass - 1, BlockTransposed(mem[call].a, row)[k],
                   (IF k \div N1 < row + B \/ k % N1 < row + B THEN Moved(pass, call)
                                                                ELSE Source(pass, call))[k])
<1> DEFINE s == mem[call].a  t == BlockTransposed(s, row)
           i == k \div N1  j == k % N1  l == j * N1 + i
<1>1. Square /\ row \in Nat /\ pass \in 1 .. 2 /\ call \in 1 .. Calls /\ B \in Nat \ {0}
  BY Constants DEF Structure, TypeOK, Phases
<1>2. Buffer(pass) = "a" /\ RowLen(pass) = N1 /\ N1 \in Nat
  BY <1>1, Constants
<1>3. i \in 0 .. N1 - 1 /\ j \in 0 .. N1 - 1 /\ k = i * N1 + j
  BY <1>1, SquareCell
<1>4. l \in Cell /\ l \div N1 = j /\ l % N1 = i
  BY <1>1, SquareCell
<1>5. Moved(pass, call)[k] = Source(pass, call)[l]
  BY <1>1, SquareCell
<1>6. t[k] = IF InBlockRow(i, j, row) THEN s[l] ELSE s[k]
  BY DEF BlockTransposed
<1>7. \A m \in Cell : IsMoved(m) <=> m \div N1 < row \/ m % N1 < row
  BY <1>1 DEF IsMoved, Frontier
<1>8. ASSUME NEW m \in Cell, RowTask(pass, m) \in done PROVE m \div N1 < row
  <2>1. RowTask(pass, m).call = call /\ RowTask(pass, m).pass = pass /\ RowTask(pass, m).row = m \div N1
    BY <1>2 DEF RowTask
  <2> QED
    BY <1>8, <2>1, AddedRow
<1>9. \A m \in Cell : IF RowTask(pass, m) \in done THEN Like(pass, s[m], Result(pass, call)[m])
                      ELSE Like(pass - 1, s[m], (IF IsMoved(m) THEN Moved(pass, call) ELSE Source(pass, call))[m])
  BY <1>2 DEF PassMemory, RowTask
<1> HIDE DEF s, t, i, j, l
<1>10. CASE InBlockRow(i, j, row)
  <2>1. i >= row /\ j >= row /\ (i < row + B \/ j < row + B)
    BY <1>1, <1>2, <1>3, <1>10 DEF InBlockRow
  <2>2. RowTask(pass, k) \notin done /\ RowTask(pass, l) \notin done /\ ~IsMoved(l)
    <3>1. ~(i < row) /\ ~(j < row)
      BY <1>1, <1>2, <1>3, <2>1
    <3> QED
      BY <1>4, <1>7, <1>8, <3>1 DEF i
  <2>3. Like(pass - 1, s[l], Source(pass, call)[l])
    BY <1>4, <1>9, <2>2
  <2>4. Like(pass - 1, t[k], Moved(pass, call)[k])
    BY <1>5, <1>6, <1>10, <2>3
  <2> QED
    BY <2>1, <2>2, <2>4 DEF i, j, t, s
<1>11. CASE ~InBlockRow(i, j, row)
  <2>1. t[k] = s[k]
    BY <1>6, <1>11
  <2>2. CASE i = j
    <3>1. l = k
      BY <1>3, <2>2 DEF l
    <3>2. Moved(pass, call)[k] = Source(pass, call)[k]
      BY <1>5, <3>1
    <3> QED
      BY <1>9, <2>1, <3>2 DEF t, s
  <2>3. CASE i # j
    <3>1. (i < row + B \/ j < row + B) <=> (i < row \/ j < row)
      BY <1>1, <1>2, <1>3, <1>11, <2>3 DEF InBlockRow
    <3>2. IsMoved(k) <=> (i < row + B \/ j < row + B)
      BY <1>7, <3>1 DEF i, j
    <3> QED
      BY <1>9, <2>1, <3>2 DEF t, s, i, j
  <2> QED
    BY <2>2, <2>3
<1> QED
  BY <1>10, <1>11

LEMMA TransposeBlockCalm == ASSUME IInv, TransposeBlock, ~late' PROVE Calm'
<1>1. /\ UNCHANGED <<queue, running, done, on, seen, call, pass, row, late>> /\ pc = "block" /\ pc' = "row"
      /\ mem' = [mem EXCEPT ![call]["a"] = BlockTransposed(mem[call].a, row)]
  BY DEF TransposeBlock, pool, worker
<1>2. Structure /\ Calm
  BY <1>1 DEF IInv
<1>3. /\ call \in 1 .. Calls /\ IsMemory(mem) /\ Square /\ row \in Nat /\ row % B = 0 /\ B \in Nat
      /\ pass \in 1 .. 2
  BY <1>1, <1>2, Constants DEF Structure, TypeOK, Phases
<1>4. Unfinished' = Unfinished
  BY <1>1 DEF Unfinished, P!Queued
<1>5. \A j \in Unfinished' : InPass(j)'
  BY <1>1, <1>2, <1>4 DEF Calm, InPass
<1>6. PassMemory /\ OtherCalls
  BY <1>1, <1>2 DEF Calm, CalmMemory
<1> DEFINE t == BlockTransposed(mem[call].a, row)
<1>7. mem'[call]["a"] = t /\ \A c \in 1 .. Calls : c # call => mem'[c]["a"] = mem[c]["a"]
  <2>1. IsArray(t)
    BY Arrays
  <2> HIDE DEF t
  <2>2. mem' = [mem EXCEPT ![call]["a"] = t]
    BY <1>1 DEF t
  <2>3. \A c \in 1 .. Calls : c # call => mem'[c]["a"] = mem[c]["a"]
    BY <1>3, <2>1, <2>2, MemoryWrite
  <2> QED
    BY <1>3, <2>1, <2>2, <2>3, MemoryWrite
<1>8. PassMemory'
  <2>1. ASSUME NEW k \in Cell
        PROVE  IF RowTask(pass, k) \in done THEN Like(pass, t[k], Result(pass, call)[k])
               ELSE Like(pass - 1, t[k], (IF IsMoved(k)' THEN Moved(pass, call) ELSE Source(pass, call))[k])
    <3>1. Frontier' = row + B
      BY <1>1, <1>3 DEF Frontier
    <3>2. IsMoved(k)' <=> k \div N1 < row + B \/ k % N1 < row + B
      BY <1>1, <1>3, <3>1 DEF IsMoved
    <3> QED
      BY <1>1, <1>2, <1>6, <3>2, TransposeBlockCell
  <2>2. Buffer(pass) = "a"
    BY <1>3, Constants
  <2> HIDE DEF t
  <2> QED
    BY <1>1, <1>7, <2>1, <2>2 DEF PassMemory, RowTask
<1>9. OtherCalls'
  BY <1>1, <1>3, <1>6, <1>7 DEF OtherCalls
<1>10. CalmMemory'
  BY <1>1, <1>8, <1>9 DEF CalmMemory
<1> QED
  BY <1>1, <1>2, <1>5, <1>10, SameArguments DEF Calm, GlobalsOf, Buffer

THEOREM Invariance == Spec => []IInv
<1>1. Init => IInv
  BY InitStructure, InitCalm DEF IInv
<1>2. IInv /\ [Next]_vars => IInv'
  <2> SUFFICES ASSUME IInv, [Next]_vars PROVE IInv'
    OBVIOUS
  <2>1. Structure'
    BY StepStructure DEF IInv
  <2>2. ASSUME ~late' PROVE Calm'
    BY <2>2, BeginCalm, EndCalm, BeginCallCalm, AddSetModCalm, EnterPassCalm, TransposeBlockCalm,
       AddRowCalm, WaitCalm, ReturnCalm, DestroyCalm
    DEF Next, MainStep, Terminated
  <2> QED
    BY <2>1, <2>2 DEF IInv
<1> QED
  BY <1>1, <1>2, PTL DEF Spec

\* Unless main ran ahead, a task finds in global_args the array, the row length
\* and the tables that were there when it was added.
THEOREM OwnArguments == Spec => []ArgsAreTheirOwn
<1>1. IInv => ArgsAreTheirOwn
  <2> SUFFICES ASSUME IInv, ~late, NEW w \in Worker, on[w] # Idle, on[w].pass # 0
               PROVE  /\ seen[w].index = on[w].call /\ seen[w].n = RowLen(on[w].pass)
                      /\ seen[w].data = [call |-> on[w].call, buf |-> Buffer(on[w].pass)]
    BY DEF ArgsAreTheirOwn
  <2>1. seen[w] = GlobalsOf(on[w].call, on[w].pass)
    BY DEF IInv, Calm, Busy
  <2> QED
    BY <2>1 DEF GlobalsOf
<1> QED
  BY <1>1, Invariance, PTL DEF Spec

-------------------------------------------------------------------------------
(* Rows are owned *)

\* RowOf of an unfinished task of the current pass reads these cells only.
LEMMA RowOfCells ==
  ASSUME NEW j \in Task, j.pass # 0, NEW m, NEW n,
         \A k \in Cell : k \div RowLen(j.pass) = j.row =>
           m[j.call][Buffer(j.pass)][k] = n[j.call][Buffer(j.pass)][k]
  PROVE  RowOf(j, m) = RowOf(j, n)
<1>1. j.pass \in 1 .. 2 /\ j.row \in 0 .. Rows(j.pass) - 1
  BY TaskFields
<1>2. ASSUME NEW k \in 0 .. RowLen(j.pass) - 1
      PROVE  m[j.call][Buffer(j.pass)][j.row * RowLen(j.pass) + k] =
             n[j.call][Buffer(j.pass)][j.row * RowLen(j.pass) + k]
  BY <1>1, CellOfRow
<1> QED
  BY <1>2 DEF RowOf

\* Nobody but the task itself touches the row of a task.
LEMMA StepOwned ==
  ASSUME IInv, [Next]_vars, ~late', NEW j \in Unfinished, j.pass # 0, j \notin done'
  PROVE  RowOf(j, mem') = RowOf(j, mem)
<1>1. CASE mem' = mem
  BY <1>1
<1>2. late' = late => Structure /\ Calm
  BY DEF IInv
<1>3. j \in Task
  BY QueueIs DEF IInv, Structure, TypeOK, Elements
<1>4. ASSUME NEW w \in Worker, End(w), on[w].pass # 0 PROVE RowOf(j, mem') = RowOf(j, mem)
  <2>1. late' = late
    BY <1>4 DEF End
  <2>2. Structure /\ Calm /\ ~late
    BY <1>2, <2>1
  <2>3. on[w] \in Task /\ done' = done \cup {on[w]} /\ j # on[w]
    BY <1>4, <2>2, EndMoves DEF Structure
  <2>4. j.call = call /\ j.pass = pass /\ on[w].call = call /\ on[w].pass = pass
    BY <1>4, <2>2, EndWrites DEF Calm, InPass
  <2>5. j.row # on[w].row
    BY <1>3, <2>3, <2>4, TaskFields
  <2>6. PICK m : mem' = [mem EXCEPT ![call][Buffer(pass)] =
                           RowDone(pass, mem[call][Buffer(pass)], on[w].row, RowLen(pass), call, m)]
    BY <1>4, <2>2, EndWrites
  <2> DEFINE t == RowDone(pass, mem[call][Buffer(pass)], on[w].row, RowLen(pass), call, m)
  <2>7. IsArray(t) /\ IsMemory(mem) /\ call \in 1 .. Calls /\ pass \in 1 .. 2
    BY <2>2, Arrays DEF Structure, TypeOK
  <2>8. \A k \in Cell : k \div RowLen(pass) = j.row => t[k] = mem[call][Buffer(pass)][k]
    BY <2>5 DEF RowDone
  <2> HIDE DEF t
  <2>9. mem'[call][Buffer(pass)] = t
    BY <2>6, <2>7, Constants, MemoryWrite DEF t
  <2> QED
    BY <1>3, <2>4, <2>8, <2>9, RowOfCells
<1>5. ASSUME TransposeBlock PROVE RowOf(j, mem') = RowOf(j, mem)
  <2>1. /\ late' = late /\ pc = "block"
        /\ mem' = [mem EXCEPT ![call]["a"] = BlockTransposed(mem[call].a, row)]
    BY <1>5 DEF TransposeBlock
  <2>2. Structure /\ Calm
    BY <1>2, <2>1
  <2>3. /\ Square /\ IsMemory(mem) /\ call \in 1 .. Calls /\ pass \in 1 .. 2 /\ row \in Nat
        /\ B \in Nat \ {0} /\ N1 \in Nat \ {0}
    BY <2>1, <2>2, Constants DEF Structure, TypeOK, Phases
  <2>4. j.call = call /\ j.pass = pass
    BY <2>1, <2>2, <2>3 DEF Calm, InPass
  <2>5. Buffer(pass) = "a" /\ RowLen(pass) = N1
    BY <2>3, Constants
  <2>6. j.row \in Nat /\ j.row < row
    BY <1>3, <2>1, <2>2, <2>4, AddedRow, TaskFields
  <2> DEFINE t == BlockTransposed(mem[call].a, row)
  <2>7. ASSUME NEW k \in Cell, k \div N1 = j.row PROVE t[k] = mem[call].a[k]
    <3>1. k % N1 \in Nat
      BY <2>3, SquareCell
    <3>2. ~InBlockRow(k \div N1, k % N1, row)
      BY <2>3, <2>6, <2>7, <3>1 DEF InBlockRow
    <3> QED
      BY <3>2 DEF BlockTransposed
  <2>8. IsArray(t)
    BY Arrays
  <2> HIDE DEF t
  <2>9. mem'[call]["a"] = t
    BY <2>1, <2>3, <2>8, MemoryWrite DEF t
  <2> QED
    BY <1>3, <2>4, <2>5, <2>7, <2>9, RowOfCells
<1>6. ASSUME EnterPass PROVE FALSE
  <2>1. late' = late /\ pc = "enter"
    BY <1>6 DEF EnterPass
  <2>2. Structure /\ Calm /\ InPass(j)
    BY <1>2, <2>1 DEF Calm
  <2>3. j.call = call /\ j.pass = pass
    BY <2>2 DEF InPass
  <2> QED
    BY <2>1, <2>2, <2>3, AddedRow DEF InRows
<1>7. ASSUME NEW w \in Worker, End(w), on[w].pass = 0 PROVE mem' = mem
  BY <1>7 DEF End
<1> QED
  BY <1>1, <1>4, <1>5, <1>6, <1>7
  DEF Next, MainStep, Terminated, vars, Begin, BeginCall, AddSetMod, AddRow, Wait, Return, Destroy

\* Unless main ran ahead, the transposition of later block rows and the other
\* tasks leave a row alone from the moment its task is added until it is done.
THEOREM OwnRows == Spec => RowsAreOwned
<1>1. IInv /\ [Next]_vars =>
        [~late' => \A j \in Unfinished : j.pass # 0 /\ j \notin done' => RowOf(j, mem') = RowOf(j, mem)]_vars
  BY StepOwned
<1> QED
  BY <1>1, Invariance, PTL DEF Spec, RowsAreOwned

-------------------------------------------------------------------------------
(* The arrays at the end *)

LEMMA AtTheEnd ==
  ASSUME IInv, closed, ~late, NEW c \in 1 .. Calls
  PROVE  /\ mem[c].a = [k \in Cell |-> mem[c].a[k]]
         /\ \A k \in Cell : Like(2, mem[c].a[k], Result(2, c)[k])
<1>1. /\ pc = "return" /\ call = Calls /\ Unfinished = {} /\ Structure /\ Calm
      /\ IsArray(mem[c].a)
  BY DEF IInv, Structure, Phases, TypeOK, IsMemory
<1>2. PassMemory /\ OtherCalls
  BY <1>1 DEF Calm, CalmMemory
<1>3. \A k \in Cell : Like(2, mem[c].a[k], Result(2, c)[k])
  <2>1. CASE c = call
    BY <1>1, <1>2, <2>1, ReturnedIsDone
  <2>2. CASE c < call
    BY <1>2, <2>2 DEF OtherCalls
  <2> QED
    BY <1>1, <2>1, <2>2, Constants
<1> QED
  BY <1>1, <1>3 DEF IsArray

LEMMA FourStepIs == ASSUME NEW c PROVE FourStep(c) = Result(2, c)
BY DEF FourStep, Result, Moved, Source, Rows

\* Without the FHE instructions, and unless main ran ahead, every array ends as
\* the four-step NTT of the given one, the matrix transposed as a whole.
THEOREM CalmEndsAsFourStep == ASSUME ~Ext PROVE Spec => []CalmIsFourStep
<1>1. IInv => CalmIsFourStep
  <2> SUFFICES ASSUME IInv, closed, ~late, NEW c \in 1 .. Calls PROVE mem[c].a = FourStep(c)
    BY DEF CalmIsFourStep
  <2>1. \A k \in Cell : mem[c].a[k] = Result(2, c)[k]
    BY AtTheEnd DEF Like
  <2>2. mem[c].a = [k \in Cell |-> mem[c].a[k]] /\ Result(2, c) = [k \in Cell |-> Result(2, c)[k]]
    BY AtTheEnd, Arrays DEF Result, IsArray
  <2> QED
    BY <2>1, <2>2, FourStepIs
<1> QED
  BY <1>1, Invariance, PTL DEF Spec

-------------------------------------------------------------------------------
(* The sequential template: transposing block row by block row, each just    *)
(* before its row NTTs, gives what transposing the whole matrix first gives. *)

\* The array when the block rows below row r have been transposed and done.
Blocked(p, c, s, r) ==
  [k \in Cell |-> IF k \div N1 < r THEN RowDone(p, Transposed(s, N1, N1), k \div N1, N1, c, c)[k]
                  ELSE IF k % N1 < r THEN Transposed(s, N1, N1)[k] ELSE s[k]]

LEMMA BlockStep ==
  ASSUME Square, NEW p \in 1 .. 2, NEW c, NEW s, NEW r \in Nat
  PROVE  RowsDone(p, c, BlockTransposed(Blocked(p, c, s, r), r), r .. r + B - 1) = Blocked(p, c, s, r + B)
<1> DEFINE T == Transposed(s, N1, N1)
           X == BlockTransposed(Blocked(p, c, s, r), r)
<1>1. N1 \in Nat \ {0} /\ B \in Nat \ {0} /\ RowLen(p) = N1 /\ Rows(p) = N1
  BY Constants
<1>2. ASSUME NEW k \in Cell
      PROVE  X[k] = IF k \div N1 < r THEN RowDone(p, T, k \div N1, N1, c, c)[k]
                    ELSE IF k \div N1 < r + B \/ k % N1 < r + B THEN T[k] ELSE s[k]
  <2> DEFINE i == k \div N1  j == k % N1  l == j * N1 + i
  <2>1. /\ i \in 0 .. N1 - 1 /\ j \in 0 .. N1 - 1 /\ k = i * N1 + j
        /\ l \in Cell /\ l \div N1 = j /\ l % N1 = i
    BY SquareCell
  <2>2. T[k] = s[l]
    BY DEF Transposed
  <2>3. X[k] = IF InBlockRow(i, j, r) THEN Blocked(p, c, s, r)[l] ELSE Blocked(p, c, s, r)[k]
    BY DEF BlockTransposed
  <2>4. Blocked(p, c, s, r)[k] = IF i < r THEN RowDone(p, T, i, N1, c, c)[k]
                                 ELSE IF j < r THEN T[k] ELSE s[k]
    BY DEF Blocked
  <2>5. Blocked(p, c, s, r)[l] = IF j < r THEN RowDone(p, T, j, N1, c, c)[l]
                                 ELSE IF i < r THEN T[l] ELSE s[l]
    BY <2>1 DEF Blocked
  <2> HIDE DEF T, X, i, j, l
  <2>6. CASE InBlockRow(i, j, r)
    <3>1. ~(i < r) /\ ~(j < r) /\ (i < r + B \/ j < r + B)
      BY <1>1, <2>1, <2>6 DEF InBlockRow
    <3> QED
      BY <2>2, <2>3, <2>5, <2>6, <3>1 DEF i, j
  <2>7. CASE ~InBlockRow(i, j, r)
    <3>1. CASE i = j
      <4>1. k = l
        BY <2>1, <3>1 DEF l
      <4> QED
        BY <2>2, <2>3, <2>4, <2>7, <3>1, <4>1 DEF i, j
    <3>2. CASE i # j
      <4>1. i < r \/ ((i < r + B \/ j < r + B) <=> j < r)
        BY <1>1, <2>1, <2>7, <3>2 DEF InBlockRow
      <4> QED
        BY <2>3, <2>4, <2>7, <4>1 DEF i, j
    <3> QED
      BY <3>1, <3>2
  <2> QED
    BY <2>6, <2>7
<1>3. ASSUME NEW k \in Cell, k \div N1 \in r .. r + B - 1
      PROVE  RowDone(p, X, k \div N1, N1, c, c)[k] = RowDone(p, T, k \div N1, N1, c, c)[k]
  <2> DEFINE i == k \div N1
  <2>1. i \in 0 .. N1 - 1
    BY <1>1, RowOfCell
  <2>2. ASSUME NEW j \in 0 .. N1 - 1 PROVE X[i * N1 + j] = T[i * N1 + j]
    <3>1. i * N1 + j \in Cell /\ (i * N1 + j) \div N1 = i
      BY <1>1, <2>1, CellOfRow
    <3>2. ~(i < r) /\ i < r + B
      BY <1>1, <1>3, <2>1
    <3> HIDE DEF i, X, T
    <3> QED
      BY <1>2, <3>1, <3>2
  <2> HIDE DEF i, X, T
  <2>3. [j \in 0 .. N1 - 1 |-> X[i * N1 + j]] = [j \in 0 .. N1 - 1 |-> T[i * N1 + j]]
    BY <2>2
  <2>4. \A Y : RowDone(p, Y, i, N1, c, c)[k] =
                 Term(p, c, c, IF p = 2 THEN i ELSE 0, k % N1, [j \in 0 .. N1 - 1 |-> Y[i * N1 + j]])
    BY DEF RowDone, Term, i
  <2> QED
    BY <2>3, <2>4 DEF i
<1>4. ASSUME NEW k \in Cell
      PROVE  RowsDone(p, c, X, r .. r + B - 1)[k] = Blocked(p, c, s, r + B)[k]
  <2>1. RowsDone(p, c, X, r .. r + B - 1)[k] =
          IF k \div N1 \in r .. r + B - 1 THEN RowDone(p, X, k \div N1, N1, c, c)[k] ELSE X[k]
    BY <1>1 DEF RowsDone
  <2>2. Blocked(p, c, s, r + B)[k] = IF k \div N1 < r + B THEN RowDone(p, T, k \div N1, N1, c, c)[k]
                                     ELSE IF k % N1 < r + B THEN T[k] ELSE s[k]
    BY DEF Blocked
  <2>3. k \div N1 \in Nat
    BY SquareCell
  <2> HIDE DEF X, T
  <2>4. CASE k \div N1 < r
    <3>1. k \div N1 < r + B /\ k \div N1 \notin r .. r + B - 1
      BY <1>1, <2>3, <2>4
    <3> QED
      BY <1>2, <2>1, <2>2, <2>4, <3>1
  <2>5. CASE k \div N1 \in r .. r + B - 1
    <3>1. k \div N1 < r + B
      BY <1>1, <2>3, <2>5
    <3> QED
      BY <1>3, <2>1, <2>2, <2>5, <3>1
  <2>6. CASE ~(k \div N1 < r) /\ k \div N1 \notin r .. r + B - 1
    <3>1. ~(k \div N1 < r + B)
      BY <1>1, <2>3, <2>6
    <3> QED
      BY <1>2, <2>1, <2>2, <2>6, <3>1
  <2> QED
    BY <2>4, <2>5, <2>6
<1>5. RowsDone(p, c, X, r .. r + B - 1) = [k \in Cell |-> RowsDone(p, c, X, r .. r + B - 1)[k]]
  BY DEF RowsDone
<1>6. Blocked(p, c, s, r + B) = [k \in Cell |-> Blocked(p, c, s, r + B)[k]]
  BY DEF Blocked
<1> QED
  BY <1>4, <1>5, <1>6

\* Block row b - 1 is transposed and its rows are done.
BlockDone(p, c, x, b) ==
  RowsDone(p, c, BlockTransposed(x, (b - 1) * B), (b - 1) * B .. (b - 1) * B + B - 1)

LEMMA SequentialPassIs ==
  ASSUME NEW p \in 1 .. 2, NEW c, NEW s, IsArray(s)
  PROVE  SequentialPass(p, c, s) =
           RowsDone(p, c, IF p = 1 THEN Transposed(s, N1, N2) ELSE Transposed(s, N2, N1), 0 .. Rows(p) - 1)
<1>1. CASE ~Square
  BY <1>1 DEF SequentialPass
<1>2. CASE Square
  <2>1. N1 \in Nat \ {0} /\ B \in Nat \ {0} /\ RowLen(p) = N1 /\ Rows(p) = N1 /\ N2 = N1 /\ N1 % B = 0
    BY <1>2, Constants DEF Square
  <2> DEFINE n == N1 \div B
             H == [b \in 0 .. n |-> Blocked(p, c, s, b * B)]
             G(f) == [b \in 0 .. n |-> IF b = 0 THEN s ELSE BlockDone(p, c, f[b - 1], b)]
  <2>2. n \in Nat /\ n * B = N1
    <3>1. n \in Nat /\ N1 = n * B + (N1 % B)
      BY <2>1, DivMod
    <3>2. N1 = n * B + 0
      BY <2>1, <3>1
    <3> HIDE DEF n
    <3> QED
      BY <2>1, <3>1, <3>2
  <2>3. H[0] = s
    <3>1. \A k \in Cell : k \div N1 \in Nat /\ k % N1 \in Nat
      BY <1>2, SquareCell
    <3>2. \A k \in Cell : Blocked(p, c, s, 0)[k] = s[k]
      BY <3>1 DEF Blocked
    <3>3. Blocked(p, c, s, 0) = [k \in Cell |-> Blocked(p, c, s, 0)[k]]
      BY DEF Blocked
    <3>4. H[0] = Blocked(p, c, s, 0)
      BY <2>1, <2>2
    <3> QED
      BY <3>2, <3>3, <3>4 DEF IsArray
  <2>4. ASSUME NEW b \in 1 .. n
        PROVE  H[b] = BlockDone(p, c, H[b - 1], b)
    <3> DEFINE r == (b - 1) * B
    <3>1. r \in Nat /\ r + B = b * B /\ b - 1 \in 0 .. n /\ b \in 0 .. n
      BY <2>1, <2>2
    <3>2. H[b - 1] = Blocked(p, c, s, r) /\ H[b] = Blocked(p, c, s, r + B)
      BY <3>1
    <3> HIDE DEF r, H
    <3>3. H[b] = RowsDone(p, c, BlockTransposed(H[b - 1], r), r .. r + B - 1)
      BY <1>2, <3>1, <3>2, BlockStep
    <3> QED
      BY <3>3 DEF r, BlockDone
  <2>5. H = G(H)
    <3>1. \A b \in 0 .. n : H[b] = G(H)[b]
      <4> TAKE b \in 0 .. n
      <4>1. b = 0 \/ b \in 1 .. n
        BY <2>2
      <4> HIDE DEF H
      <4> QED
        BY <2>3, <2>4, <4>1
    <3> QED
      BY <3>1
  <2> HIDE DEF H, n
  <2>6. PICK f : f = G(f) /\ SequentialPass(p, c, s) = f[n]
    <3> DEFINE g == CHOOSE f : f = G(f)
    <3>1. g = G(g)
      BY <2>5
    <3>2. SequentialPass(p, c, s) = g[n]
      BY <1>2 DEF SequentialPass, BlockDone, n
    <3> QED
      BY <3>1, <3>2
  <2>7. f[n] = H[n]
    <3> DEFINE S == {b \in 0 .. n : f[b] # H[b]}
    <3> SUFFICES ASSUME S # {} PROVE FALSE
      BY <2>2
    <3>1. PICK b \in S : \A m \in S : b <= m
      <4>1. S \in SUBSET Nat
        OBVIOUS
      <4> HIDE DEF S
      <4> QED
        BY <4>1, LeastElement
    <3>2. b \in 0 .. n /\ f[b] # H[b]
      OBVIOUS
    <3>3. f = G(f)
      BY <2>6
    <3>4. CASE b = 0
      BY <2>3, <3>2, <3>3, <3>4
    <3>5. CASE b \in 1 .. n
      <4>1. b - 1 \in 0 .. n /\ ~(b <= b - 1)
        BY <2>2, <3>5
      <4>2. f[b - 1] = H[b - 1]
        BY <3>1, <4>1
      <4>3. f[b] = BlockDone(p, c, f[b - 1], b)
        BY <2>2, <3>2, <3>3, <3>5
      <4> QED
        BY <2>4, <3>2, <3>5, <4>2, <4>3
    <3> QED
      BY <2>2, <3>2, <3>4, <3>5
  <2>8. H[n] = Blocked(p, c, s, N1)
    BY <2>2 DEF H
  <2>9. Blocked(p, c, s, N1) = RowsDone(p, c, Transposed(s, N1, N1), 0 .. N1 - 1)
    <3>1. \A k \in Cell : k \div N1 \in 0 .. N1 - 1 /\ k \div N1 < N1
      BY <1>2, <2>1, SquareCell
    <3> QED
      BY <2>1, <3>1 DEF Blocked, RowsDone
  <2> QED
    BY <2>1, <2>6, <2>7, <2>8, <2>9
<1> QED
  BY <1>1, <1>2

LEMMA SequentialIs == ASSUME NEW c \in 1 .. Calls PROVE Sequential[c] = FourStep(c)
<1>1. SequentialPass(1, c, Input(c)) = RowsDone(1, c, Transposed(Input(c), N1, N2), 0 .. N2 - 1)
  BY SequentialPassIs, Arrays DEF Rows
<1>2. SequentialPass(2, c, SequentialPass(1, c, Input(c))) = FourStep(c)
  BY <1>1, SequentialPassIs, Arrays DEF Rows, FourStep
<1> QED
  BY <1>2 DEF Sequential

\* What the run with the FHE instructions refutes holds without them: unless
\* main ran ahead, every array ends as the sequential template leaves it.
THEOREM CalmEndsAsSequential == ASSUME ~Ext PROVE Spec => []CalmIsSequential
<1>1. CalmIsFourStep => CalmIsSequential
  BY SequentialIs DEF CalmIsFourStep, CalmIsSequential
<1> QED
  BY <1>1, CalmEndsAsFourStep, PTL

\* With the FHE instructions as well, but for the moduli of the coefficients:
\* everything else about them is right.
THEOREM CalmEndsRightUpToModulus == Spec => []CalmIsRightUpToModulus
<1>1. IInv => CalmIsRightUpToModulus
  <2> SUFFICES ASSUME IInv, closed, ~late, NEW c \in 1 .. Calls, NEW k \in Cell
               PROVE  Unreduced(mem[c].a[k]) = Unreduced(Sequential[c][k])
    BY DEF CalmIsRightUpToModulus
  <2>1. Like(2, mem[c].a[k], Result(2, c)[k])
    BY AtTheEnd
  <2>2. Sequential[c] = Result(2, c)
    BY SequentialIs, FourStepIs
  <2> QED
    BY <2>1, <2>2 DEF Like
<1> QED
  BY <1>1, Invariance, PTL DEF Spec
===============================================================================
