---------------------------- MODULE MtLayersProofs ----------------------------
(***************************************************************************)
(* The safety of the direct multi-threaded NTT for every number of         *)
(* workers, length of the arrays and number of calls: IInv is inductive.   *)
(* From it follow that a task that main has left behind stays inside the   *)
(* array and the tables while main is in the same call, whichever fields   *)
(* of ori_global it reads, and that calm executions compute the sequential *)
(* NTT.                                                                    *)
(***************************************************************************)
EXTENDS MtLayers, Lemmas, SequenceTheorems, TLAPS

(* Blocks of words *)

\* The width of the blocks of a layer: two halves.
WidthOf(s) == Pow2[LogN - s + 1]

LEMMA Widths ==
  ASSUME LayerParameters, NEW s \in Layer
  PROVE  /\ Pow2[LogN - s] \in Nat \ {0} /\ WidthOf(s) = 2 * Pow2[LogN - s]
         /\ WidthOf(s) \in Nat \ {0} /\ Blocks(s) \in Nat \ {0}
         /\ Size = Blocks(s) * WidthOf(s) /\ Size \in Nat \ {0}
<1>1. LogN \in Nat \ {0} /\ s \in 1 .. LogN
  BY DEF LayerParameters, Layer
<1>2. LogN - s \in Nat /\ s - 1 \in Nat /\ LogN - s + 1 \in Nat /\ (s - 1) + (LogN - s + 1) = LogN
  BY <1>1
<1>3. Pow2[LogN - s] \in Nat \ {0} /\ Pow2[LogN - s + 1] = 2 * Pow2[LogN - s]
  BY <1>2, Pow2Facts
<1>4. Pow2[s - 1] \in Nat \ {0} /\ Pow2[LogN] \in Nat \ {0}
  BY <1>1, <1>2, Pow2Facts
<1>5. Pow2[(s - 1) + (LogN - s + 1)] = Pow2[s - 1] * Pow2[LogN - s + 1]
  BY <1>2, Pow2Sum
<1>6. Pow2[LogN] = Pow2[s - 1] * Pow2[LogN - s + 1]
  BY <1>2, <1>5
<1> QED
  BY <1>3, <1>4, <1>6 DEF WidthOf, Blocks, Size

\* Every word is in a block, and every block has a task.
LEMMA BlockOfWord ==
  ASSUME LayerParameters, NEW s \in Layer, NEW k \in Word
  PROVE  BlockOf(s, k) \in 0 .. Blocks(s) - 1
<1>1. WidthOf(s) \in Nat \ {0} /\ Blocks(s) \in Nat \ {0} /\ Size = Blocks(s) * WidthOf(s)
  BY Widths
<1>2. k \in Nat /\ k < Size
  BY <1>1 DEF Word
<1> DEFINE w == WidthOf(s)
           b == Blocks(s)
           i == k \div w
           r == k % w
<1>3. i \in Nat /\ r \in 0 .. w - 1 /\ k = i * w + r /\ w \in Nat \ {0} /\ b \in Nat \ {0} /\ k < b * w
  BY <1>1, <1>2, DivMod
<1> HIDE DEF w, b, i, r
<1>4. ASSUME b <= i PROVE FALSE
  <2>1. b * w <= i * w
    BY <1>3, <1>4
  <2> QED
    BY <1>2, <1>3, <2>1
<1>5. i \in 0 .. b - 1
  BY <1>3, <1>4
<1> QED
  BY <1>5 DEF BlockOf, WidthOf, i, w, b

LEMMA BlockIsTask ==
  \A c \in 1 .. Calls, s \in Layer : \A i \in 0 .. Blocks(s) - 1 :
    [call |-> c, layer |-> s, block |-> i] \in Task
BY DEF Task

LEMMA TaskFields ==
  \A j \in Task : /\ j.call \in 1 .. Calls /\ j.layer \in Layer /\ j.block \in 0 .. Blocks(j.layer) - 1
                  /\ j = [call |-> j.call, layer |-> j.layer, block |-> j.block]
BY DEF Task

\* The words of block i.
LEMMA WordsOfBlock ==
  ASSUME LayerParameters, NEW s \in Layer, NEW i \in Nat, NEW k \in Nat
  PROVE  BlockOf(s, k) = i <=> k \in i * WidthOf(s) .. i * WidthOf(s) + WidthOf(s) - 1
<1> DEFINE w == WidthOf(s)
<1>1. w \in Nat \ {0}
  BY Widths
<1>2. BlockOf(s, k) = k \div w
  BY DEF BlockOf, WidthOf
<1> HIDE DEF w
<1>3. k \div w \in Nat /\ k % w \in 0 .. w - 1 /\ k = (k \div w) * w + (k % w)
  BY <1>1, DivMod
<1>4. ASSUME k \div w = i PROVE k \in i * w .. i * w + w - 1
  <2>1. i * w \in Nat
    BY <1>1
  <2> QED
    BY <1>1, <1>3, <1>4, <2>1
<1>5. ASSUME k \in i * w .. i * w + w - 1 PROVE k \div w = i
  <2>1. i * w \in Nat
    BY <1>1
  <2> DEFINE j == k - i * w
  <2>2. j \in 0 .. w - 1 /\ k = i * w + j
    BY <1>1, <1>5, <2>1
  <2> HIDE DEF j
  <2> QED
    BY <1>1, <2>2, Compose
<1> QED
  BY <1>2, <1>4, <1>5 DEF w

\* Later layers have more blocks, and narrower ones.
LEMMA PowersGrow == \A m, n \in Nat : m <= n => Pow2[m] <= Pow2[n]
<1> SUFFICES ASSUME NEW m \in Nat, NEW n \in Nat, m <= n PROVE Pow2[m] <= Pow2[n]
  OBVIOUS
<1>1. n - m \in Nat /\ m + (n - m) = n
  OBVIOUS
<1>2. Pow2[m + (n - m)] = Pow2[m] * Pow2[n - m]
  BY <1>1, Pow2Sum
<1>3. Pow2[m] \in Nat \ {0} /\ Pow2[n - m] \in Nat \ {0}
  BY <1>1, Pow2Facts
<1>4. \A x, y \in Nat \ {0} : x <= x * y
  OBVIOUS
<1>5. Pow2[n] = Pow2[m] * Pow2[n - m]
  BY <1>1, <1>2
<1> QED
  BY <1>3, <1>4, <1>5

-------------------------------------------------------------------------------
(* Butterflies *)

\* A task leaves the words of other blocks alone, and what it makes of its own
\* depends on those only.
LEMMA ButterfliesAreLocal ==
  ASSUME LayerParameters, NEW c, NEW s \in Layer, NEW i \in 0 .. Blocks(s) - 1, NEW k \in Word,
         NEW x
  PROVE  /\ BlockOf(s, k) # i => Butterflies(x, i, ParametersOf(c, s))[k] = x[k]
         /\ \A y : BlockOf(s, k) = i /\ (\A l \in Word : BlockOf(s, l) = i => x[l] = y[l])
              => Butterflies(x, i, ParametersOf(c, s))[k] = Butterflies(y, i, ParametersOf(c, s))[k]
<1> DEFINE p == ParametersOf(c, s)
           t == Pow2[LogN - s]
           w == WidthOf(s)
           first == i * w
           R(z, j, upper) == [layer |-> p.t, call |-> p.where.call, twiddle |-> p.where.m + i,
                              upper |-> upper, of |-> <<z[j], z[j + p.t]>>]
<1>1. t \in Nat \ {0} /\ w = 2 * t /\ w \in Nat \ {0} /\ Blocks(s) \in Nat \ {0}
      /\ Size = Blocks(s) * w /\ Size \in Nat \ {0}
  BY Widths
<1>2. i \in Nat /\ first \in Nat /\ k \in Nat /\ i <= Blocks(s) - 1
  BY <1>1 DEF Word
<1>3. first + w <= Size
  <2>1. (i + 1) * w <= Blocks(s) * w
    BY <1>1, <1>2
  <2>2. (i + 1) * w = first + w
    <3>1. \A y \in Nat : (i + 1) * y = i * y + y
      BY <1>2
    <3> QED
      BY <1>1, <3>1
  <2> QED
    BY <1>1, <2>1, <2>2
<1>4. p.t = t /\ p.logt = LogN - s + 1 /\ Pow2[p.logt] = w
  BY DEF ParametersOf, WidthOf
<1>5. \A l \in Nat : BlockOf(s, l) = i <=> l \in first .. first + w - 1
  BY <1>2, WordsOfBlock
<1> HIDE DEF first, w, t, p
<1>6. \A z : Butterflies(z, i, p)[k] =
               IF k \in first .. first + t - 1 /\ k + t \in Word THEN R(z, k, FALSE)
               ELSE IF k \in first + t .. first + 2 * t - 1 THEN R(z, k - t, TRUE) ELSE z[k]
  BY <1>4, Zenon DEF Butterflies, first
<1>7. ASSUME BlockOf(s, k) # i PROVE Butterflies(x, i, p)[k] = x[k]
  <2>1. k \notin first .. first + t - 1 /\ k \notin first + t .. first + 2 * t - 1
    BY <1>1, <1>2, <1>5, <1>7
  <2> QED
    BY <1>6, <2>1, Zenon
<1>8. ASSUME NEW y, BlockOf(s, k) = i, \A l \in Word : BlockOf(s, l) = i => x[l] = y[l]
      PROVE  Butterflies(x, i, p)[k] = Butterflies(y, i, p)[k]
  <2>1. \A l \in first .. first + w - 1 : l \in Word /\ x[l] = y[l]
    <3>1. \A l \in first .. first + w - 1 : l \in Word /\ l \in Nat
      BY <1>1, <1>2, <1>3 DEF Word
    <3> QED
      BY <1>5, <1>8, <3>1
  <2>2. k \in first .. first + w - 1
    BY <1>2, <1>5, <1>8
  <2>3. CASE k \in first .. first + t - 1
    <3>1. k + t \in first .. first + w - 1
      BY <1>1, <1>2, <2>3
    <3>2. x[k] = y[k] /\ x[k + t] = y[k + t] /\ k + t \in Word
      BY <2>1, <2>2, <3>1
    <3>3. R(x, k, FALSE) = R(y, k, FALSE)
      BY <1>4, <3>2
    <3> QED
      BY <1>6, <2>3, <3>2, <3>3, Zenon
  <2>4. CASE k \notin first .. first + t - 1
    <3>1. k \in first + t .. first + 2 * t - 1 /\ k - t \in first .. first + w - 1 /\ (k - t) + t = k
      BY <1>1, <1>2, <2>2, <2>4
    <3>2. x[k] = y[k] /\ x[k - t] = y[k - t]
      BY <2>1, <2>2, <3>1
    <3>3. R(x, k - t, TRUE) = R(y, k - t, TRUE)
      BY <1>4, <3>1, <3>2
    <3> QED
      BY <1>6, <2>4, <3>1, <3>3, Zenon
  <2> QED
    BY <2>3, <2>4
<1> QED
  BY <1>7, <1>8 DEF p
-------------------------------------------------------------------------------
(* The places of tasks *)

LEMMA QueueIs == P!Queued = Elements(queue) /\ Unfinished = Elements(queue) \cup running
BY DEF P!Queued, Unfinished, Elements

\* What adding a task, taking one and finishing one do to the places of tasks.
LEMMA AddMoves ==
  ASSUME TypeOK, OnePlace, NEW j \in Task, j \notin Unfinished \cup done,
         queue' = Append(queue, j), UNCHANGED <<running, done, on>>
  PROVE  queue' \in Seq(Task) /\ OnePlace' /\ Unfinished' = Unfinished \cup {j}
<1>1. queue' \in Seq(Task) /\ Distinct(queue') /\ Elements(queue') = Elements(queue) \cup {j}
  BY AddToQueue, QueueIs DEF TypeOK, OnePlace, Distinct
<1>2. P!Queued' = P!Queued \cup {j} /\ Unfinished' = Unfinished \cup {j}
  BY <1>1, QueueIs DEF P!Queued, Elements, Unfinished
<1>3. OnePlace'
  BY <1>1, <1>2 DEF OnePlace, Busy, Distinct, Unfinished
<1> QED
  BY <1>1, <1>2, <1>3

LEMMA TakeMoves ==
  ASSUME LayerParameters, TypeOK, OnePlace, NEW w \in Worker, Take(w)
  PROVE  /\ Head(queue) \in P!Queued /\ Head(queue) \in Task /\ on' = [on EXCEPT ![w] = Head(queue)]
         /\ queue' \in Seq(Task) /\ Unfinished' = Unfinished /\ OnePlace'
<1>1. /\ queue # << >> /\ queue' = Tail(queue) /\ running' = running \cup {Head(queue)}
      /\ done' = done /\ on' = [on EXCEPT ![w] = Head(queue)] /\ on[w] = Idle
  BY DEF Take, P!Start
<1>2. /\ Head(queue) \in Task /\ queue' \in Seq(Task) /\ Distinct(queue')
      /\ Elements(queue) = Elements(queue') \cup {Head(queue)} /\ Head(queue) \notin Elements(queue')
  BY <1>1, TakeFromQueue DEF TypeOK, OnePlace, Distinct
<1>3. /\ P!Queued = Elements(queue) /\ P!Queued' = Elements(queue')
      /\ Unfinished = Elements(queue) \cup running /\ Unfinished' = Elements(queue') \cup running'
  BY DEF P!Queued, Unfinished, Elements
<1>4. Unfinished' = Unfinished
  BY <1>1, <1>2, <1>3
<1>5. Busy' = Busy \cup {w} /\ w \notin Busy /\ on'[w] = Head(queue)
      /\ \A v \in Busy : on'[v] = on[v]
  BY <1>1, <1>2 DEF Busy, TypeOK, LayerParameters
<1>6. running' = {on'[v] : v \in Busy'}
  <2>1. {on'[v] : v \in Busy'} = {on[v] : v \in Busy} \cup {Head(queue)}
    BY <1>5
  <2> QED
    BY <1>1, <2>1 DEF OnePlace
<1>7. \A u, v \in Busy' : on'[u] = on'[v] => u = v
  BY <1>2, <1>3, <1>5 DEF OnePlace
<1>8. P!Queued' \cap running' = {} /\ Unfinished' \cap done' = {}
  BY <1>1, <1>2, <1>3, <1>4 DEF OnePlace
<1> QED
  BY <1>1, <1>2, <1>3, <1>4, <1>5, <1>6, <1>7, <1>8 DEF OnePlace, Distinct

LEMMA EndMoves ==
  ASSUME LayerParameters, TypeOK, OnePlace, NEW w \in Worker, End(w)
  PROVE  /\ on[w] \in Task /\ on[w] \in Unfinished /\ on' = [on EXCEPT ![w] = Idle]
         /\ queue' = queue /\ running' = running \ {on[w]} /\ done' = done \cup {on[w]}
         /\ Unfinished' = Unfinished \ {on[w]} /\ OnePlace'
<1>1. /\ on[w] # Idle /\ on[w] \in Task /\ running' = running \ {on[w]} /\ on[w] \in running
      /\ done' = done \cup {on[w]} /\ on' = [on EXCEPT ![w] = Idle] /\ queue' = queue
  <2>1. on[w] # Idle /\ P!Finish(on[w]) /\ on' = [on EXCEPT ![w] = Idle]
    BY DEF End
  <2>2. on[w] \in Task
    BY <2>1 DEF TypeOK
  <2> QED
    BY <2>1, <2>2 DEF P!Finish
<1>2. P!Queued' = P!Queued /\ Unfinished' = Unfinished \ {on[w]} /\ on[w] \in Unfinished
  BY <1>1 DEF P!Queued, Unfinished, OnePlace
<1>3. Busy' = Busy \ {w} /\ w \in Busy /\ \A v \in Busy \ {w} : on'[v] = on[v] /\ on[v] # on[w]
  BY <1>1 DEF Busy, TypeOK, OnePlace, LayerParameters
<1>4. running' = {on'[v] : v \in Busy'}
  <2>1. {on'[v] : v \in Busy'} = {on[v] : v \in Busy \ {w}}
    BY <1>3
  <2> QED
    BY <1>1, <1>3, <2>1 DEF OnePlace
<1> QED
  BY <1>1, <1>2, <1>3, <1>4 DEF OnePlace

-------------------------------------------------------------------------------
(* Every step preserves the structure: where main is, what it has added,     *)
(* where the tasks are and which parameters they have read.                  *)

\* The layers are numbers.
LEMMA Layers ==
  ASSUME LayerParameters
  PROVE  /\ LogN \in Nat \ {0} /\ Calls \in Nat \ {0}
         /\ \A s \in Layer : s \in Nat \ {0} /\ s <= LogN
         /\ \A s \in Nat \ {0} : s <= LogN => s \in Layer
         /\ \A s \in Layer : Blocks(s) \in Nat \ {0}
         /\ Blocks(1) = 1
<1>1. LogN \in Nat \ {0} /\ Calls \in Nat \ {0}
  BY DEF LayerParameters
<1>2. Blocks(1) = 1
  BY Pow2Facts DEF Blocks
<1> QED
  BY <1>1, <1>2, Widths DEF Layer

LEMMA InitStructure == ASSUME LayerParameters, Init PROVE Structure
<1>1. /\ queue = << >> /\ running = {} /\ done = {} /\ closed = FALSE
      /\ on = [w \in Worker |-> Idle] /\ seen = [w \in Worker |-> << >>]
      /\ mem = [c \in 1 .. Calls |-> [k \in Word |-> Given(c, k)]]
      /\ globals = [f \in Field |-> 0]
      /\ pc = "add" /\ call = 1 /\ layer = 1 /\ block = 0 /\ unset = Field /\ late = FALSE
  BY DEF Init, P!PoolInit
<1>2. Unfinished = {} /\ P!Queued = {} /\ Busy = {}
  BY <1>1 DEF Unfinished, P!Queued, Busy
<1>3. TypeOK
  <2>1. call \in 1 .. Calls /\ layer \in Layer
    BY <1>1, Layers
  <2>2. \A c \in 1 .. Calls : IsArray(mem[c])
    BY <1>1 DEF IsArray
  <2>3. mem = [c \in 1 .. Calls |-> mem[c]] /\ globals = [f \in Field |-> globals[f]]
        /\ seen = [w \in Worker |-> seen[w]] /\ \A w \in Worker : DOMAIN seen[w] = {}
    BY <1>1
  <2>4. on \in [Worker -> Task \cup {Idle}] /\ queue \in Seq(Task)
    BY <1>1
  <2>5. running \subseteq Task /\ done \subseteq Task /\ closed \in BOOLEAN
        /\ unset \subseteq Field /\ pc \in {"add", "wait", "destroy"} /\ block \in Nat /\ late \in BOOLEAN
    BY <1>1
  <2> QED
    BY <2>1, <2>2, <2>3, <2>4, <2>5 DEF TypeOK
<1>4. Phases
  BY <1>1, Layers DEF Phases
<1>5. OnePlace
  BY <1>1, <1>2 DEF OnePlace
<1>6. Accounts
  <2>1. Added = {}
    BY <1>1, TaskFields, Layers DEF Added
  <2> QED
    BY <1>1, <1>2, <2>1 DEF Accounts
<1>7. Globals /\ Seen
  BY <1>1 DEF Globals, Seen
<1> QED
  BY <1>3, <1>4, <1>5, <1>6, <1>7 DEF Structure

LEMMA TakeStructure == ASSUME LayerParameters, Structure, NEW w \in Worker, Take(w) PROVE Structure'
<1>1. /\ UNCHANGED <<mem, globals, seen, pc, call, layer, block, unset, late, done, closed>>
      /\ running' = running \cup {Head(queue)} /\ on[w] = Idle
  BY DEF Take, P!Start, main
<1>2. /\ Head(queue) \in P!Queued /\ Head(queue) \in Task /\ on' = [on EXCEPT ![w] = Head(queue)]
      /\ queue' \in Seq(Task) /\ Unfinished' = Unfinished /\ OnePlace'
  BY TakeMoves DEF Structure
<1>3. TypeOK'
  BY <1>1, <1>2 DEF Structure, TypeOK, IsArray
<1>4. Phases'
  BY <1>1, <1>2 DEF Structure, Phases
<1>5. Accounts'
  BY <1>1, <1>2 DEF Structure, Accounts, Added
<1>6. Globals'
  BY <1>1 DEF Structure, Globals
<1>7. Seen'
  <2>1. DOMAIN seen[w] = {}
    BY <1>1 DEF Structure, Seen
  <2>2. \A v \in Worker : v # w => on'[v] = on[v]
    BY <1>2
  <2> QED
    BY <1>1, <2>1, <2>2 DEF Structure, Seen
<1> QED
  BY <1>2, <1>3, <1>4, <1>5, <1>6, <1>7 DEF Structure

\* The parameters a task of main's call may read.
LEMMA ReadingIsRecent ==
  ASSUME LayerParameters, Structure, NEW j \in Unfinished, j.call = call, NEW f \in Field
  PROVE  \E s \in j.layer .. layer : globals[f] = ParametersOf(call, s)[f]
<1>1. j \in Task /\ j \in Added
  BY DEF Structure, Accounts, Added
<1>2. j.layer \in Nat /\ j.layer # 0 /\ j.block \in Nat /\ layer \in Nat
  BY <1>1, TaskFields, Layers DEF Structure, TypeOK
<1>3. call \in Nat
  BY DEF Structure, TypeOK
<1>4. j.layer < layer \/ (j.layer = layer /\ (pc = "add" => j.block < block))
  BY <1>1, <1>3 DEF Added
<1>5. CASE f \notin unset
  <2>1. layer \in j.layer .. layer
    BY <1>2, <1>4
  <2> QED
    BY <1>5, <2>1 DEF Structure, Globals
<1>6. CASE f \in unset
  <2>1. pc = "add" /\ block = 0
    BY <1>6 DEF Structure, TypeOK, Phases
  <2>2. j.layer < layer
    BY <1>2, <1>4, <2>1
  <2>3. layer - 1 \in j.layer .. layer /\ layer > 1
    BY <1>2, <2>2
  <2> QED
    BY <1>6, <2>3 DEF Structure, Globals
<1> QED
  BY <1>5, <1>6

LEMMA ReadStructure == ASSUME LayerParameters, Structure, NEW w \in Worker, Read(w) PROVE Structure'
<1>1. UNCHANGED <<queue, running, done, closed, mem, globals, on, pc, call, layer, block, unset, late>>
  BY DEF Read, pool, main
<1>2. PICK f \in Field \ DOMAIN seen[w] :
        seen' = [seen EXCEPT ![w] = [g \in DOMAIN @ \cup {f} |-> IF g = f THEN globals[f] ELSE @[g]]]
  BY DEF Read
<1>3. on[w] # Idle
  BY DEF Read
<1>4. /\ seen' = [v \in Worker |-> seen'[v]] /\ \A v \in Worker \ {w} : seen'[v] = seen[v]
      /\ seen'[w] = [g \in DOMAIN seen[w] \cup {f} |-> IF g = f THEN globals[f] ELSE seen[w][g]]
  BY <1>2 DEF Structure, TypeOK
<1>5. TypeOK'
  <2>1. \A v \in Worker : DOMAIN seen'[v] \subseteq Field
    BY <1>4 DEF Structure, TypeOK
  <2> QED
    BY <1>1, <1>4, <2>1 DEF Structure, TypeOK, IsArray
<1>6. Phases' /\ OnePlace' /\ Accounts' /\ Globals'
  <2>1. P!Queued' = P!Queued /\ Unfinished' = Unfinished /\ Busy' = Busy /\ Added' = Added
    BY <1>1 DEF P!Queued, Unfinished, Busy, Added
  <2> QED
    BY <1>1, <2>1 DEF Structure, Phases, OnePlace, Accounts, Globals
<1>7. Seen'
  <2>1. ASSUME NEW g \in DOMAIN seen'[w], on[w].call = call
        PROVE  \E s \in on[w].layer .. layer : seen'[w][g] = ParametersOf(call, s)[g]
    <3>1. CASE g = f
      <4>1. on[w] \in Unfinished
        BY <1>3 DEF Structure, OnePlace, Busy, Unfinished
      <4>2. \E s \in on[w].layer .. layer : globals[f] = ParametersOf(call, s)[f]
        BY <2>1, <4>1, ReadingIsRecent
      <4> QED
        BY <1>4, <3>1, <4>2
    <3>2. CASE g # f
      <4>1. g \in DOMAIN seen[w] /\ seen'[w][g] = seen[w][g]
        BY <1>4, <3>2
      <4> QED
        BY <1>3, <2>1, <4>1 DEF Structure, Seen
    <3> QED
      BY <3>1, <3>2
  <2>2. \A v \in Worker \ {w} : seen'[v] = seen[v]
    BY <1>4
  <2> QED
    BY <1>1, <1>3, <2>1, <2>2 DEF Structure, Seen
<1> QED
  BY <1>5, <1>6, <1>7 DEF Structure

LEMMA EndStructure == ASSUME LayerParameters, Structure, NEW w \in Worker, End(w) PROVE Structure'
<1>1. UNCHANGED <<globals, pc, call, layer, block, unset, late, closed>>
  BY DEF End, P!Finish, main
<1>2. /\ on[w] \in Task /\ on[w] \in Unfinished /\ on' = [on EXCEPT ![w] = Idle]
      /\ queue' = queue /\ running' = running \ {on[w]} /\ done' = done \cup {on[w]}
      /\ Unfinished' = Unfinished \ {on[w]} /\ OnePlace'
  BY EndMoves DEF Structure
<1>3. seen' = [seen EXCEPT ![w] = << >>]
  BY DEF End
<1>4. mem' = [c \in 1 .. Calls |-> mem'[c]] /\ \A c \in 1 .. Calls : IsArray(mem'[c])
  <2>1. PICK c : mem' = [mem EXCEPT ![c] = Butterflies(@, on[w].block, seen[w])]
    BY DEF End
  <2>2. \A x, i, p : IsArray(Butterflies(x, i, p))
    BY DEF IsArray, Butterflies
  <2>3. \A d \in 1 .. Calls : mem'[d] = IF d = c THEN Butterflies(mem[d], on[w].block, seen[w]) ELSE mem[d]
    BY <2>1 DEF Structure, TypeOK
  <2>4. mem' = [d \in 1 .. Calls |-> mem'[d]]
    BY <2>1 DEF Structure, TypeOK
  <2> QED
    BY <2>2, <2>3, <2>4 DEF Structure, TypeOK
<1>5. TypeOK'
  <2>1. on' \in [Worker -> Task \cup {Idle}] /\ queue' \in Seq(Task) /\ running' \subseteq Task
        /\ done' \subseteq Task
    BY <1>2 DEF Structure, TypeOK
  <2>2. seen' = [v \in Worker |-> seen'[v]] /\ \A v \in Worker : DOMAIN seen'[v] \subseteq Field
    BY <1>3 DEF Structure, TypeOK
  <2> QED
    BY <1>1, <1>4, <2>1, <2>2 DEF Structure, TypeOK, IsArray
<1>6. Phases' /\ Globals'
  BY <1>1, <1>2 DEF Structure, Phases, Globals
<1>7. Accounts'
  <2>1. Added' = Added
    BY <1>1 DEF Added
  <2> QED
    BY <1>2, <2>1 DEF Structure, Accounts
<1>8. Seen'
  <2>1. \A v \in Worker : /\ v # w => on'[v] = on[v] /\ seen'[v] = seen[v]
                          /\ v = w => on'[v] = Idle /\ seen'[v] = << >>
    BY <1>2, <1>3 DEF Structure, TypeOK
  <2> QED
    BY <1>1, <2>1 DEF Structure, Seen
<1> QED
  BY <1>2, <1>5, <1>6, <1>7, <1>8 DEF Structure
\* The tasks stay where they are and the workers what they have read.
LEMMA SamePlaces ==
  ASSUME UNCHANGED <<queue, running, done, on>>
  PROVE  P!Queued' = P!Queued /\ Unfinished' = Unfinished /\ Busy' = Busy /\ (OnePlace => OnePlace')
<1>1. P!Queued' = P!Queued /\ Unfinished' = Unfinished /\ Busy' = Busy
  BY DEF P!Queued, Unfinished, Busy
<1> QED
  BY <1>1 DEF OnePlace

LEMMA SetFieldStructure == ASSUME LayerParameters, Structure, SetField PROVE Structure'
<1>1. /\ UNCHANGED <<queue, running, done, closed, mem, on, seen, pc, call, layer, block, late>>
      /\ pc = "add"
  BY DEF SetField, pool, worker
<1>2. PICK f \in unset : /\ globals' = [globals EXCEPT ![f] = ParametersOf(call, layer)[f]]
                         /\ unset' = unset \ {f}
  BY DEF SetField
<1>3. f \in Field /\ unset \subseteq Field /\ block = 0 /\ block < Blocks(layer)
  BY <1>1, <1>2 DEF Structure, TypeOK, Phases
<1>4. TypeOK'
  <2>1. globals' = [g \in Field |-> globals'[g]] /\ unset' \subseteq Field
    BY <1>2 DEF Structure, TypeOK
  <2> QED
    BY <1>1, <2>1 DEF Structure, TypeOK, IsArray
<1>5. Phases'
  BY <1>1, <1>3, SamePlaces DEF Structure, Phases
<1>6. OnePlace' /\ Accounts'
  <2>1. Added' = Added
    BY <1>1 DEF Added
  <2> QED
    BY <1>1, <2>1, SamePlaces DEF Structure, Accounts
<1>7. Globals'
  <2>1. \A g \in Field : globals'[g] = IF g = f THEN ParametersOf(call, layer)[f] ELSE globals[g]
    BY <1>2 DEF Structure, TypeOK
  <2> QED
    BY <1>1, <1>2, <2>1 DEF Structure, Globals
<1>8. Seen'
  BY <1>1 DEF Structure, Seen
<1> QED
  BY <1>4, <1>5, <1>6, <1>7, <1>8 DEF Structure

LEMMA AddBlockStructure == ASSUME LayerParameters, Structure, AddBlock PROVE Structure'
<1> DEFINE j == [call |-> call, layer |-> layer, block |-> block]
<1>1. /\ UNCHANGED <<running, done, closed, mem, globals, on, seen, call, layer, unset, late>>
      /\ pc = "add" /\ unset = {} /\ queue' = Append(queue, j) /\ j \notin Unfinished \cup done /\ ~closed
      /\ block' = block + 1 /\ pc' = IF block + 1 = Blocks(layer) THEN "wait" ELSE "add"
  BY DEF AddBlock, P!Add, worker, Unfinished
<1>2. call \in 1 .. Calls /\ layer \in Layer /\ block \in Nat /\ block < Blocks(layer)
      /\ Blocks(layer) \in Nat /\ layer \in Nat /\ call \in Nat
  BY <1>1, Layers DEF Structure, TypeOK, Phases
<1>3. block \in 0 .. Blocks(layer) - 1
  BY <1>2
<1>4. j \in Task
  BY <1>2, <1>3, BlockIsTask
<1>5. queue' \in Seq(Task) /\ OnePlace' /\ Unfinished' = Unfinished \cup {j}
  <2> HIDE DEF j
  <2> QED
    BY <1>1, <1>4, AddMoves DEF Structure
<1>6. TypeOK'
  BY <1>1, <1>2, <1>5 DEF Structure, TypeOK, IsArray
<1>7. Phases'
  BY <1>1, <1>2 DEF Structure, Phases
<1>8. Added' = Added \cup {j}
  <2>1. ASSUME NEW i \in Task, i.call = call, i.layer = layer
        PROVE  (pc' = "add" => i.block < block') <=> (i.block < block \/ i = j)
    <3>1. i.block \in 0 .. Blocks(layer) - 1
          /\ i = [call |-> i.call, layer |-> i.layer, block |-> i.block]
      BY <2>1, TaskFields
    <3>2. i = j <=> i.block = block
      BY <2>1, <3>1
    <3> HIDE DEF j
    <3>3. CASE pc' = "add"
      BY <1>1, <1>2, <3>1, <3>2, <3>3
    <3>4. CASE pc' # "add"
      BY <1>1, <1>2, <3>1, <3>2, <3>4
    <3> QED
      BY <3>3, <3>4
  <2>2. j.call = call /\ j.layer = layer
    OBVIOUS
  <2> HIDE DEF j
  <2>3. \A i \in Task : i \in Added' <=> i \in Added \/ i = j
    <3> TAKE i \in Task
    <3>1. i.call \in Nat /\ i.layer \in Nat
      BY TaskFields, Layers
    <3>2. CASE i.call = call /\ i.layer = layer
      BY <1>1, <1>2, <2>1, <3>1, <3>2 DEF Added
    <3>3. CASE ~(i.call = call /\ i.layer = layer)
      BY <1>1, <1>2, <2>2, <3>1, <3>3 DEF Added
    <3> QED
      BY <3>2, <3>3
  <2>4. Added' \subseteq Task /\ Added \subseteq Task
    BY DEF Added
  <2> QED
    BY <1>4, <2>3, <2>4
<1>9. Accounts' /\ Globals' /\ Seen'
  BY <1>1, <1>5, <1>8 DEF Structure, Accounts, Globals, Seen
<1> QED
  BY <1>5, <1>6, <1>7, <1>9 DEF Structure

LEMMA WaitStructure == ASSUME LayerParameters, Structure, Wait PROVE Structure'
<1>1. /\ UNCHANGED <<queue, running, done, closed, mem, globals, on, seen>>
      /\ pc = "wait" /\ unset = {} /\ block' = 0
      /\ pc' = IF layer = LogN /\ call = Calls THEN "destroy" ELSE "add"
      /\ unset' = IF pc' = "add" THEN Field ELSE {}
      /\ late' = (late \/ (pc' = "add" /\ Unfinished # {}))
  BY DEF Wait, WaitIsOver, pool, worker, Assigned, Structure, Phases
<1>2. \/ layer < LogN /\ layer' = layer + 1 /\ call' = call
      \/ ~(layer < LogN) /\ call < Calls /\ layer' = 1 /\ call' = call + 1
      \/ ~(layer < LogN) /\ ~(call < Calls) /\ layer' = layer /\ call' = call
  BY DEF Wait
<1>3. /\ layer \in Layer /\ layer \in Nat \ {0} /\ layer <= LogN /\ LogN \in Nat \ {0}
      /\ call \in 1 .. Calls /\ Calls \in Nat \ {0} /\ call \in Nat
  BY Layers DEF Structure, TypeOK
<1>4. layer' \in Layer /\ call' \in 1 .. Calls
  <2>1. layer' \in Nat \ {0} /\ layer' <= LogN /\ call' \in 1 .. Calls
    BY <1>2, <1>3
  <2> QED
    BY <2>1, Layers
<1>5. TypeOK'
  <2>1. late' \in BOOLEAN /\ pc' \in {"add", "destroy"} /\ unset' \subseteq Field /\ block' \in Nat
    BY <1>1 DEF Structure, TypeOK
  <2> QED
    BY <1>1, <1>4, <2>1 DEF Structure, TypeOK, IsArray
<1>6. Unfinished' = Unfinished /\ OnePlace'
  BY <1>1, SamePlaces DEF Structure
<1>7. Phases'
  <2>1. Blocks(layer') \in Nat \ {0}
    BY <1>4, Layers
  <2>2. ~closed
    BY <1>1 DEF Structure, Phases
  <2>3. pc' = "destroy" => layer' = LogN /\ call' = Calls
    BY <1>1, <1>2, <1>3
  <2> QED
    BY <1>1, <2>1, <2>2, <2>3 DEF Phases
<1>8. Added' = Added
  <2>1. ASSUME NEW i \in Task PROVE i \in Added' <=> i \in Added
    <3>1. i.call \in 1 .. Calls /\ i.layer \in Nat \ {0} /\ i.layer <= LogN /\ i.block \in Nat
      BY TaskFields, Layers
    <3>2. CASE layer < LogN
      BY <1>1, <1>2, <1>3, <3>1, <3>2 DEF Added
    <3>3. CASE ~(layer < LogN) /\ call < Calls
      BY <1>1, <1>2, <1>3, <3>1, <3>3 DEF Added
    <3>4. CASE ~(layer < LogN) /\ ~(call < Calls)
      BY <1>1, <1>2, <1>3, <3>1, <3>4 DEF Added
    <3> QED
      BY <3>2, <3>3, <3>4
  <2>2. Added' \subseteq Task /\ Added \subseteq Task
    BY DEF Added
  <2> QED
    BY <2>1, <2>2
<1>9. Accounts'
  BY <1>1, <1>6, <1>8 DEF Structure, Accounts
<1>10. Globals'
  <2>1. \A f \in Field : globals[f] = ParametersOf(call, layer)[f]
    BY <1>1 DEF Structure, Globals
  <2>2. CASE layer < LogN
    <3>1. layer' - 1 = layer /\ call' = call /\ unset' = Field
      BY <1>1, <1>2, <1>3, <2>2
    <3> QED
      BY <1>1, <2>1, <3>1 DEF Globals
  <2>3. CASE ~(layer < LogN) /\ call < Calls
    <3>1. ~(layer' > 1) /\ unset' = Field
      BY <1>1, <1>2, <1>3, <2>3
    <3> QED
      BY <1>1, <3>1 DEF Globals
  <2>4. CASE ~(layer < LogN) /\ ~(call < Calls)
    <3>1. unset' = {} /\ layer' = layer /\ call' = call
      BY <1>1, <1>2, <1>3, <2>4
    <3> QED
      BY <1>1, <2>1, <3>1 DEF Globals
  <2> QED
    BY <2>2, <2>3, <2>4
<1>11. Seen'
  <2>1. ASSUME NEW w \in Worker, on[w] # Idle, on[w].call = call', NEW f \in DOMAIN seen[w]
        PROVE  \E s \in on[w].layer .. layer' : seen[w][f] = ParametersOf(call', s)[f]
    <3>1. on[w] \in Added /\ on[w] \in Task
      BY <2>1 DEF Structure, TypeOK, OnePlace, Busy, Unfinished, Accounts
    <3>2. on[w].call \in Nat /\ on[w].layer \in Nat \ {0}
      BY <3>1, TaskFields, Layers
    <3>3. on[w].call <= call
      BY <1>3, <3>1, <3>2 DEF Added
    <3>4. call' = call /\ layer <= layer' /\ layer' \in Nat
      BY <1>2, <1>3, <2>1, <3>2, <3>3
    <3>5. PICK s \in on[w].layer .. layer : seen[w][f] = ParametersOf(call, s)[f]
      BY <2>1, <3>4 DEF Structure, Seen
    <3>6. s \in on[w].layer .. layer'
      BY <1>3, <3>2, <3>4, <3>5
    <3> QED
      BY <3>4, <3>5, <3>6
  <2> QED
    BY <1>1, <2>1 DEF Structure, Seen
<1> QED
  BY <1>5, <1>6, <1>7, <1>9, <1>10, <1>11 DEF Structure

LEMMA DestroyStructure == ASSUME LayerParameters, Structure, Destroy PROVE Structure'
<1>1. /\ UNCHANGED <<queue, running, done, mem, globals, on, seen, pc, call, layer, block, unset, late>>
      /\ closed' = TRUE /\ pc = "destroy" /\ queue = << >> /\ running = {}
  BY DEF Destroy, P!Close, worker, main
<1>2. Unfinished = {}
  BY <1>1 DEF Unfinished, P!Queued
<1>3. TypeOK' /\ Globals' /\ Seen'
  BY <1>1 DEF Structure, TypeOK, IsArray, Globals, Seen
<1>4. OnePlace' /\ Phases' /\ Accounts'
  <2>1. Added' = Added
    BY <1>1 DEF Added
  <2> QED
    BY <1>1, <1>2, <2>1, SamePlaces DEF Structure, Phases, Accounts
<1> QED
  BY <1>3, <1>4 DEF Structure

LEMMA StutterStructure == ASSUME Structure, UNCHANGED vars PROVE Structure'
<1>1. UNCHANGED <<queue, running, done, closed, mem, globals, on, seen>>
      /\ UNCHANGED <<pc, call, layer, block, unset, late>>
  BY DEF vars, pool, worker, main
<1>2. TypeOK' /\ Globals' /\ Seen'
  BY <1>1 DEF Structure, TypeOK, IsArray, Globals, Seen
<1>3. OnePlace' /\ Phases' /\ Accounts'
  <2>1. Added' = Added
    BY <1>1 DEF Added
  <2> QED
    BY <1>1, <2>1, SamePlaces DEF Structure, Phases, Accounts
<1> QED
  BY <1>2, <1>3 DEF Structure

LEMMA StepStructure == ASSUME LayerParameters, Structure, [Next]_vars PROVE Structure'
<1>1. CASE Next
  BY <1>1, SetFieldStructure, AddBlockStructure, WaitStructure, DestroyStructure, TakeStructure,
     ReadStructure, EndStructure, StutterStructure
  DEF Next, Terminated
<1>2. CASE UNCHANGED vars
  BY <1>2, StutterStructure
<1> QED
  BY <1>1, <1>2

-------------------------------------------------------------------------------
(* Tasks that main has left behind *)

\* LateStaysInBounds: as long as main is in its call, a task stays inside the
\* array and the tables of roots, from whichever layers the fields come that
\* it has read: none of them is earlier than its own.
THEOREM StaysInBounds == ASSUME LayerParameters PROVE Spec => []LateStaysInBounds
<1>1. ASSUME Structure PROVE LateStaysInBounds
  <2> SUFFICES ASSUME NEW w \in Worker, on[w] # Idle, HasRead(w), on[w].call = call
               PROVE  /\ on[w].block * Pow2[seen[w].logt] + 2 * seen[w].t <= Size
                      /\ seen[w].where.m + on[w].block < Size
    BY DEF LateStaysInBounds
  <2> DEFINE b == on[w].block
             s == on[w].layer
  <2>1. on[w] \in Task
    BY <1>1 DEF Structure, TypeOK
  <2>2. s \in Layer /\ s \in Nat \ {0} /\ s <= LogN /\ b \in 0 .. Blocks(s) - 1 /\ LogN \in Nat \ {0}
        /\ layer \in Layer /\ layer \in Nat \ {0} /\ layer <= LogN
    BY <1>1, <2>1, TaskFields, Layers DEF Structure, TypeOK
  <2>3. \A f \in Field : \E r \in s .. layer : seen[w][f] = ParametersOf(call, r)[f]
    BY <1>1 DEF Structure, Seen, HasRead
  <2>4. PICK st \in s .. layer : seen[w]["t"] = ParametersOf(call, st)["t"]
    BY <2>3 DEF Field
  <2>5. PICK sl \in s .. layer : seen[w]["logt"] = ParametersOf(call, sl)["logt"]
    BY <2>3 DEF Field
  <2>6. PICK sw \in s .. layer : seen[w]["where"] = ParametersOf(call, sw)["where"]
    BY <2>3 DEF Field
  <2>7. /\ seen[w].t = Pow2[LogN - st] /\ seen[w].logt = LogN - sl + 1
        /\ seen[w].where.m = Pow2[sw - 1]
    BY <2>4, <2>5, <2>6 DEF ParametersOf, Blocks
  <2> HIDE DEF b, s
  <2>8. /\ LogN - st + 1 \in Nat /\ LogN - sl + 1 \in Nat /\ LogN - s + 1 \in Nat /\ LogN - st \in Nat
        /\ LogN - st + 1 <= LogN - s + 1 /\ LogN - sl + 1 <= LogN - s + 1
        /\ sw - 1 \in Nat /\ s - 1 \in Nat /\ LogN - 1 \in Nat /\ sw - 1 <= LogN - 1 /\ s - 1 <= LogN - 1
    BY <2>2
  <2>9. /\ 2 * Pow2[LogN - st] = Pow2[LogN - st + 1] /\ Pow2[LogN] = 2 * Pow2[LogN - 1]
        /\ Pow2[LogN - st + 1] \in Nat \ {0} /\ Pow2[LogN - sl + 1] \in Nat \ {0}
        /\ Pow2[LogN - s + 1] \in Nat \ {0} /\ Pow2[s - 1] \in Nat \ {0} /\ Pow2[sw - 1] \in Nat \ {0}
        /\ Pow2[LogN - 1] \in Nat \ {0}
    <3>1. (LogN - 1) + 1 = LogN
      BY <2>2
    <3>2. Pow2[(LogN - 1) + 1] = 2 * Pow2[LogN - 1]
      BY <2>8, Pow2Facts
    <3> QED
      BY <2>8, <3>1, <3>2, Pow2Facts
  <2>10. /\ Pow2[LogN - st + 1] <= Pow2[LogN - s + 1] /\ Pow2[LogN - sl + 1] <= Pow2[LogN - s + 1]
         /\ Pow2[sw - 1] <= Pow2[LogN - 1] /\ Pow2[s - 1] <= Pow2[LogN - 1]
    BY <2>8, PowersGrow
  <2>11. Size = Pow2[s - 1] * Pow2[LogN - s + 1] /\ Blocks(s) = Pow2[s - 1] /\ Size = Pow2[LogN]
    BY <2>2, Widths DEF Blocks, WidthOf, Size
  <2>12. \A x, y, z, n \in Nat : n \in Nat \ {0} /\ y <= z /\ x <= n - 1 => x * y + z <= n * z
    <3> SUFFICES ASSUME NEW x \in Nat, NEW y \in Nat, NEW z \in Nat, NEW n \in Nat,
                        y <= z, x <= n - 1
                 PROVE  x * y + z <= n * z
      OBVIOUS
    <3>1. x * y <= x * z
      OBVIOUS
    <3>2. (x + 1) * z <= n * z
      OBVIOUS
    <3>3. (x + 1) * z = x * z + z
      OBVIOUS
    <3> QED
      BY <3>1, <3>2, <3>3
  <2>13. b \in Nat /\ b <= Pow2[s - 1] - 1
    BY <2>2, <2>9, <2>11
  <2>14. b * Pow2[LogN - sl + 1] + Pow2[LogN - s + 1] <= Pow2[s - 1] * Pow2[LogN - s + 1]
    <3>1. Pow2[LogN - sl + 1] \in Nat /\ Pow2[LogN - s + 1] \in Nat /\ Pow2[s - 1] \in Nat
      BY <2>9
    <3> QED
      BY <2>9, <2>10, <2>12, <2>13, <3>1
  <2>15. b * Pow2[seen[w].logt] + 2 * seen[w].t <= Size
    <3> DEFINE y == Pow2[LogN - sl + 1]  z == Pow2[LogN - s + 1]  t2 == Pow2[LogN - st + 1]
    <3>1. b * Pow2[seen[w].logt] + 2 * seen[w].t = b * y + t2
      BY <2>7, <2>9
    <3>2. b * y \in Nat /\ t2 \in Nat /\ z \in Nat /\ t2 <= z
      BY <2>9, <2>10, <2>13
    <3>3. b * y + z <= Size
      BY <2>11, <2>14
    <3>4. Size \in Nat
      BY <2>2, Widths
    <3> HIDE DEF y, z, t2
    <3> QED
      BY <3>1, <3>2, <3>3, <3>4
  <2>16. seen[w].where.m + b < Size
    BY <2>7, <2>9, <2>10, <2>11, <2>13
  <2> QED
    BY <2>15, <2>16 DEF b
<1>2. Init => Structure
  BY InitStructure
<1>3. Structure /\ [Next]_vars => Structure'
  BY StepStructure
<1> QED
  BY <1>1, <1>2, <1>3, PTL DEF Spec
-------------------------------------------------------------------------------
(* The arrays after each layer *)

Start0(c) == [k \in Word |-> Given(c, k)]
LayerStep(c, s, x) == [k \in Word |-> Butterflies(x, BlockOf(s, k), ParametersOf(c, s))[k]]
IsLayered(c, n, g) == g = [s \in 0 .. n |-> IF s = 0 THEN Start0(c) ELSE LayerStep(c, s, g[s - 1])]

LEMMA SomeLayered == \A c : \A n \in Nat : \E g : IsLayered(c, n, g)
<1> SUFFICES ASSUME NEW c PROVE \A n \in Nat : \E g : IsLayered(c, n, g)
  OBVIOUS
<1> DEFINE S == {n \in Nat : ~ \E g : IsLayered(c, n, g)}
<1> SUFFICES ASSUME S # {} PROVE FALSE
  OBVIOUS
<1>1. PICK n \in S : \A i \in S : n <= i
  BY LeastElement
<1>2. CASE n = 0
  <2> DEFINE g == [s \in 0 .. 0 |-> Start0(c)]
  <2> HIDE DEF Start0, LayerStep
  <2>1. g = [s \in 0 .. 0 |-> IF s = 0 THEN Start0(c) ELSE LayerStep(c, s, g[s - 1])]
    OBVIOUS
  <2> QED
    BY <1>1, <1>2, <2>1 DEF IsLayered
<1>3. CASE n # 0
  <2>1. n \in Nat /\ n - 1 \in Nat /\ ~(n <= n - 1)
    BY <1>1, <1>3
  <2>2. PICK g : IsLayered(c, n - 1, g)
    BY <1>1, <2>1
  <2> DEFINE h == [s \in 0 .. n |-> IF s = n THEN LayerStep(c, n, g[n - 1]) ELSE g[s]]
             Next0(e, s) == IF s = 0 THEN Start0(c) ELSE LayerStep(c, s, e[s - 1])
  <2>3. \A s \in 0 .. n - 1 : g[s] = Next0(g, s)
    BY <2>2 DEF IsLayered
  <2> HIDE DEF Start0, LayerStep
  <2>4. ASSUME NEW s \in 0 .. n PROVE h[s] = Next0(h, s)
    <3>1. CASE s = n
      <4>1. n - 1 \in 0 .. n /\ n - 1 # n
        BY <2>1
      <4>2. h[n - 1] = g[n - 1] /\ h[n] = LayerStep(c, n, g[n - 1])
        BY <2>1, <4>1
      <4> QED
        BY <1>3, <3>1, <4>2
    <3>2. CASE s # n
      <4>1. s \in 0 .. n - 1 /\ h[s] = g[s]
        BY <2>1, <3>2
      <4>2. s # 0 => s - 1 \in 0 .. n /\ s - 1 # n
        BY <2>1, <3>2
      <4>3. s # 0 => h[s - 1] = g[s - 1]
        BY <4>2
      <4> QED
        BY <2>3, <4>1, <4>3
    <3> QED
      BY <3>1, <3>2
  <2>5. h = [s \in 0 .. n |-> h[s]]
    OBVIOUS
  <2> HIDE DEF h
  <2>6. h = [s \in 0 .. n |-> Next0(h, s)]
    BY <2>4, <2>5
  <2>7. IsLayered(c, n, h)
    BY <2>6 DEF IsLayered
  <2> QED
    BY <1>1, <2>7
<1> QED
  BY <1>2, <1>3

LEMMA LayeredIs ==
  ASSUME LayerParameters, NEW c
  PROVE  /\ Layered(c) = [s \in 0 .. LogN |-> Layered(c)[s]]
         /\ Layered(c)[0] = Start0(c)
         /\ \A s \in Layer : Layered(c)[s] = LayerStep(c, s, Layered(c)[s - 1])
         /\ \A s \in 0 .. LogN : IsArray(Layered(c)[s])
<1>1. Layered(c) = CHOOSE g : IsLayered(c, LogN, g)
  BY Zenon DEF Layered, IsLayered, LayerStep, Start0
<1>2. LogN \in Nat \ {0}
  BY DEF LayerParameters
<1>3. IsLayered(c, LogN, Layered(c))
  <2>1. \E g : IsLayered(c, LogN, g)
    BY <1>2, SomeLayered
  <2> QED
    BY <1>1, <2>1, Zenon
<1> HIDE DEF Start0, LayerStep
<1>4. Layered(c) = [s \in 0 .. LogN |-> IF s = 0 THEN Start0(c) ELSE LayerStep(c, s, Layered(c)[s - 1])]
  BY <1>3, Zenon DEF IsLayered
<1> HIDE DEF Layered
<1>5. \A s \in 0 .. LogN : Layered(c)[s] = IF s = 0 THEN Start0(c) ELSE LayerStep(c, s, Layered(c)[s - 1])
  BY <1>4
<1>6. Layered(c) = [s \in 0 .. LogN |-> Layered(c)[s]]
  BY <1>4
<1>7. \A s \in Layer : s \in 0 .. LogN /\ s # 0
  BY <1>2 DEF Layer
<1>8. \A s, x : IsArray(LayerStep(c, s, x)) /\ IsArray(Start0(c))
  BY DEF IsArray, LayerStep, Start0
<1>9. \A s \in 0 .. LogN : IsArray(Layered(c)[s])
  BY <1>5, <1>8
<1>10. 0 \in 0 .. LogN
  BY <1>2
<1>11. Layered(c)[0] = Start0(c)
  BY <1>5, <1>10
<1>12. \A s \in Layer : Layered(c)[s] = LayerStep(c, s, Layered(c)[s - 1])
  BY <1>5, <1>7
<1> QED
  BY <1>6, <1>9, <1>11, <1>12, Zenon

\* Transforming the blocks of a layer one after the other transforms every word
\* by the butterfly of its block.
BlocksUpTo(c, s, x) ==
  CHOOSE u : u = [i \in 0 .. Blocks(s) |-> IF i = 0 THEN x
                                           ELSE Butterflies(u[i - 1], i - 1, ParametersOf(c, s))]

LEMMA BlockByBlock ==
  ASSUME LayerParameters, NEW c, NEW s \in Layer, NEW x, IsArray(x)
  PROVE  BlocksUpTo(c, s, x)[Blocks(s)] = LayerStep(c, s, x)
<1> DEFINE n == Blocks(s)
           p == ParametersOf(c, s)
           y == LayerStep(c, s, x)
           U == [i \in 0 .. n |-> [k \in Word |-> IF BlockOf(s, k) < i THEN y[k] ELSE x[k]]]
           F(u, i) == IF i = 0 THEN x ELSE Butterflies(u[i - 1], i - 1, p)
<1>1. n \in Nat \ {0}
  BY Layers
<1>2. \A k \in Word : BlockOf(s, k) \in 0 .. n - 1
  BY BlockOfWord
<1>3. \A i \in 0 .. n, k \in Word : U[i][k] = IF BlockOf(s, k) < i THEN y[k] ELSE x[k]
  OBVIOUS
<1>4. \A i \in 0 .. n : IsArray(U[i])
  BY DEF IsArray
<1>5. \A k \in Word : y[k] = Butterflies(x, BlockOf(s, k), p)[k]
  BY DEF LayerStep
<1>6. IsArray(y)
  BY DEF IsArray, LayerStep
<1>7. U = [i \in 0 .. n |-> U[i]]
  OBVIOUS
<1> HIDE DEF U, y, n, p
<1>8. U[0] = x
  <2>1. \A k \in Word : ~(BlockOf(s, k) < 0)
    BY <1>1, <1>2
  <2>2. 0 \in 0 .. n
    BY <1>1
  <2>3. \A k \in Word : U[0][k] = x[k]
    BY <1>3, <2>1, <2>2
  <2> QED
    BY <1>4, <2>2, <2>3 DEF IsArray
<1>9. ASSUME NEW i \in 0 .. n, i # 0 PROVE U[i] = Butterflies(U[i - 1], i - 1, p)
  <2>1. i - 1 \in 0 .. n - 1 /\ i - 1 \in 0 .. n /\ i - 1 \in Nat /\ i \in Nat
    BY <1>1, <1>9
  <2>2. ASSUME NEW k \in Word PROVE U[i][k] = Butterflies(U[i - 1], i - 1, p)[k]
    <3>0. i - 1 \in 0 .. Blocks(s) - 1
      BY <2>1 DEF n
    <3>1. CASE BlockOf(s, k) = i - 1
      <4>1. \A l \in Word : BlockOf(s, l) = i - 1 => U[i - 1][l] = x[l]
        <5>1. \A l \in Word : BlockOf(s, l) = i - 1 => ~(BlockOf(s, l) < i - 1)
          BY <2>1
        <5> QED
          BY <1>3, <2>1, <5>1
      <4>2. Butterflies(U[i - 1], i - 1, p)[k] = Butterflies(x, i - 1, p)[k]
        BY <3>0, <3>1, <4>1, ButterfliesAreLocal DEF p
      <4>3. BlockOf(s, k) < i
        BY <2>1, <3>1
      <4> QED
        BY <1>3, <1>5, <3>1, <4>2, <4>3
    <3>2. CASE BlockOf(s, k) # i - 1
      <4>1. Butterflies(U[i - 1], i - 1, p)[k] = U[i - 1][k]
        BY <3>0, <3>2, ButterfliesAreLocal DEF p
      <4>2. BlockOf(s, k) < i <=> BlockOf(s, k) < i - 1
        BY <1>1, <1>2, <2>1, <3>2
      <4> QED
        BY <1>3, <2>1, <4>1, <4>2
    <3> QED
      BY <3>1, <3>2
  <2>3. IsArray(Butterflies(U[i - 1], i - 1, p))
    BY DEF IsArray, Butterflies
  <2> QED
    BY <1>4, <2>2, <2>3 DEF IsArray
<1>10. U = [i \in 0 .. n |-> F(U, i)]
  <2>1. \A i \in 0 .. n : U[i] = F(U, i)
    BY <1>8, <1>9
  <2> QED
    BY <1>7, <2>1
<1> DEFINE u == CHOOSE u : u = [i \in 0 .. n |-> F(u, i)]
<1>11. u = [i \in 0 .. n |-> F(u, i)]
  <2> HIDE DEF F
  <2> QED
    BY <1>10, Zenon
<1>12. BlocksUpTo(c, s, x) = u
  BY Zenon DEF BlocksUpTo, n, p
<1> HIDE DEF u
<1>13. \A i \in 0 .. n : u[i] = F(u, i) /\ U[i] = F(U, i)
  BY <1>10, <1>11
<1> DEFINE S == {i \in 0 .. n : u[i] # U[i]}
<1>14. ASSUME S # {} PROVE FALSE
  <2>0. S \subseteq Nat
    OBVIOUS
  <2>1. PICK i \in S : \A j \in S : i <= j
    <3> HIDE DEF S
    <3> QED
      BY <1>14, <2>0, LeastElement
  <2>2. i # 0
    BY <1>13, <2>1
  <2>3. i \in 0 .. n /\ i - 1 \in 0 .. n /\ ~(i <= i - 1)
    BY <1>1, <2>1, <2>2
  <2>4. u[i - 1] = U[i - 1]
    BY <2>1, <2>3
  <2> QED
    BY <1>13, <2>1, <2>2, <2>3, <2>4
<1>15. u[n] = U[n] /\ n \in 0 .. n
  BY <1>1, <1>14
<1>16. U[n] = y
  <2>1. \A k \in Word : BlockOf(s, k) < n
    BY <1>1, <1>2
  <2>2. \A k \in Word : U[n][k] = y[k]
    BY <1>3, <1>15, <2>1
  <2> QED
    BY <1>4, <1>6, <1>15, <2>2 DEF IsArray
<1> QED
  BY <1>12, <1>15, <1>16 DEF y, n

\* The sequential NTT computes the same.
LEMMA SequentialIsLayered ==
  ASSUME LayerParameters, NEW c PROVE Sequential(c) = Layered(c)[LogN]
<1> DEFINE F(a, s) == IF s = 0 THEN Start0(c) ELSE BlocksUpTo(c, s, a[s - 1])[Blocks(s)]
           a == CHOOSE a : a = [s \in 0 .. LogN |-> F(a, s)]
           g == Layered(c)
<1>1. Sequential(c) = a[LogN]
  BY Zenon DEF Sequential, BlocksUpTo, Start0
<1>2. /\ g = [s \in 0 .. LogN |-> g[s]] /\ g[0] = Start0(c)
      /\ \A s \in Layer : g[s] = LayerStep(c, s, g[s - 1])
      /\ \A s \in 0 .. LogN : IsArray(g[s])
  BY LayeredIs
<1>3. LogN \in Nat \ {0}
  BY DEF LayerParameters
<1> HIDE DEF g
<1>4. ASSUME NEW s \in 0 .. LogN PROVE g[s] = F(g, s)
  <2>1. CASE s = 0
    BY <1>2, <2>1
  <2>2. CASE s # 0
    <3>1. s \in Layer /\ s - 1 \in 0 .. LogN
      BY <1>3, <2>2 DEF Layer
    <3>2. IsArray(g[s - 1]) /\ g[s] = LayerStep(c, s, g[s - 1])
      BY <1>2, <3>1
    <3>3. BlocksUpTo(c, s, g[s - 1])[Blocks(s)] = LayerStep(c, s, g[s - 1])
      BY <3>1, <3>2, BlockByBlock
    <3> QED
      BY <2>2, <3>2, <3>3
  <2> QED
    BY <2>1, <2>2
<1> HIDE DEF F
<1>5. g = [s \in 0 .. LogN |-> F(g, s)]
  BY <1>2, <1>4
<1>6. a = [s \in 0 .. LogN |-> F(a, s)]
  BY <1>5, Zenon
<1> HIDE DEF a
<1>7. \A s \in 0 .. LogN : a[s] = F(a, s)
  BY <1>6
<1> DEFINE S == {s \in 0 .. LogN : a[s] # g[s]}
<1>8. ASSUME S # {} PROVE FALSE
  <2>0. S \subseteq Nat
    OBVIOUS
  <2>1. PICK s \in S : \A j \in S : s <= j
    <3> HIDE DEF S
    <3> QED
      BY <1>8, <2>0, LeastElement
  <2>2. s # 0
    BY <1>4, <1>7, <2>1 DEF F
  <2>3. s \in 0 .. LogN /\ s - 1 \in 0 .. LogN /\ ~(s <= s - 1)
    BY <1>3, <2>1, <2>2
  <2>4. a[s - 1] = g[s - 1]
    BY <2>1, <2>3
  <2>5. F(a, s) = F(g, s)
    BY <2>4 DEF F
  <2> QED
    BY <1>4, <1>7, <2>1, <2>3, <2>5
<1>9. a[LogN] = g[LogN]
  BY <1>3, <1>8
<1> QED
  BY <1>1, <1>9 DEF g
-------------------------------------------------------------------------------
(* Calm executions *)

BlockTask(k) == [call |-> call, layer |-> layer, block |-> BlockOf(layer, k)]

LEMMA BlockTaskIsTask ==
  ASSUME LayerParameters, TypeOK, NEW k \in Word
  PROVE  /\ BlockTask(k) \in Task
         /\ BlockTask(k).call = call /\ BlockTask(k).layer = layer /\ BlockTask(k).block = BlockOf(layer, k)
<1>1. call \in 1 .. Calls /\ layer \in Layer /\ BlockOf(layer, k) \in 0 .. Blocks(layer) - 1
  BY BlockOfWord DEF TypeOK
<1> QED
  BY <1>1, BlockIsTask DEF BlockTask

\* The words of an array in a calm state.
LEMMA LayerMemoryIs ==
  LayerMemory <=>
    \A c \in 1 .. Calls, k \in Word :
      mem[c][k] = IF c < call THEN Layered(c)[LogN][k]
                  ELSE IF c > call THEN Given(c, k)
                  ELSE IF [call |-> c, layer |-> layer, block |-> BlockOf(layer, k)] \in done
                  THEN Layered(c)[layer][k] ELSE Layered(c)[layer - 1][k]
BY Zenon DEF LayerMemory

LEMMA InitCalm == ASSUME LayerParameters, Init PROVE Calm
<1>1. /\ queue = << >> /\ running = {} /\ done = {} /\ call = 1 /\ layer = 1
      /\ mem = [c \in 1 .. Calls |-> [k \in Word |-> Given(c, k)]]
  BY DEF Init, P!PoolInit
<1>2. Unfinished = {}
  BY <1>1 DEF Unfinished, P!Queued
<1>3. \A c \in 1 .. Calls : Layered(c)[0] = [k \in Word |-> Given(c, k)]
  BY LayeredIs DEF Start0
<1>4. LayerMemory
  <2>1. ASSUME NEW c \in 1 .. Calls, NEW k \in Word PROVE mem[c][k] = Given(c, k) /\ Layered(c)[0][k] = Given(c, k) /\ ~(c < call)
    BY <1>1, <1>3
  <2> QED
    BY <1>1, <2>1, LayerMemoryIs
<1> QED
  BY <1>2, <1>4 DEF Calm

\* Steps that leave the arrays, what is done and main's place alone.
LEMMA SameCalm ==
  ASSUME Calm, Unfinished' = Unfinished, UNCHANGED <<mem, done, call, layer>> PROVE Calm'
BY DEF Calm, LayerMemory

LEMMA AddBlockCalm == ASSUME IInv, LayerParameters, AddBlock, ~late' PROVE Calm'
<1> DEFINE j == [call |-> call, layer |-> layer, block |-> block]
<1>1. UNCHANGED <<running, done, mem, call, layer, late, on>> /\ queue' = Append(queue, j)
      /\ j \notin Unfinished \cup done /\ pc = "add"
  BY DEF AddBlock, P!Add, worker, Unfinished
<1>2. Calm
  BY <1>1 DEF IInv
<1>3. Unfinished' = Unfinished \cup {j}
  <2>1. queue \in Seq(Task)
    BY DEF IInv, Structure, TypeOK
  <2>2. block \in 0 .. Blocks(layer) - 1 /\ call \in 1 .. Calls /\ layer \in Layer
    BY <1>1, Layers DEF IInv, Structure, TypeOK, Phases
  <2>3. j \in Task
    BY <2>2, BlockIsTask
  <2> HIDE DEF j
  <2> QED
    BY <1>1, <2>3, AddMoves DEF IInv, Structure
<1>4. j.call = call /\ j.layer = layer
  OBVIOUS
<1> HIDE DEF j
<1>5. \A i \in Unfinished' : i.call = call' /\ i.layer = layer'
  BY <1>1, <1>2, <1>3, <1>4 DEF Calm
<1>6. LayerMemory'
  BY <1>1, <1>2 DEF Calm, LayerMemory
<1> QED
  BY <1>5, <1>6 DEF Calm

LEMMA EndCalm == ASSUME IInv, LayerParameters, NEW w \in Worker, End(w), ~late' PROVE Calm'
<1> DEFINE j == on[w]
           p == ParametersOf(call, layer)
<1>1. UNCHANGED <<call, layer, late>> /\ HasRead(w) /\ on[w] # Idle
      /\ mem' = [mem EXCEPT ![seen[w].where.call] = Butterflies(@, on[w].block, seen[w])]
  BY DEF End, main
<1>2. Calm /\ Structure /\ TypeOK
  BY <1>1 DEF IInv, Structure
<1>3. /\ j \in Task /\ j \in Unfinished /\ done' = done \cup {j} /\ Unfinished' = Unfinished \ {j}
  BY <1>2, EndMoves DEF Structure
<1>4. j.call = call /\ j.layer = layer
  BY <1>2, <1>3 DEF Calm
<1>5. j.block \in 0 .. Blocks(layer) - 1 /\ j = [call |-> call, layer |-> layer, block |-> j.block]
      /\ layer \in Layer /\ call \in 1 .. Calls /\ layer \in Nat
  BY <1>2, <1>3, <1>4, TaskFields, Layers DEF TypeOK
<1>6. \A f \in Field : seen[w][f] = p[f]
  <2>1. \A s \in layer .. layer : s = layer
    BY <1>5
  <2>2. \A f \in Field : \E s \in layer .. layer : seen[w][f] = ParametersOf(call, s)[f]
    BY <1>1, <1>2, <1>4, Zenon DEF Structure, Seen, HasRead
  <2> QED
    BY <2>1, <2>2, Zenon
<1>7. seen[w].where = p.where /\ seen[w].t = p.t /\ seen[w].logt = p.logt /\ p.where.call = call
  BY <1>6 DEF Field, ParametersOf
<1> HIDE DEF p
<1>8. \A x : Butterflies(x, j.block, seen[w]) = Butterflies(x, j.block, p)
  <2>1. ASSUME NEW r, NEW s, r.where = s.where, r.t = s.t, r.logt = s.logt, NEW x, NEW i
        PROVE  Butterflies(x, i, r) = Butterflies(x, i, s)
    BY <2>1, Zenon DEF Butterflies
  <2> QED
    BY <1>7, <2>1
<1>9. /\ mem'[call] = Butterflies(mem[call], j.block, p)
      /\ \A c \in 1 .. Calls : c # call => mem'[c] = mem[c]
  <2>1. mem' = [mem EXCEPT ![call] = Butterflies(@, j.block, seen[w])]
    BY <1>1, <1>7
  <2>2. mem = [c \in 1 .. Calls |-> mem[c]]
    BY <1>2 DEF TypeOK
  <2>3. mem'[call] = Butterflies(mem[call], j.block, seen[w]) /\ \A c \in 1 .. Calls : c # call => mem'[c] = mem[c]
    BY <1>5, <2>1, <2>2
  <2> QED
    BY <1>8, <2>3
<1>10. j \notin done
  BY <1>2, <1>3 DEF Structure, OnePlace
<1>11. \A k \in Word : BlockTask(k) = j <=> BlockOf(layer, k) = j.block
  <2> TAKE k \in Word
  <2>1. BlockTask(k).block = BlockOf(layer, k)
    BY <1>2, BlockTaskIsTask
  <2> QED
    BY <1>5, <2>1 DEF BlockTask
<1> HIDE DEF j
<1>12. \A k \in Word :
         mem[call][k] = IF BlockTask(k) \in done THEN Layered(call)[layer][k] ELSE Layered(call)[layer - 1][k]
  <2>1. ~(call < call) /\ ~(call > call)
    BY <1>5
  <2>2. LayerMemory
    BY <1>2 DEF Calm
  <2> QED
    BY <1>5, <2>1, <2>2, LayerMemoryIs DEF BlockTask
<1>13. ASSUME NEW k \in Word
       PROVE  mem'[call][k] = IF BlockTask(k) \in done' THEN Layered(call)[layer][k]
                              ELSE Layered(call)[layer - 1][k]
  <2>1. CASE BlockOf(layer, k) = j.block
    <3>1. \A l \in Word : BlockOf(layer, l) = j.block => mem[call][l] = Layered(call)[layer - 1][l]
      BY <1>10, <1>11, <1>12
    <3>2. Butterflies(mem[call], j.block, p)[k] = Butterflies(Layered(call)[layer - 1], j.block, p)[k]
      BY <1>5, <2>1, <3>1, ButterfliesAreLocal DEF p
    <3>3. Layered(call)[layer] = LayerStep(call, layer, Layered(call)[layer - 1])
      BY <1>5, LayeredIs
    <3>4. Layered(call)[layer][k] = Butterflies(Layered(call)[layer - 1], j.block, p)[k]
      BY <2>1, <3>3 DEF LayerStep, p
    <3>5. BlockTask(k) \in done'
      BY <1>3, <1>11, <2>1
    <3> QED
      BY <1>9, <3>2, <3>4, <3>5
  <2>2. CASE BlockOf(layer, k) # j.block
    <3>1. Butterflies(mem[call], j.block, p)[k] = mem[call][k]
      BY <1>5, <2>2, ButterfliesAreLocal DEF p
    <3>2. BlockTask(k) \in done' <=> BlockTask(k) \in done
      BY <1>3, <1>11, <2>2
    <3> QED
      BY <1>9, <1>12, <3>1, <3>2
  <2> QED
    BY <2>1, <2>2
<1>14. LayerMemory'
  <2>1. ASSUME NEW c \in 1 .. Calls, NEW k \in Word
        PROVE  mem'[c][k] = IF c < call THEN Layered(c)[LogN][k]
                            ELSE IF c > call THEN Given(c, k)
                            ELSE IF [call |-> c, layer |-> layer, block |-> BlockOf(layer, k)] \in done'
                            THEN Layered(c)[layer][k] ELSE Layered(c)[layer - 1][k]
    <3>1. CASE c = call
      <4>1. ~(c < call) /\ ~(c > call)
        BY <1>5, <3>1
      <4> QED
        BY <1>13, <3>1, <4>1 DEF BlockTask
    <3>2. CASE c # call
      <4>1. c < call \/ c > call
        BY <1>5, <3>2
      <4>2. LayerMemory
        BY <1>2 DEF Calm
      <4> QED
        BY <1>9, <3>2, <4>1, <4>2, LayerMemoryIs
    <3> QED
      BY <3>1, <3>2
  <2> QED
    BY <1>1, <2>1, Zenon DEF LayerMemory
<1>15. \A i \in Unfinished' : i.call = call' /\ i.layer = layer'
  BY <1>1, <1>2, <1>3 DEF Calm
<1> QED
  BY <1>14, <1>15 DEF Calm

\* When no task is unfinished and main waits, the layer is done.
LEMMA LayerDone ==
  ASSUME LayerParameters, Structure, LayerMemory, pc # "add", Unfinished = {}, NEW k \in Word
  PROVE  BlockTask(k) \in done /\ mem[call][k] = Layered(call)[layer][k]
<1>1. BlockTask(k) \in Task /\ BlockTask(k).call = call /\ BlockTask(k).layer = layer
  BY BlockTaskIsTask DEF Structure
<1>2. BlockTask(k) \in Added
  BY <1>1 DEF Added
<1>3. BlockTask(k) \in done
  BY <1>2 DEF Structure, Accounts
<1>4. call \in 1 .. Calls /\ ~(call < call) /\ ~(call > call)
  BY DEF Structure, TypeOK
<1> QED
  BY <1>3, <1>4, LayerMemoryIs DEF BlockTask

LEMMA WaitCalm == ASSUME IInv, LayerParameters, Wait, ~late' PROVE Calm'
<1>1. /\ UNCHANGED <<queue, running, done, mem>> /\ pc = "wait"
      /\ pc' = IF layer = LogN /\ call = Calls THEN "destroy" ELSE "add"
      /\ late' = (late \/ (pc' = "add" /\ Unfinished # {}))
  BY DEF Wait, WaitIsOver, pool, worker
<1>2. \/ layer < LogN /\ layer' = layer + 1 /\ call' = call
      \/ ~(layer < LogN) /\ call < Calls /\ layer' = 1 /\ call' = call + 1
      \/ ~(layer < LogN) /\ ~(call < Calls) /\ layer' = layer /\ call' = call
  BY DEF Wait
<1>3. /\ layer \in Layer /\ layer \in Nat \ {0} /\ layer <= LogN /\ LogN \in Nat \ {0}
      /\ call \in 1 .. Calls /\ Calls \in Nat \ {0} /\ call \in Nat
  BY Layers DEF IInv, Structure, TypeOK
<1>4. Unfinished' = Unfinished /\ late \in BOOLEAN
  BY <1>1 DEF Unfinished, P!Queued, IInv, Structure, TypeOK
<1>5. ~late /\ Structure /\ Calm /\ LayerMemory
  BY <1>1, <1>4 DEF IInv, Calm
<1>6. CASE ~(layer < LogN) /\ ~(call < Calls)
  <2>1. layer' = layer /\ call' = call
    BY <1>2, <1>6
  <2> QED
    BY <1>1, <1>4, <1>5, <2>1, SameCalm
<1>7. CASE layer < LogN \/ call < Calls
  <2>0. ~(layer = LogN /\ call = Calls)
    BY <1>3, <1>7
  <2>1. pc' = "add" /\ Unfinished = {}
    BY <1>1, <2>0, Zenon
  <2>2. \A k \in Word : mem[call][k] = Layered(call)[layer][k]
    BY <1>1, <1>5, <2>1, LayerDone
  <2>3. \A j \in done : j \in Added /\ j \in Task
    BY <1>5 DEF Structure, Accounts, Added
  <2>4. ASSUME NEW c \in 1 .. Calls, NEW k \in Word
        PROVE  mem'[c][k] = IF c < call' THEN Layered(c)[LogN][k]
                            ELSE IF c > call' THEN Given(c, k)
                            ELSE IF [call |-> c, layer |-> layer', block |-> BlockOf(layer', k)] \in done'
                            THEN Layered(c)[layer'][k] ELSE Layered(c)[layer' - 1][k]
    <3>0. mem[c][k] = IF c < call THEN Layered(c)[LogN][k]
                      ELSE IF c > call THEN Given(c, k) ELSE Layered(call)[layer][k]
      <4>1. c < call \/ c > call \/ c = call
        BY <1>3
      <4> QED
        BY <1>3, <1>5, <2>2, <4>1, LayerMemoryIs
    <3>1. CASE layer < LogN
      <4>1. layer' = layer + 1 /\ layer' - 1 = layer /\ call' = call
        BY <1>2, <1>3, <3>1
      <4> DEFINE j == [call |-> c, layer |-> layer', block |-> BlockOf(layer', k)]
      <4>2. j.layer = layer' /\ j.call = c
        OBVIOUS
      <4> HIDE DEF j
      <4>3. c = call => j \notin Added
        BY <1>3, <4>1, <4>2 DEF Added
      <4>4. c = call => j \notin done'
        BY <1>1, <2>3, <4>3
      <4>5. c < call \/ c > call \/ c = call
        BY <1>3
      <4> QED
        BY <1>1, <1>3, <3>0, <4>1, <4>4, <4>5 DEF j
    <3>2. CASE ~(layer < LogN)
      <4>1. layer = LogN /\ layer' = 1 /\ call' = call + 1 /\ layer' - 1 = 0
        BY <1>2, <1>3, <1>7, <3>2
      <4> DEFINE j == [call |-> c, layer |-> layer', block |-> BlockOf(layer', k)]
      <4>2. j.layer = layer' /\ j.call = c
        OBVIOUS
      <4> HIDE DEF j
      <4>3. c = call' => j \notin Added
        BY <1>3, <4>1, <4>2 DEF Added
      <4>4. c = call' => j \notin done'
        BY <1>1, <2>3, <4>3
      <4>5. Layered(c)[0][k] = Given(c, k)
        <5>1. Layered(c)[0] = Start0(c)
          BY LayeredIs, Zenon
        <5> QED
          BY <5>1 DEF Start0
      <4>6. c < call' => mem'[c][k] = Layered(c)[LogN][k]
        BY <1>1, <1>3, <3>0, <4>1
      <4>7. ~(c < call') => mem'[c][k] = Given(c, k)
        BY <1>1, <1>3, <3>0, <4>1
      <4>8. ~(c < call') /\ ~(c > call') => c = call'
        BY <1>3, <4>1
      <4> QED
        BY <4>1, <4>4, <4>5, <4>6, <4>7, <4>8 DEF j
    <3> QED
      BY <3>1, <3>2
  <2>5. LayerMemory'
    BY <2>4, Zenon DEF LayerMemory
  <2> QED
    BY <1>4, <2>1, <2>5 DEF Calm
<1> QED
  BY <1>6, <1>7

LEMMA StepCalm == ASSUME LayerParameters, IInv, [Next]_vars, ~late' PROVE Calm'
<1>1. ASSUME NEW w \in Worker, Take(w) PROVE Calm'
  <2>1. UNCHANGED <<mem, done, call, layer, late>>
    BY <1>1 DEF Take, P!Start, main
  <2>2. Unfinished' = Unfinished
    BY <1>1, TakeMoves DEF IInv, Structure
  <2> QED
    BY <2>1, <2>2, SameCalm DEF IInv
<1>2. ASSUME NEW w \in Worker, Read(w) PROVE Calm'
  <2>1. UNCHANGED <<queue, running, mem, done, call, layer, late>>
    BY <1>2 DEF Read, pool, main
  <2>2. Unfinished' = Unfinished
    BY <2>1 DEF Unfinished, P!Queued
  <2> QED
    BY <2>1, <2>2, SameCalm DEF IInv
<1>3. CASE SetField \/ Destroy \/ UNCHANGED vars
  <2>1. UNCHANGED <<queue, running, mem, done, call, layer, late>>
    BY <1>3 DEF SetField, Destroy, P!Close, vars, pool, worker, main
  <2>2. Unfinished' = Unfinished
    BY <2>1 DEF Unfinished, P!Queued
  <2> QED
    BY <2>1, <2>2, SameCalm DEF IInv
<1> QED
  BY <1>1, <1>2, <1>3, EndCalm, AddBlockCalm, WaitCalm DEF Next, Terminated

\* The types, where main is, where the tasks are and what they have read; and
\* in calm states how far the blocks of the array have got.
THEOREM Invariance == ASSUME LayerParameters PROVE Spec => []IInv
<1>1. Init => IInv
  BY InitStructure, InitCalm DEF IInv
<1>2. IInv /\ [Next]_vars => IInv'
  BY StepStructure, StepCalm DEF IInv
<1> QED
  BY <1>1, <1>2, PTL DEF Spec

\* CalmIsSequentialNTT: when the pool has been destroyed and main never went
\* on while a task was unfinished, every array is the one the sequential NTT
\* computes, in whatever order the tasks of each layer ran.
THEOREM CalmEndsAsSequential == ASSUME LayerParameters PROVE Spec => []CalmIsSequentialNTT
<1>1. ASSUME IInv PROVE CalmIsSequentialNTT
  <2> SUFFICES ASSUME closed, ~late, NEW c \in 1 .. Calls PROVE mem[c] = Sequential(c)
    BY DEF CalmIsSequentialNTT
  <2>1. Structure /\ LayerMemory /\ TypeOK
    BY <1>1 DEF IInv, Calm, Structure
  <2>2. pc = "destroy" /\ Unfinished = {} /\ layer = LogN /\ call = Calls
    BY <2>1 DEF Structure, Phases
  <2>3. \A k \in Word : mem[c][k] = Layered(c)[LogN][k]
    <3>1. CASE c = call
      BY <2>1, <2>2, <3>1, LayerDone
    <3>2. CASE c # call
      <4>1. c < call
        BY <2>2, <3>2, Layers
      <4> QED
        BY <2>1, <4>1, LayerMemoryIs
    <3> QED
      BY <3>1, <3>2
  <2>4. IsArray(mem[c])
    BY <2>1 DEF TypeOK
  <2>5. IsArray(Layered(c)[LogN])
    <3>1. LogN \in 0 .. LogN
      BY Layers
    <3> QED
      BY <3>1, LayeredIs
  <2>6. mem[c] = Layered(c)[LogN]
    BY <2>3, <2>4, <2>5 DEF IsArray
  <2> QED
    BY <2>6, SequentialIsLayered
<1> QED
  BY <1>1, Invariance, PTL
===============================================================================
