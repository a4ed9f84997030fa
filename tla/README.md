# A verification project for fullrns-heaan-riscv

The repository is a full-RNS implementation of the approximate homomorphic
encryption scheme HEAAN (CKKS) with number-theoretic transforms accelerated for
RISC-V: by a four-step decomposition, by vector instructions, by instructions of
its own (`set_mod`, modular additions and multiplications) simulated in gem5, and by
a thread pool. This directory models the library's own logic in TLA+, checks small
instances with TLC and proves with TLAPS, for every size, the safety of the thread pool, of
both multi-threaded NTTs and of the branch predictor, and the correctness of the NTT, of the residue number system and of
the homomorphic operations. `PROJECT.json` maps every definition to the lines it translates.

    tlc -workers 2 -config ThreadPool.cfg ThreadPool     # any run of the table below
    tlapm ThreadPoolProofs.tla                           # the proofs

## 1. The system

| component | state | operations | what makes it correct |
|---|---|---|---|
| thread pool (`ThreadPool.cpp`) | linked list of tasks with head, tail and size, shutdown flag, a mutex and a condition variable | create, add_task, wait, destroy, task_num, the workers' loop | list and size agree; each node has one owner; each task runs exactly once; nobody sleeps while there is work; destroy ends |
| multi-threaded four-step NTT (`multi_threading_acc.h`, `RVV_Ext_NTT.cpp`) | the static struct `global_args`, the array, a second buffer, each thread's FHEMod register | transpose, add row tasks, wait; row NTT tasks; `set_mod` tasks | the array equals what the sequential template computes; tasks see their own arguments |
| sequential four-step, vector and instruction NTTs (`Step4NTTUtil.h`, `Step4_NTT.cpp`, `RVV_NTT.cpp`, `RVV_Ext_NTT.cpp`, `ExtUtil.cpp`, `Ext_Step4_NTT.cpp`, `MatrixUtils`) | one array, vector registers | butterflies, transpositions | the same values as the scalar NTT |
| NTT and residue polynomials (`Context.cpp`, `Numb.cpp`, `utils.h`) | tables of roots and Barrett/Montgomery constants; words modulo one prime | NTT, inverse NTT, add, multiply, negate, rotate, conjugate | words stand for the right ring element although they are not fully reduced |
| residue number system (`Context.cpp`) | residues modulo q_1..q_l and p_1..p_K; conversion tables per level | raise, back, reScale, modDown, eval, mulKey | the integer the residues stand for changes as it should, up to the approximation's error |
| scheme (`Scheme.cpp`, `Ciphertext`, `Key`, `SecretKey`) | ciphertexts (ax, bx, l), key maps | key generation, encrypt, decrypt, arithmetic, rescaling, rotations | decrypting gives the function of the plaintexts up to bounded noise |
| algorithms (`SchemeAlgo.cpp`) | ciphertexts and their levels | powers, products, inverse, Taylor series, sums over slots, FFT | operands of every operation have equal levels and scales |
| direct multi-threaded NTT (`RVV_NTT.cpp`) | the static struct `ori_global`, the array | one task per block, a wait per layer | layers follow one another; tasks stay inside the array |
| prime and root search (`Numb.cpp`, constructor of `Context`) | the primes found so far, the tables of each | primeTest, findPrimeFactors, findPrimitiveRoot, the three searches | distinct primes, 1 modulo 2N; roots of order 2N; writes stay where there is room |
| encoding (`Context.cpp`) | the vector being transformed, the words | encode, decode, their single forms, complex FFT and its inverse | the polynomial has the numbers as its values; decode undoes encode |
| sampling (`Context.cpp`, `SecretKey.cpp`) | the rows of words being filled | sampleGauss, sampleZO, sampleUniform, sampleHWT | rows are residues of one small polynomial |
| transpositions in place (`MatrixUtils.cpp`, `MatrixUtils.h`) | the matrix, the recursion | trip_mtp, dep_mtp | the transposed matrix, for every shape |
| gem5: instructions (`fhe.isa`, `decoder.isa`) | FHEMod | modular instructions | an instruction computes what the software does |
| gem5: branch predictor (`c910_bi_mode.cc`) | tables of counters, global history | lookup, updateHistories, squash, update | the history is the path being fetched, whatever was squashed; counters are trained at the index that was read |
| toolchain tables, utilities, tests, scripts, build files | – | – | – |

How they interact: `SchemeAlgo` calls `Scheme`, which calls `Context` on residue polynomials and
allocates a ciphertext's buffers according to its level. `Context::NTTAndEqual` calls one NTT
variant (chosen by Kconfig) per modulus; the multi-threaded ones hand rows to
`Context::thread_pool`, which `Context` creates and `~Context` destroys. Tasks get no arguments
but a row number: all else is read from `global_args` when they run.

What is hard, and no test of the repository reaches:

- *Interleaving.* The main thread works ahead of the workers: it overwrites `global_args` and
  transposes rows in place while tasks run; `thread_pool_wait` waits for an empty list, not for
  finished tasks. Nodes are freed and reallocated concurrently; a condition variable
  is signalled once per task and may wake threads spuriously.
- *Lazy reduction.* NTT words range up to q, inverse NTT words up to 2q, raised
  polynomials enter the NTT with words above their modulus. Every comparison with 0 or q relies on
  how far from reduced its operand can be.
- *Approximation.* Raising and bringing back convert bases approximately; rounding and key
  noise must stay below bounds that depend on the level.
- *Boundaries of searches and recursions.* The search for primes tests two candidates per round and its bound
  once; the transposition recurses over sides that are not powers of two; slots may be fewer than the ring has.
- *Speculation.* The predictor's history runs ahead of the program and is restored from records of branches in flight.
- *Levels.* Few operations check that their operands have equal levels. `multAndEqual` writes past
  the end of a buffer if they differ; algorithms must line levels up themselves.

There are no crashes, messages or timeouts: nothing is persisted and nothing is remote.

## 2. The modules

| module | models | depends on |
|---|---|---|
| `TaskPool` | abstract: what the pool promises its client | – |
| `ThreadPool` | `ThreadPool.cpp`, a critical section or stretch of unlocked code per action | `TaskPool` (refined) |
| `Numbers` | powers of two, sums, products and common factors, in a form that can be reasoned about (operators) | – |
| `ThreadPoolProofs`, `MtStep4NTTProofs`, `MtLayersProofs`, `NttProofs` | the theorems of section 5, each about the module it is named after | that module, `Lemmas`, TLAPS |
| `SchemeProofs` | the theorems about `Scheme` and `SchemeAlgo` | these two, `RnsLemmas`, TLAPS |
| `ContextProofs` | the theorems about `RnsContext`, `ContextSetup`, `Sampling` and `C910BiModeBP` | these four, `RnsLemmas`, TLAPS |
| `RnsLemmas` | what the operations of `Rns` compute; for `ContextProofs` and `SchemeProofs` | `Rns`, `Lemmas`, TLAPS |
| `Lemmas` | what these proofs share: division, congruences, inverses, sums and products, queues | `Numbers`, TLAPS |
| `MtStep4NTT` | `MT_STEP4NTT_TEMPLATE_IMPLEMENT`, its tasks and its callers, on top of the pool | `TaskPool` (composed) |
| `MtLayers` | `mt_rvv_ori_qiNTTAndEqual_withBar`: a layer of tasks after the other, parameters field by field | `TaskPool` (composed), `Numbers` |
| `NttTables` | the tables of a modulus and the modular multiplications, on machine words (operators) | `Numbers` |
| `NttLayers` | one layer of the NTT of a row in each variant: which words a butterfly or a vector takes, and with which comparisons it reduces (operators) | `NttTables` |
| `Ntt` | one residue polynomial: NTT in any variant, direct or four-step, inverse NTT and operations | `NttLayers` |
| `Rns` | the tables and conversions of the residue number system, on one coefficient (operators) | `Numbers` |
| `RnsInteger` | abstract: what conversions do to the integer behind the residues | – |
| `RnsContext` | sequences of conversions | `Rns`, `RnsInteger` (refined) |
| `ContextSetup` | the constructor's search for primes, and what it computes for each | `Numbers` |
| `Encoding` | encode, decode and the FFTs, layer by layer | – |
| `Sampling` | the samplers, with any outcome of rand() | – |
| `Transposition` | trip_mtp call by call and dep_mtp pass by pass | – |
| `C910BiModeBP` | the branch predictor with branches in flight | `Numbers` |
| `Scheme` | keys, encryption and homomorphic operations on two ciphertexts | `Rns` |
| `Rotation` | rotations by any amount and sums over slots, from keys for powers of two | – |
| `SchemeAlgo` | the algorithms, with the levels and scales of ciphertexts | `Numbers` |
| `MCScheme` | for TLC: `Scheme`, `Rotation` or `SchemeAlgo` | these three |
| `MCContext` | for TLC: `RnsContext`, `ContextSetup`, `Encoding`, `Sampling`, `Transposition` or `C910BiModeBP` | these six |
| other `MC*` | values of constants for TLC | |

`MCScheme` and `MCContext` hold parts that share no state and call one another only through results the
other takes as constants. One part is chosen in the initial state and the others stay idle, so a run of
such a module is the disjoint union of the parts' state spaces; its properties are those of the parts. The part
whose tables are expensive and the parts with theorems are EXTENDed, the others are instances. The definitions of C910BiModeBP, ContextSetup, Sampling
and SchemeAlgo are therefore called `PredictorInit`, `SetupNext`, `SamplingSpec`, `AlgoNext` and so on, and N is `Columns` in Sampling.

### ThreadPool

A critical section of `pool->lock` is one action and needs no lock variable, because every access
to shared fields is inside one; the release inside `pthread_cond_wait` splits the worker's loop.
`pc[w] = "loop"` is a worker about to get the mutex and test the loop condition: a new one, one that finished a
task, or one that was woken. `WorkerWait`, `WorkerExit`, `WorkerTake` are the three outcomes of the test;
`WorkerRun` is the task's function with the `free` after it, outside the mutex. The list is not a sequence but
`head`, `tail`, `size` and `next`, on addresses that `AddAlloc` (malloc) may
reuse as soon as they are freed; `fifo` is a history variable that says what the list should be.
`Signal` wakes one sleeper, `SpuriousWakeup` any at any time. The client (there is one: the main
thread) calls add, wait and destroy in any order.

### MtStep4NTT

Main's program is `BeginCall` (moduli into `global_args`), `AddSetMod` (only in the variant for the
FHE instructions), then for both passes `EnterPass`, `TransposeBlock` and `AddRow`, with `Wait`
between the passes, and `Return` to the loop of `NTTAndEqual` or `Destroy` from `~Context`. Workers
`Begin` (take a task, read `global_args`) and `End` (write the row). Coefficients are symbolic terms - which pass,
tables, modulus, twiddle row and inputs produced them - so two runs agree on an
array exactly if the same operations reached every coefficient in the same order.

Whenever main passes a wait, or returns, while a task is unfinished, the program races: what a
task reads afterwards depends on instruction timing. The history variable `late` records this.
The properties claim correct results for executions in which it stays FALSE; that
the others exist is a finding, not an assumption.

### MtLayers

The direct NTT in `mt_rvv_ori_qiNTTAndEqual_withBar` has no second buffer and no row tasks: main writes the layer's
parameters into `ori_global`, adds a task per block and waits for an empty queue before the next layer. Nothing orders the task's reads
of the fields and main's writes of the next layer's, so `Read` and `SetField` take one field each, in any order; the fields
that tell where a task works (m, data, tables) are one. `late` is as in MtStep4NTT. `CalmIsSequentialNTT` is
what holds if waits happen to be long enough; `LateStaysInBounds` is what holds even if they are not. (Of the array,
that is: a task that is still running when main is in the *next* call is not covered, and with one block again there it does leave the bounds.)

### Ntt

`LayerOf` and `InverseLayerOf` are one pass of the butterfly loops, with Barrett and Montgomery
multiplication as in the code, modulo 2^Word. `poly` is a history variable: the ring element. Operations
change it by their definition in Z_q[X]/(X^N+1) (`Automorphism`, `Times`), and the
words by what the code does. `StandsFor` compares them after every layer: with b blocks, block i is
the remainder of `poly` modulo X^(N/b) - z_i. The second operand of additions and multiplications is given as
a polynomial, `OperandPoly`, and as words, `Operand`, that are its values.

`Lanes` is the set of the lower words a variant's layer visits: all of them one by one; unrolled, a few and then a stride;
vectors within a block; vectors across blocks in the last layers (`rvv_mont`); in `rvv_bar`, whose loops are in comments, one vector of each block and one set of blocks. Every variant has to visit each pair
once, and a vector that reaches into another block or misses a remainder breaks `StandsFor`. Butterflies of a layer
are disjoint, so their order within it does not matter. `VLMax` and `Cut` are the 8 and 8 of the code;
`FitsVector` is the row length below which `rvv_mont` and `rvv_bar` would reach beyond the row.

The four-step NTT is `BeginStep4` (transpose, with rows of length N1), layers on all rows, `Step4Rows` (transpose back,
multiply by `Wmatrix`, rows of length N2), layers again, and the result is the one of the direct NTT. Between those, `form` is
"cols" or "rows", and each row is the remainder of a row of `Columns`, or of `Rows`: the transposed coefficients, and the values of
the columns times the powers of psi.

`BeginINTT` and `qiNegate` require words up to q and `LeftRotShift` words below q; that is what callers
give them (they follow a multiplication or an NTT of reduced words). `conjugateAndEqual` swaps each pair twice
in the code, so the words stay as they are, and the model takes that for what it does: nothing calls it and no text says what it is for, though by its name it should conjugate, as `conjugate` does.

Constants that are added or multiplied may be far above the modulus, as a real number times p is.

### ContextSetup

One action tests one candidate. The first prime is sought upwards from 2^Q0Bits; the others are sought on both sides of 2^logp, two
candidates per round and the loop's bound once per round, which is why `behind` counts primes written behind qVec.
primeTest draws two hundred random bases; the model takes all bases, which two hundred miss with negligible
probability. `Q0Bits` is 9 for the code's 61, and no candidate is below 0, where unsigned arithmetic would wrap around (the
constructor warns when it comes near). A modulus given on the command line may be any number: where `invMod` finds no inverse - no root, or a factor
common to two moduli - the constructor throws (`Throw`).

### Encoding

Complex numbers are exact: pairs of integers modulo a prime 3 modulo 4, where i and the needed roots of unity exist. Every
sum, product and root of the code is an operation of that field, so the algebra of the FFT, the bit reversal and the places of slots in
the polynomial are the code's; rounding is not modelled. Fewer slots than N / 2 are spread with gaps, as in the code.

### Sampling

A step writes one coefficient in all rows. What rand() returns is any of its outcomes, RAND_MAX included: then sampleUniform writes the
modulus itself and sampleHWT a column that is not there (the history `drewMax` marks both, `overrun` a write behind the last row). Distributions are not modelled.

### Transposition

The recursion of trip_mtp is a stack of calls; reversals, splits and merges are the code's. dep_mtp is three permutations, one action each.

### C910BiModeBP

`flight` holds the branches fetched and not committed, with the BPHistory the predictor gave each. gem5's BPredUnit, which calls the predictor, is not
in the repository (external): it predicts in fetch order, squashes the youngest first, corrects a mispredicted branch and commits the oldest first.
What branches do, and when they are squashed, is arbitrary. Tables are sparse; the history has the code's least width of 22 bits. The bitwise
exclusive or is a constant operator: the proofs hold for any.

### Rns, RnsContext, RnsInteger

The base conversions with their per-level tables, on one coefficient. `RnsContext` applies them in any order and refines
`RnsInteger`, where raising adds an unknown multiple of Q below l*Q, coming
back divides by P with a loss below K, and rescaling is exact division. The abstract
specification is the one a noise analysis of the scheme uses.

### Scheme

Polynomials are kept by coefficients in a ring of degree 4 (that values multiply, rotate and conjugate alike is
checked in `Ntt`). `SwitchKey` is the common part of `addMultKey`, `addConjKey` and `addLeftRotKey`, `KeySwitch`
that of multiplication, conjugation and rotation. A ciphertext carries a history: `t`, what it
should decrypt to, `err`, the noise it may have by the usual analysis, and `fits`, whether that has
always been below half the modulus. Samplers are external: their results are constants, those of an encryption (`vx` and the two errors) any element of
`Samples`. `held` is the set of keys there are: an operation without its key throws, which changes nothing, except `squareAndEqual`, which leaves zeros
(`SquareWithoutKey`); of such a ciphertext nothing is claimed. `Add` also takes a second operand of a higher level, as `add` does, which compares no
levels; all other operations need equal levels: sub, subAndEqual, sub2AndEqual and addAndEqual throw otherwise, and mult and multAndEqual, which do not, would leave their buffers.
Left out: operations that are stubs in the code, and constants that are complex or vectors.

### Rotation

Ciphertexts are sums of rotations of one message. What remains is the
decomposition of amounts into bits, the choice of keys, the exception of the map when a key is missing - which comes
before that bit's change and after those of the lower bits - and the loop of `partialSlotsSumAndEqual`. The rotation of plain values by cycles in `EvaluatorUtils`,
which the tests compare with, is an operator: `RotationIsWhole` says that both agree.

### SchemeAlgo

Ciphertexts are a level, a power of the scale, an integer value and the first error; each
algorithm is a call whose result is compared with its mathematical definition. An operation on different
levels, which in the code reads or writes out of bounds or throws, is an
error in the model (`err`; the first one is kept). Recursions and loops of the code are recursive functions. `Number`, `Factors` and
`Coeffs` are the inputs; `MaxLevel`, `MaxDegree` and `MaxSteps` bound what a client asks for. `fft` multiplies by monomials with the stub
`multByMonomialAndEqual`, which does nothing; the model does the same, so what is claimed of it (the first output is the sum, all outputs
together are size times the first input) is what holds for any roots of unity.

## 3. What the runs check

| run | instance | shows |
|---|---|---|
| `pool` | 3 workers, 4 tasks, 3 addresses | `ListIsQueue`, `OneOwner`, `ExactlyOnce`, their inductive strengthening `IInv`, `NoTaskBehindASleeper`, `WaitLeavesRunning`; refinement of `TaskPool` with its fairness; `EveryTaskRuns`, `CallsReturn` |
| `mt_square` | 4x4 matrix, blocks of 2, 3 workers | the transposition by block rows interleaved with row NTTs is the transposition and the result the sequential one (`CalmIsFourStep`); it never touches an unfinished row (`RowsAreOwned`); termination |
| `mt_calls` | 2x3 matrix, 2 workers, two arrays, FHE instructions | tasks read the arguments of their own pass (`ArgsAreTheirOwn`), main is at most one pass ahead (`QueueIsRecent`), arrays are right up to the modulus left in registers |
| `mt_return` | 2x2, 2 workers | **violated:** the array is transformed when the function returns |
| `mt_ext_register` | 2x2, 2 workers, 1 `set_mod` task | **violated:** every row is computed modulo its own prime |
| `mt_layers` | two arrays of 4 words, 2 workers | the direct multi-threaded NTT is the sequential one unless main ran ahead; a task left behind stays in its array |
| `ntt` | N = 32, in rows of 4 and 8, q = 193, 11-bit words, vectors of 2 words, seven variants, two operations | `StandsFor`, `WordsAreSmall`, `ReducedStaysReduced` through every layer of the direct and four-step NTTs, of the inverse and the other operations (41,038 states) |
| `rvv_bar` | the same, the eighth variant | **violated:** the direct and four-step NTTs turn coefficients into values |
| `ntt_imult` | N = 4 | **violated:** imult multiplies by i |
| `context` | residues modulo 61, 11, 3 and 13, 7, three operations; constructor arguments with logp up to 8; up to 8 slots of degree 16; four coefficients; matrices up to 12x12; two threads with three branches in flight | the properties of the six parts (171,431 states) |
| `scheme` | degree 4, three levels, four special primes, three operations; 8 slots, four calls; degrees to 9, levels to 7 | the properties of the three parts (57,829 states) |
| `algo_power` | degrees to 9, levels to 7 | **violated:** `power` computes every power, given levels |

In `context`: `ImplementsIntegers` (refinement), `RaiseIsExactTimesP`, reduced words (`TypeOK`); `ModuliServe`, `OneBehind`, `TablesServe`;
`SlotsAreValues`, `RoundTrip`; `SampleIsOnePolynomial`; `LeavesTransposed`; `HistoryIsPath`, `TrainedOnThePath`. In `scheme`: `DecryptsCorrectly`,
`FirstResidueSuffices`; `RotationIsWhole`, `SumIsOverAllSlots`; `PowersAreAligned`, `EachIsTakenOnce`, `InverseIsGeometric`,
`SeriesIsPolynomial`.

### Findings

1. `mt_return`. The multi-threaded NTT adds the tasks of its second pass and returns; nothing waits
   for them, and the wait after the first pass returns when the list is empty.
   `src/run/test_case.cpp` compares the array directly after the call.
2. `mt_ext_register`. `SETMOD_FORTHREAD` queues three `set_mod` tasks for four workers, and the
   register is per thread: a worker that took none of them computes under an old modulus.
3. `ntt_imult`. `mulByMonomial` multiplies by the table of roots whatever the degree of the monomial is.
4. `rvv_bar`. In the vector NTT with Barrett multiplication the loops over the rest of a block and over the rest of the blocks are in
   comments: one vector of each is transformed. `src/run/test_case.cpp` compares arrays of zeros.
5. `algo_power`. `power` lowers the partial power by one level instead of to the other factor's; for degree 5
   `multAndEqual`, which checks nothing, leaves its buffers.

### Why the bounds are enough

- *pool.* Three workers give every race of two workers with a third asleep, four tasks on three addresses force reuse of
  a freed address. The invariants and the steps of the refinement are proved for every size; the bounds matter only for liveness.
- *mt.* Two blocks are the least with a block row above and below another one; more repeat the pattern. Three workers
  on four rows overlap any two blocks. The widths need not be powers of two: nothing in the template uses it. Two calls
  suffice because `QueueIsRecent` holds: only neighbouring passes overlap. The tasks `set_mod` are one fewer than
  workers, as in the code (3 and 4). All invariants and `RowsAreOwned` are proved for every size; the bounds matter only for `Terminates`.
- *mt_layers.* Four words are two layers and two calls in a row. That nothing else happens with more layers, calls and workers is proved.
- *ntt.* With vectors of two words and a cut of two (eight and eight in the code), the five layers of 32 words are of every kind: within a
  block, a block of exactly one vector, across blocks; the rows of the four-step NTT differ in length, so tables of one
  cannot serve the other. Inputs have one word, or every second or third, unlike the others. q = 193 on eleven bits leaves the code's
  factor of headroom (8q below the word, `NttAssumption`), and the words include 0, q - 1, q and
  a raised word far above 2q; every comparison is exercised on both sides. `MaxOps` = 2 reaches the inverse of every NTT and
  every operation on its result.
- *context, residues.* The first prime is much larger than the others, as 2^61 is in the program, so a raise leaves Barrett's range and words
  at or above their modulus occur; all other moduli are proved to behave alike. Starting values are a quarter of all integers below 61 * 11 * 3, every level; three operations
  include raise, mulKey, back.
- *context, setup.* Degrees 2, 4 and 8 around 2^6 to 2^8, up to four primes and three special ones: rounds in which the first, the second, both or
  no candidate is prime, searches that end in the middle of a round, and moduli given directly that are not prime, not 1 modulo M, have no root of unity, equal the special prime, or have a primitive root
  other than the least candidate.
- *context, encoding.* Every number of slots the degree allows, every position of a number, and vectors without zeros; the transform is linear.
- *context, sampling.* Two of four coefficients are drawn, in two rows, so a row's end is reached and a coefficient is drawn twice.
- *context, transposition.* All shapes to 12 by 12 reach every branch with parts of unequal length, three deep.
- *context, predictor.* Two threads, three in flight and four fetched: squashes in the middle, a misprediction behind a squash, two
  branches that share counters, with an empty and a full history.
- *scheme.* The primes have the shape the constructor finds for logp = 7 with a first prime of
  10 bits. Three operations reach every pair of operations followed by a rescaling, with both operands aligned or
  copied. `MaxValue` keeps TLC's 32-bit integers from overflowing; it is far above the largest
  modulus, so what it cuts off has `fits` FALSE and nothing is claimed of it. Sequences begin with every key, or with the one to encrypt with; then adding a key is an operation.
- *scheme, rotation.* Every number of slots and every amount up to twice the ring, over all subsets of keys that two or
  three additions give.
- *scheme, algorithms.* Degree 9 has one, two and no bits beside the highest, at distances up to three; level 7 is above what any needs.
  Number = 3 with ternary or smaller coefficients makes different powers give different values.

### Fairness

`ThreadPool`: weak fairness of each worker's steps and of the client's steps *inside* a pool function. It says that threads
are scheduled, that a task's function returns and that the mutex starves nobody - an action is a whole
critical section, and always finding the mutex taken is the only way one could be enabled for ever and not taken. There is no
fairness for the next call of the client (it may stop using the pool) nor for spurious wakeups. A sleeping worker has
no enabled step: that it is woken has to follow from the signals.
`MtStep4NTT`: main's steps, the pool starting what it can (`EveryTaskRuns` in ThreadPool), row NTTs terminating. `MtLayers` states only safety. The
other modules are sequential and state only safety.

## 4. What each property is for

The hazards with their lines are in `PROJECT.json`; those no property covers carry a note. For every property of a passing run a mutant - the
definition with a plausible bug: tail not reset, signal forgotten, exit before the list is empty, loop over the rows
not restarted, table of the wrong level, Karatsuba term missing, ... - makes TLC find it violated, so none of them
holds by the shape of the model.

## 5. What is proved

Every theorem is about the specification with its constants arbitrary within the assumptions named below.

### The thread pool (`ThreadPoolProofs`)

From `ThreadPoolAssumption`: a finite, non-empty set of workers, a finite set of addresses without NULL; any number of tasks.

| theorem | says |
|---|---|
| `Invariance` | Spec => []IInv |
| `TypeCorrect` | Spec => []TypeOK |
| `ListCorrect` | Spec => []ListIsQueue: head, tail, size and next always describe one list |
| `Ownership` | Spec => []OneOwner: no use after free, no double free |
| `RunsExactlyOnce` | Spec => []ExactlyOnce: no task runs twice, all have run when the pool is freed |
| `WaitIsNoBarrier` | WaitReturn leaves exactly the tasks in the workers' hands unfinished |
| `WorkConservation` | Spec => []NoTaskBehindASleeper: while a task is queued, not everybody who could take it sleeps |
| `Refinement` | Spec => TP!PoolSafety: every step is one of `TaskPool`, or a stutter |

The inductive invariant is IInv == TypeOK /\ ListIsQueue /\ OneOwner /\ Phases /\ NoOrphan /\ Accounts. `OneOwner` alone is not
inductive: that the node a worker unlinks is not also in the client's hands or another
worker's needs `Phases` (which program counters hold a node) and that linking at `tail` extends the list needs `ListIsQueue`.
`ExactlyOnce` needs to know that the task of an allocated node has not run and that
every other one has (`Accounts`), that no allocated node is lost (`NoOrphan`), and that workers exit only with an
empty list after the shutdown (`Phases`). Each action has a lemma; those that leave list, nodes and tasks alone share
the lemma `Quiet`. That `size` stays within the number of addresses is `ListFits`, by the cardinality of an injective sequence's image.
`WorkConservation` needs no strengthening beyond IInv, because the invariant counts: while anybody sleeps, at least as many workers
are on their way to the mutex as there are tasks. Each action keeps the balance: a task comes with a wake-up, a worker that takes one takes its
own share, and a worker falls asleep or exits only when the list is empty.

### The multi-threaded four-step NTT (`MtStep4NTTProofs`)

From `MtAssumption`: any matrix (square, with a block size that divides its side, or not), any number of workers, arrays and
`set_mod` tasks.

| theorem | says |
|---|---|
| `Invariance` | Spec => []IInv |
| `AtMostOnePassAhead` | Spec => []QueueIsRecent |
| `OwnArguments` | Spec => []ArgsAreTheirOwn |
| `OwnRows` | Spec => RowsAreOwned, an action property |
| `CalmEndsAsFourStep` | without the FHE instructions, Spec => []CalmIsFourStep |
| `CalmEndsAsSequential` | without the FHE instructions, Spec => []CalmIsSequential |
| `CalmEndsRightUpToModulus` | Spec => []CalmIsRightUpToModulus |

IInv == Structure /\ (~late => Calm). `Structure` holds in every execution: the tasks main has added are those queued, in a worker
or done (`Accounts`, `OnePlace`), global_args are those of main's pass (`Phases`), and the queue is at most a pass behind
(`Recent`). `Calm` holds as long as main never ran ahead. Its core is `PassMemory`, which says of each coefficient where it is in
the middle of a pass: a row whose task is done is transformed; of the others, those cells whose row or column is below
main's `Frontier` are transposed and the rest are not, because the square matrix is transposed in place, block row by
block row, while tasks already transform the rows above. With the FHE instructions terms agree only up to the moduli (`Like`), which is
why the first result about the whole array assumes ~Ext; that the assumption is needed is the finding `mt_ext_register`,
which refutes `CalmIsSequential` with Ext. That the four-step terms are the sequential template's (`SequentialIs`) is an
induction over its block rows.

### The direct multi-threaded NTT (`MtLayersProofs`)

From `LayerParameters`: any number of workers, arrays and layers.

| theorem | says |
|---|---|
| `Invariance` | Spec => []IInv |
| `StaysInBounds` | Spec => []LateStaysInBounds |
| `CalmEndsAsSequential` | Spec => []CalmIsSequentialNTT |

Again IInv == Structure /\ (~late => Calm). A task may read each field of `ori_global` in a different layer; what bounds it is that each
is a field of *some* layer from the task's own to main's (`Globals`, `Seen`), and a block of an earlier layer exists in every later
one. `LayerMemory` says that a word is that of its layer once the task of its block is done; that tasks commute needs that a
word has one block and its partner in the butterfly the same one (`BlockOfWord`).

### The number-theoretic transform (`NttProofs`)

From `TablesAssumption`, `LayersAssumption` and `NttAssumption`: any degree 2^LogN, any odd q, 1 modulo 2N and an eighth of the
machine word, any psi with psi^N = -1, any width of vectors that is a power of two, any inputs and constants that fit a word.

| theorem | says |
|---|---|
| `TypeCorrect` | Spec => []NttTypeOK |
| `WordsStaySmall` | Spec => []WordsAreSmall |
| `ReducedWordsStay` | Spec => ReducedStaysReduced, an action property |
| `WordsStandForPolynomial` | without `rvv_bar`, Spec => []StandsFor |

The first three rest on NttIInv == NttTypeOK /\ WordsAreSmall and on what each multiplication returns for words up to the
bound of its place: Montgomery's is congruent to the product times R^-1 and below 2q, Barrett's needs its argument below
2^qTwok, which `8 * q < R` and the bounds give. The invariant of the fourth is NttStandInv == NttIInv /\ (~imulted => Stand), where `Stand` is
`StandsFor` form by form.

- *Layers.* The tables hold powers of psi in bit-reversed order (`RootPows`), so block i of b has as its modulus X^(N/b) - z_i with z_i the
  root of its parent up to sign; one butterfly splits a remainder into two (`LayerStands`), and a layer of the inverse joins them, times two
  (`INTTLayerStands`). That every schedule visits each pair of words once, whatever the length, the number of blocks and the width of vectors, is
  `LanesFacts`; it is false for `rvv_bar`, hence the hypothesis (and the finding of the run `rvv_bar`).
- *Values.* After log N layers a block is one word, the value at an odd power of psi. The double sum of the four-step transform is the same
  sum in another order (`RowsAreValues`, from `BelowReordered` in `Lemmas`).
- *Operations.* Values of a product in the ring are products of values (`ProductSample`: a sum over pairs, split by whether exponents
  exceed N), and the value of p(X^g) at psi^z is that of p at psi^(gz) (`AutomorphismSample`), which is where
  `leftRotAndEqual` and `conjugate` read it. Sums below N are functions (`SumBelow`), for which `Lemmas` has linearity, exchange and reordering.

Nothing is claimed after `mulByMonomial`, which computes no product (`imulted`; the run `ntt_imult`). q need not be prime: all
that is inverted are N, as q is 1 modulo 2N, and powers of psi, as psi^N = -1.

### The residue number system (`RnsLemmas`, `ContextProofs`)

From `RnsAssumption` and `RnsContextAssumption`: at least one modulus and one special modulus, all above 1 and no two with a common
factor; they need not be primes and there may be any number of any size. Any starting values, multipliers and number of operations.

| theorem | says |
|---|---|
| `TypeCorrect` | Spec => []TypeOK: words are reduced whenever they are not raised |
| `RaiseIsExact` | Spec => []RaiseIsExactTimesP |
| `Refinement` | Spec => ImplementsIntegers: the residues do what `RnsInteger` says of the integer |

The invariant is TypeOK and that the residues are integers. The work is in the operations. Each is first described modulo one prime: Barrett's
reduction is congruent to its argument and exact below 2^twok (`BarrettFacts`, `BarrettIsExact`), where raised words are not; the
tables are inverses; the sum over the tables of hats is congruent to the value of the residues plus a multiple of their
product, a multiple below their number (`RaiseValue`, `BackValue`). By the Chinese remainder theorem (`ResiduesDetermine` in
`Lemmas`, from `Coprime` up) the integer is then the one `RnsInteger` names. That reScale is exact division and back loses less
than K are inequalities between these integers.

### The homomorphic operations (`SchemeProofs`)

From `SchemeAssumption` and `RnsAssumption`: any degree that is a power of two, any number of moduli and special moduli as above, any
secret and vx with coefficients -1, 0 and 1, any errors of keys and of encryptions, any messages, constants and scale, any number of operations and additions of keys.

| theorem | says |
|---|---|
| `KeySwitchIsRight` | raise, mulKey and back give two polynomials that decrypt to x times what the key switches from, up to SwitchNoise |
| `CiphertextsAreSound` | Spec => []BothSound, the inductive invariant |
| `DecryptionIsCorrect` | Spec => []DecryptsCorrectly |
| `FirstResidueIsEnough` | Spec => []FirstResidueSuffices |

`DecryptsCorrectly` is not inductive: what a ciphertext decrypts to is known modulo the product of its moduli only, and to rescale it, or to switch its
key, one needs to know of what integers the residues are. `Sound` says so: there are integer polynomials a and b whose residues are ax and
bx (`Stands`), and b + a * secret, computed without any modulus, is the message t plus an e within err (`Encrypts`).

- *Ring.* `Product` is commutative, associative and linear, and `Automorphism` respects it, in Z[X]/(X^N + 1) with N a power of two; a product is
  at most Norm of one factor times the largest coefficient of the other. A coefficient for every integer exponent, with X^N = -1 (`At`), makes a
  product's coefficient one sum, and each law a reordering of sums from `Lemmas`.
- *Residues.* Every operation on residues is one on integers modulo each prime (`SumStands`, `ProductStands`, `AutomorphismStands`, ...), by `RnsLemmas` for
  the conversions. Those that divide know their remainder: x = P * w + y with y below K * P in back, x = q * w + y in reScale.
- *Key switching.* What is divided by P is v * U and v * (E + P * f - U * s), where v is the raised polynomial, congruent to x but up to l times as large as its
  modulus; P cancels exactly in the part with f, and the remainders and v * E are the noise (`SwitchIdentity`, `SwitchBound`).
- *Operations.* Each has a lemma that its result is `Sound` with the err that `Scheme` computes for it, Karatsuba's products
  (`MultIsSound`) and rounding twice in a rescaling (`ReScaleIsSound`) included.
- *Decryption.* By the Chinese remainder theorem the residues determine b + a * secret modulo the product of those that are looked at, all of
  them or the first; `fits` says that it is less than half of that.

The theorems hold with or without `MaxValue`, which bounds only what TLC explores. Whether the noise bounds are below the modulus for the program's
parameters is arithmetic about the standard deviation of its samplers, and no part of the model.

### The algorithms on ciphertexts (`SchemeProofs`)

From `SchemeAlgoParameters`: any levels, degrees and steps, any integer to compute with, any coefficients.

| theorem | says |
|---|---|
| `PowersAlways` | AlgoSpec => []PowersAreAligned |
| `InverseAlways` | AlgoSpec => []InverseIsGeometric |
| `SeriesAlways` | AlgoSpec => []SeriesIsPolynomial |
| `EachAlways` | AlgoSpec => []EachIsTakenOnce |

The invariant is CallIsAnswered, that what was returned is what the function called computes; the rest is what these functions compute. Each
operation has a lemma that names the level, the scale and the value of its result and says exactly when nothing goes wrong (`Has`); each loop or
recursion is a function of which each value follows from an earlier one (`FromEarlier`), so that induction on it is plain induction. That no
multiplication meets two levels is a statement about `Depth`, the number of multiplications above the number: a power between 2^k and
2^(k+1) is one of at most 2^k, brought down to the level of the 2^k-th, times that (`PowerExtendedHave`); the level of a partial sum is
that of the last term that was not skipped (`TermsHave`), and terms only get deeper (`DepthOrder`). If the levels do not suffice the results must
have err, which is why lemmas are equivalences.

For prod the invariant is that after some bits of degree the accumulator holds as many factors as those bits say, at the level that `Depth` gives to a
product of so many (`NextProductHas`; a bit that is set adds a block of factors whose products are formed in pairs, `PairsHave`). For fft it is about
blocks: after the step for blocks of size h the first word of a block is the sum of the words that the block had before the first step, and
its words together are h times the first of those (`NextTransform`). Before the first step the words are in bit-reversed order, of which the proof needs
that it keeps the first place and any sum (`AnyOrder`); that is an induction on the number of bits, even places and odd places, and needs no inverse.

### The search for primes (`ContextProofs`)

From `SetupParameters`: arguments that are natural numbers, at least one modulus, one if it is given directly. Nothing is assumed about where the
primes are, or about `primeTest`.

| theorem | says |
|---|---|
| `SearchInvariance` | SetupSpec => []SetupInv |
| `OneBehindAlways` | SetupSpec => []OneBehind |

The bound of the loop is tested before the first candidate of a round, so the invariant says what is known before the second: if the list is full, its
last element is the first candidate of this round and nothing is behind it yet. Then the prime written behind is its mirror image, the search is over,
and as the search for special primes starts in the next round all its candidates are others (`CandidateFacts`: they differ as their
rounds do). That all moduli together are different primes (`ModuliServe`) does depend on where the primes are and stays with TLC.

### The samplers (`ContextProofs`)

From `SamplingParameters`: an even number of coefficients, any moduli above twice the absolute value of every error, at most N coefficients for a secret.

| theorem | says |
|---|---|
| `SamplersCompose` | SamplingSpec => []SamplingInv |
| `SamplesAreSound` | SamplingSpec => []SampleIsOnePolynomial |

The property speaks of finished samples; the invariant names the polynomial that is being made: there are small integers whose words are in all rows
(`Composed`), for a secret -1, 0 or 1, and as many other than zero as have been drawn. A step changes one of them, as no two places of the rows share a
word (`CellFacts`); a column that is not `Taken` held zero because 1 and -1 are words other than zero in the first row. For RAND_MAX nothing is claimed.

### The branch predictor (`ContextProofs`)

From `PredictorParameters`, which is what the constructor insists on; any threads, branches, numbers in flight, and any operator in place of
the exclusive or.

| theorem | says |
|---|---|
| `PredictorInvariance` | PredictorSpec => []PredictorInv |
| `HistoryIsThePath` | PredictorSpec => []HistoryIsPath |
| `TrainingOnThePath` | PredictorSpec => TrainedOnThePath, an action property |

PredictorInv == PredictorTypeOK /\ HistoryIsPath; `HistoryIsPath` speaks of the low HistoryBits bits of the register and of every record
in flight, as update(squashed) lets others pile up above. That training reads the committed history's index although the record may
hold such bits needs that the hash reads only bits below HistoryBits (a lemma about division by powers of two) and that shifting commutes with masking.

### Only model-checked

- Liveness and the refinement's fairness (`EveryTaskRuns`, `CallsReturn`, `Terminates`, the fairness in `ImplementsTaskPool`): they
  need ENABLED and leads-to under fairness, which are out of the prover's reach.
- `TransformedOnReturn` and the other properties of runs that expect a violation are false.
- `ModuliServe` and `TablesServe` of ContextSetup: the first depends on where the primes are, the second on the orders of elements modulo a prime.
- `PowerIsPower` of SchemeAlgo is false.
- `Encoding`, `Transposition`, `Rotation`: not done.

## 6. What is not modelled

The functions `op2` of `RVV_Ext_NTT.cpp` and the scalar `mth_` functions of `RVV_NTT.cpp`, which nothing calls. Rounding in
encoding, the distributions of samples. Of the gem5 changes the decoding, operands and disassembly of the instructions (their arithmetic is in
`NttLayers`), and `isa_parser`, `FuncUnit`, `op_class`, `pcstate`: third-party files with entries added. The toolchain's opcode tables. The utilities
for strings, timing, counters and operation records; build files
and scripts; tests and entry points, which are read as statements of intent. Functions of the library that are stubs. Hazards there: `modBarrett` shifts by a
negative amount for moduli below 2^31; `multByConst` converts a negative double of a complex constant to an unsigned integer. `Context::NTT(res, a, l, k)` writes to
`a` and leaves `res` alone; nothing calls it.

## 7. Plan

Done, in this order: TaskPool and ThreadPool (the only concurrent data structure, and what all threads rely on) with proofs;
MtStep4NTT; SchemeAlgo; Ntt with its vector schedules and four-step form; Rns with RnsInteger; Scheme; Rotation; then MtLayers, the rest of
Ntt's operations and `rvv_bar`, ContextSetup, Encoding, Sampling, Transposition, C910BiModeBP, and the vectors and transforms of SchemeAlgo.

Then the proofs of section 5: the pool first, since all else runs on it; the two concurrent NTTs; the residues, where data matter; the predictor;
the transform and the homomorphic operations, whose operators were rewritten with `SumBelow` for it.

Next: RotationIsWhole, and LeavesTransposed for any number of rows and columns.
