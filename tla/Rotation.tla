------------------------------- MODULE Rotation -------------------------------
(***************************************************************************)
(* Rotations of the slots of a ciphertext (src/src/Scheme.cpp) and sums    *)
(* over them (SchemeAlgo.cpp).  A rotation needs a key for its amount, and *)
(* keys exist only for powers of two to the left and to the right, so      *)
(* every amount is composed bit by bit; without a key the map of keys      *)
(* throws, and the object keeps what the earlier bits did to it.           *)
(*                                                                         *)
(* A ciphertext is a sum of rotations of one message: ct[a] is how often   *)
(* the message rotated left by a is in it.  Its slots repeat in the Nh     *)
(* slots of the ring, so amounts count modulo slots.  That rotating by an  *)
(* amount with its key does so is checked in Scheme and Ntt.               *)
(***************************************************************************)
EXTENDS Integers, FiniteSets, FiniteSetsExt

CONSTANTS
  LogNh,  \* log2 of the slots of the ring
  MaxOps  \* bound: calls in a sequence

Nh == 2 ^ LogNh

\* What the constants may be.
RotationParameters == LogNh \in Nat \ {0} /\ MaxOps \in Nat

VARIABLES
  slots,  \* cipher.slots
  ct,     \* the ciphertext
  keys,   \* leftRotKeyMap: the amounts there are keys for
  call,   \* history: the last call
  threw,  \* history: did it throw?
  ops

vars == <<slots, ct, keys, call, threw, ops>>

Unrotated == [a \in 0 .. slots - 1 |-> IF a = 0 THEN 1 ELSE 0]

Init == /\ slots \in {2 ^ i : i \in 0 .. LogNh}
        /\ ct = Unrotated
        /\ keys = {}
        /\ call = [f |-> "none", r |-> 0] /\ threw = FALSE /\ ops = 0

-------------------------------------------------------------------------------
(* Keys *)

Bits == 0 .. LogNh - 1
AddKeys(ks) == /\ ops < MaxOps /\ ops' = ops + 1
               /\ keys' = keys \cup ks
               /\ call' = [f |-> "keys", r |-> 0] /\ threw' = FALSE
               /\ UNCHANGED <<slots, ct>>

addLeftRotKey == \E r \in 1 .. Nh - 1 : AddKeys({r})
addLeftRotKeys == AddKeys({2 ^ i : i \in Bits})
addRightRotKeys == AddKeys({Nh - 2 ^ i : i \in Bits})

-------------------------------------------------------------------------------
(* Rotations *)

Shift(x, r) == [a \in 0 .. slots - 1 |-> x[(a - r) % slots]]

\* leftRotateAndEqualFast: the key is looked up before the object is changed.
Outcome(x, t) == [ct |-> x, threw |-> t]
ShiftThenThrow(o, r) == IF o.threw THEN o ELSE Outcome(Shift(o.ct, r), r \notin keys)
Fast(o, r) == IF o.threw \/ r \notin keys THEN Outcome(o.ct, TRUE) ELSE Outcome(Shift(o.ct, r), FALSE)

LeftAmount(i) == 2 ^ i
RightAmountToTheLeft(i) == 2 ^ i
RightAmountInSlots(i) == slots - 2 ^ i
RightAmount(i) == Nh - 2 ^ i

\* The loop over the bits of rotSlots % slots.  For 0 its bound, log2(0) + 1,
\* has no value as a long; no bit is set, whatever it is.
BitSet(n, i) == (n \div 2 ^ i) % 2 = 1
RemainderOf(r) == r % slots
Rotate(x, r, amount(_)) ==
  LET loop[i \in 0 .. LogNh] ==
        IF i = 0 THEN Outcome(x, FALSE)
        ELSE IF BitSet(RemainderOf(r), i - 1) THEN Fast(loop[i - 1], amount(i - 1)) ELSE loop[i - 1]
  IN  loop[LogNh]

Call(f, r, o) == /\ ops < MaxOps /\ ops' = ops + 1
                 /\ call' = [f |-> f, r |-> r]
                 /\ ct' = o.ct /\ threw' = o.threw
                 /\ UNCHANGED <<slots, keys>>

leftRotateAndEqual(r) == Call("left", r, Rotate(ct, r, LeftAmount))
rightRotateAndEqual(r) == Call("right", r, Rotate(ct, r, RightAmount))

\* partialSlotsSumAndEqual: rotate by 1, 2, 4, ... below n and add each time.
Add(x, y) == [a \in 0 .. slots - 1 |-> x[a] + y[a]]
Addend(x, r) == Fast(Outcome(x, FALSE), r)
SumOfFresh(o, r) == Outcome(Add(o.ct, Addend(Unrotated, r).ct), Addend(o.ct, r).threw)
SumStep(o, r) == Outcome(Add(o.ct, Addend(o.ct, r).ct), Addend(o.ct, r).threw)
partialSlotsSumAndEqual(n) ==
  LET sum[i \in 0 .. LogNh] ==
        IF i = 0 THEN Outcome(ct, FALSE)
        ELSE IF 2 ^ (i - 1) >= n \/ sum[i - 1].threw THEN sum[i - 1]
        ELSE IF 2 ^ (i - 1) \notin keys THEN Outcome(sum[i - 1].ct, TRUE)
        ELSE SumStep(sum[i - 1], 2 ^ (i - 1))
  IN  Call("sum", n, sum[LogNh])

-------------------------------------------------------------------------------
(* EvaluatorUtils.cpp: how the tests rotate the values in the slots *)

gcd(x, y) == Max({z \in 1 .. y : x % z = 0 /\ y % z = 0})

\* The cycle of i: each value moves to the place r before it, the first one last.
Cycle(vals, i, r, steps) ==
  LET idx(j) == (i + j * r) % slots
      moved[j \in 0 .. steps - 1] ==
        IF j = 0 THEN vals ELSE [moved[j - 1] EXCEPT ![idx(j - 1)] = moved[j - 1][idx(j)]]
  IN  [moved[steps - 1] EXCEPT ![idx(steps - 1)] = vals[i]]

LeftRotated(vals, r) ==
  LET divisor == gcd(r % slots, slots)
      done[i \in 0 .. divisor] ==
        IF i = 0 THEN vals ELSE Cycle(done[i - 1], i - 1, r % slots, slots \div divisor)
  IN  IF r % slots = 0 THEN vals ELSE done[divisor]

RightRotated(vals, r) == LeftRotated(vals, (slots - (r % slots)) % slots)

Next == \/ addLeftRotKey \/ addLeftRotKeys \/ addRightRotKeys
        \/ \E r \in 0 .. 2 * Nh : leftRotateAndEqual(r) \/ rightRotateAndEqual(r)
        \/ \E n \in 1 .. slots : partialSlotsSumAndEqual(n)

Spec == Init /\ [][Next]_vars

-------------------------------------------------------------------------------
(* Properties *)

\* A rotation that returns has rotated by the whole amount, in the direction
\* asked for, whatever number of slots is in use; one that throws has rotated by
\* the bits below one for which there is no key, which the keys of
\* addLeftRotKeys and addRightRotKeys leave no room for.  The slots of a rotated
\* message are those that testRotateBatch compares them with.
Signed(f, x) == IF f = "left" THEN x ELSE -x
KeyOf(f, i) == IF f = "left" THEN 2 ^ i ELSE Nh - 2 ^ i
Places == [s \in 0 .. slots - 1 |-> s]
Expected(f, x) == IF f = "left" THEN LeftRotated(Places, x) ELSE RightRotated(Places, x)
RotationIsWhole ==
  [][ops' # ops /\ call'.f \in {"left", "right"} =>
       IF ~threw' THEN /\ ct' = Shift(ct, Signed(call'.f, call'.r))
                       /\ ct = Unrotated => \A s \in 0 .. slots - 1 : ct'[(Expected(call'.f, call'.r)[s] - s) % slots] = 1
       ELSE \E i \in Bits : /\ BitSet(call'.r, i) /\ KeyOf(call'.f, i) \notin keys
                            /\ ct' = Shift(ct, Signed(call'.f, call'.r % 2 ^ i))]_vars

\* The sum over the slots has every rotation of a message once, and summing
\* a partial sum only multiplies it.
SumIsOverAllSlots ==
  [][ops' # ops /\ call'.f = "sum" /\ call'.r = slots /\ ~threw' =>
       \A a \in 0 .. slots - 1 : ct'[a] = MapThenSumSet(LAMBDA b : ct[b], 0 .. slots - 1)]_vars
===============================================================================
