------------------------------ MODULE IntWidth ------------------------------
(***************************************************************************)
(* The arithmetic of InMemoryStore.Increment and Decrement: the cached     *)
(* value is an int, the amount a uint64, and both have the same width.     *)
(* Half is 2^63 in the program and small in the checked instances.         *)
(***************************************************************************)
EXTENDS Integers

CONSTANT Half

ASSUME HalfAssumption == Half \in Nat \ {0}

Ints == (-Half)..(Half - 1)

Uints == 0..(2 * Half - 1)

(* int(n) *)
ToInt(n) == IF n < Half THEN n ELSE n - 2 * Half

(* uint64(i) *)
ToUint64(i) == IF i < 0 THEN i + 2 * Half ELSE i

(* The int that a sum or difference i of two ints becomes. *)
Wrap(i) ==
  IF i >= Half THEN i - 2 * Half ELSE IF i < -Half THEN i + 2 * Half ELSE i

(* mutant: the sum is not cut to the width *)
IncrementedUnbounded(i, n) == i + ToInt(n)

(* mutant: the sum saturates *)
IncrementedSaturating(i, n) == IF i + ToInt(n) >= Half THEN Half - 1 ELSE Wrap(i + ToInt(n))

Incremented(i, n) == Wrap(i + ToInt(n))

(* mutant: the difference is not capped at 0 *)
DecrementedUnsigned(i, n) == Wrap(i - ToInt(n))

Decremented(i, n) == IF ToInt(n) > i THEN 0 ELSE Wrap(i - ToInt(n))
=============================================================================
