------------------------------ MODULE Digits ------------------------------
(***************************************************************************)
(* Numbers and their digits, of any base: bytes are digits of base 256 and *)
(* the characters of an address digits of base 58.                         *)
(***************************************************************************)
EXTENDS Integers, Sequences, SequencesExt

Power(base, n) == FoldLeft(LAMBDA p, i : p * base, 1, [i \in 1 .. n |-> i])

\* The digit of a number that counts for base to the power of k.
DigitOf(base, v, k) == (v \div Power(base, k)) % base

\* The number digits stand for, the highest first.
ValueIn(base, digits) == FoldLeft(LAMBDA v, d : v * base + d, 0, digits)
=============================================================================
