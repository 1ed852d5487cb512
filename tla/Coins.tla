------------------------------- MODULE Coins -------------------------------
(***************************************************************************)
(* Sequences of coins and how transactions choose from them.  A coin is a  *)
(* record with at least a value.                                           *)
(***************************************************************************)
EXTENDS Integers, Sequences, SequencesExt, FiniteSetsExt

SumOf(coins) == FoldSeq(LAMBDA c, n : c.value + n, 0, coins)

\* The first coins, at least one, that reach the target, or all of them.
Take(coins, target) ==
    LET reach == {n \in 1 .. Len(coins) : SumOf(SubSeq(coins, 1, n)) >= target}
    IN  IF reach = {} THEN coins ELSE SubSeq(coins, 1, Min(reach))
=============================================================================
