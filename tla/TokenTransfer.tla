--------------------------- MODULE TokenTransfer ---------------------------
(***************************************************************************)
(* CreateNrc20RawTransaction of nulsio/tx_decode.go: the transaction that  *)
(* calls the transfer method of a token contract.  It is sent by one       *)
(* address, the first that has the tokens and the coins for the fee.       *)
(*                                                                         *)
(* A view is what the node says of one address: its tokens and its coins,  *)
(* sorted by value, and whether each of them could be read.                *)
(***************************************************************************)
EXTENDS Coins

CONSTANT Fee        \* EstimateTokenFeeRate

ASSUME TransferAssumption == Fee \in Nat \ {0}

\* The place of a coin: how many are no greater, of equal ones those up to it.
Place(coins, i) ==
    Cardinality({j \in DOMAIN coins :
        \/ coins[j].value < coins[i].value
        \/ coins[j].value = coins[i].value /\ j <= i})

\* Coins by value: UnspentSort.
Ascending(coins) ==
    [k \in DOMAIN coins |-> coins[CHOOSE i \in DOMAIN coins : Place(coins, i) = k]]

\* The views whose tokens suffice and whose coins are known.
MaySend(view, amount) ==
    view.tokensRead /\ view.coinsRead /\ view.tokens >= amount

\* The sum of the coins is compared in the smallest unit with a fee in whole ones:
\* any coin will do.  The coins reach the fee or they do not.
Reaches(view) == SumOf(view.coins) >= Fee

Error(e) == [error |-> e]

\* Mutant: the fee is not taken off.
ChangeWithoutFee(used) == SumOf(used)

Change(used) == SumOf(used) - Fee

\* The coins of the addresses passed over on the way to the sender stay in the list
\* of inputs.  Without change there is no output and the transaction is refused, as it
\* is when the coins do not reach the fee.
CreateNrc20(views, amount) ==
    LET able    == {i \in DOMAIN views : MaySend(views[i], amount)}
        senders == {i \in able : Reaches(views[i])}
        s       == Min(senders)
        passed  == [i \in 1 .. s - 1 |-> IF i \in able THEN views[i].coins ELSE <<>>]
        left    == FoldLeft(\o, <<>>, passed)
        used    == Take(views[s].coins, Fee)
    IN  CASE senders = {}          -> Error("no address can send")
          [] views[s].tokens = 0   -> Error("no tokens")
          [] Change(used) <= 0     -> Error("no output")
          [] OTHER -> [error |-> "none", sender |-> views[s].address, amount |-> amount,
                       inputs |-> left \o used, change |-> Change(used)]
=============================================================================
