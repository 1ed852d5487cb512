----------------------------- MODULE MCPayment -----------------------------
(* An account of three addresses with four coins, one of them locked, a receiver *)
(* and a summary address outside the account.                                     *)
EXTENDS Payment

MCAddress == {"a", "b", "c", "p", "s"}
MCOwn == {"a", "b", "c"}
MCMinted == {Coin(<<"m1", "a">>, "a", 4, FALSE), Coin(<<"m2", "b">>, "b", 6, FALSE),
             Coin(<<"m3", "c">>, "c", 5, FALSE), Coin(<<"m4", "b">>, "b", 3, TRUE)}

Paying(to) == [kind |-> "payment", to |-> to]
MCOrders == {Paying([x \in {"p"} |-> 8]), Paying([x \in {"p"} |-> 14]),
             Paying([x \in {"p", "a"} |-> 2]), [kind |-> "summary", to |-> Nothing]}
=============================================================================
