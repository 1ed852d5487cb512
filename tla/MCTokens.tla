------------------------------ MODULE MCTokens ------------------------------
(* Three addresses: with nothing but tokens, with coins that only together reach   *)
(* the fee, with a coin that is locked, with coins that make up the fee exactly.   *)
(* A support account that has enough for two addresses, and one whose coins are    *)
(* for the greater part locked and do not suffice for two.                         *)
EXTENDS TokenSummary

Holding(t, c, l) == [tokens |-> t, coins |-> c, locked |-> l]

Poor   == Holding(3, <<>>, 0)
Pieces == Holding(3, <<2, 4>>, 0)
Locked == Holding(2, <<4>>, 7)
Exact  == Holding(2, <<5>>, 0)
Few    == Holding(1, <<9>>, 0)

MCAddress == {"a", "b", "c"}
MCAddressList == <<"a", "b", "c">>
Start(s, l, x, y, z) ==
    [support |-> s, locked |-> l, holdings |-> [a |-> x, b |-> y, c |-> z]]
MCStarts == {Start(9, 11, Poor, Poor, Pieces), Start(60, 0, Locked, Poor, Exact)}

\* An address with tokens and too few coins before one with enough.
MCLeftover == {Start(0, 0, Holding(3, <<4>>, 0), Holding(3, <<9>>, 0), Few)}
=============================================================================
