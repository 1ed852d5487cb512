------------------------------ MODULE MCCodecs ------------------------------
(* Numbers around the boundaries of every size, transactions of one or two     *)
(* inputs and outputs, and of none, calls of a contract with arguments of       *)
(* every size of length, signature numbers with zeros and sign bits in front,   *)
(* transactions of a block between two accounts and others.                    *)
EXTENDS Codecs

Around(n) == {n - 1, n, n + 1}
MCNumbers ==
    {0, 1} \cup Around(Base - 3) \cup Around(Base) \cup Around(Base ^ 2) \cup Around(Base ^ 4)
    \cup {1000, 123456789}

Hash(n) == [i \in 1 .. HashSize |-> (n + i) % Base]
Owner(n) == [i \in 1 .. BodySize + 1 |-> (n * i) % Base]
In(n, index) == [hash |-> Hash(n), index |-> index, amount |-> 1000 * n, lockTime |-> n - 1]
Out(n) == [address |-> Owner(n), amount |-> Base ^ 3 + n, lockTime |-> 0]
Text(n) == [i \in 1 .. n |-> i % Base]
Token(n, m) == [sender |-> Owner(1), contract |-> Owner(2), value |-> 0, gasLimit |-> 20000,
                price |-> 25, method |-> Text(8), argsCount |-> 2, args |-> <<Text(n), Text(m)>>]

MCTransactions ==
    [time : {1234567}, ins : {<<>>} \cup {<<In(1, i)>> : i \in {0, Base - 3, Base ^ 2}}
                             \cup {<<In(1, i), In(2, 0)>> : i \in {1, Base ^ 4}},
     outs : {<<>>, <<Out(1)>>, <<Out(3), Out(1)>>},
     token : {NoToken} \cup {<<Token(n, m)>> : n \in {0, Base - 3, Base ^ 2}, m \in {1, Base - 4}}]

\* At most MaxZeros zeros: half of the bytes stand for 16 of the 32 in the code.
MaxZeros == 2
Zero(r) == {i \in DOMAIN r : r[i] = 0}
MCNumber == {r \in [1 .. NumSize -> {0, Base \div 2 - 1, Base \div 2}] :
                 Cardinality(Zero(r)) <= MaxZeros}
MCSignatures == {<<r, s>> \in MCNumber \X MCNumber :
                     \E n \in {r, s} : \A i \in DOMAIN n : n[i] = n[1]}

\* One signature, two of different lengths, and so many that their length needs five
\* bytes.  A key is as long as it may be.
Pub(n) == [i \in 1 .. n |-> (n + i) % Base]
Num(first, second) == [i \in 1 .. NumSize |-> IF i = 1 THEN first ELSE IF i = 2 THEN second ELSE 1]
Sig(n, first, second) == [pub |-> Pub(n), r |-> Num(first, second), s |-> Num(1, 0)]
MCSections ==
    {<<Sig(5, 1, 1)>>, <<Sig(Base - 1, 0, 0), Sig(1, Base - 1, 0)>>,
     [i \in 1 .. Base |-> Sig(5, i - 1, Base - i)]}

\* Two accounts, one of them with two addresses, and others.
MCAccountOf == [a1 |-> "A", a2 |-> "A", b |-> "B"]
Addresses == {"a1", "a2", "b", "other"}
Put(a, v) == [address |-> a, value |-> v, lockTime |-> 0]
LockedPut(a, v) == [Put(a, v) EXCEPT !.lockTime = 6]
MCBlockTxs == {NoTx} \cup
    [type : {1, 2, 101}, height : {5},
     inputs : {<<>>} \cup {<<Put(x, 3), Put(y, 4)>> : x \in Addresses, y \in Addresses},
     outputs : {<<Put(x, 2)>> : x \in Addresses}
               \cup {<<LockedPut(x, 2), Put(y, 1), Put("a1", 1)>> : x \in Addresses, y \in Addresses}]
Moved(x, y, v) == [from |-> x, to |-> y, value |-> v]
MCTokenAnswers ==
    {[ok |-> FALSE, transfers |-> <<>>], [ok |-> TRUE, transfers |-> <<>>],
     [ok |-> TRUE, transfers |-> <<Moved("a1", "b", NotANumber)>>],
     [ok |-> TRUE, transfers |-> <<Moved("a1", "b", 1), Moved("b", "a2", 1)>>]}
    \cup {[ok |-> TRUE, transfers |-> <<Moved(x, y, 7)>>] : x \in {"a1", "other"}, y \in {"a2", "b"}}

MCKeys == {0, 9, 35} \X [1 .. KeySize -> {0, 1, ByteBase - 1}]
=============================================================================
