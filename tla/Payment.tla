------------------------------ MODULE Payment ------------------------------
(***************************************************************************)
(* The raw transactions of nulsio/tx_decode.go, from their creation to the *)
(* node's ledger: payments (CreateSimpleRawTransaction) and summaries, the *)
(* transactions that gather an account's coins at one address              *)
(* (CreateSimpleSummaryRawTransaction), with SignRawTransaction,           *)
(* VerifyRawTransaction and SubmitRawTransaction, each called by the       *)
(* application when it likes.                                              *)
(*                                                                         *)
(* The adapter keeps no list of coins: it asks the node for those of one   *)
(* address after the other while other transactions are made, accepted and *)
(* confirmed.  Amounts are whole numbers of the smallest unit.             *)
(***************************************************************************)
EXTENDS Coins, FiniteSets

CONSTANTS
    Address,        \* every address
    Own,            \* the addresses of the account
    Tx,             \* the raw transactions the application has made
    Orders,         \* what it may ask for: a kind, "payment" or "summary", and
                    \* for a payment the amount of each receiver
    Minted,         \* the coins there are at first
    SummaryAddress, MinTransfer, RetainedBalance, MaxTxInputs,
    Fee,            \* the fee of a transaction, a constant of the code
    Modulus,        \* amounts of outputs are uint64: modulo this
    MaxFailures     \* bound on the calls to the node that fail

\* A coin (UtxoDto) has an identity, an owner, a value and may be locked.
Coin(id, a, v, l) == [id |-> id, address |-> a, value |-> v, locked |-> l]

ASSUME PaymentAssumption ==
    /\ IsFiniteSet(Address) /\ Own \subseteq Address /\ SummaryAddress \in Address
    /\ \A o \in Orders : o.kind = "payment" =>
           DOMAIN o.to \in SUBSET Address /\ o.to \in [DOMAIN o.to -> Nat]
    /\ IsFiniteSet(Minted)
    /\ \A c \in Minted : /\ c.address \in Address /\ c.value \in 1 .. Modulus - 1
                         /\ c.id \notin Tx \X Address
    /\ {MinTransfer, RetainedBalance, MaxFailures} \subseteq Nat
    /\ {Fee, MaxTxInputs, Modulus} \subseteq Nat \ {0}
    /\ MinTransfer >= RetainedBalance

VARIABLES
    unspent, accepted, confirmed,   \* the node: its coins, the transactions in
                                    \* its pool and those in its blocks
    failures,                       \* failures left
    order,                          \* order[t]: what t is made for
    pc,                             \* pc[t]: how far the making of t is
    todo, listed,                   \* the addresses still to be asked, the coins
    inputs, outputs, txAmount,      \* the transaction made
    signed, hex,                    \* its signatures, and what RawHex holds
    completed, submitted            \* IsCompleted and IsSubmit

node   == <<unspent, accepted, confirmed>>
making == <<pc, todo, listed, inputs, outputs, txAmount>>
life   == <<signed, hex, completed, submitted>>
vars   == <<node, failures, order, making, life>>

ValueOf(coins) == MapThenSumSet(LAMBDA c : c.value, coins)
Balance(a)     == ValueOf({c \in unspent : c.address = a})
OwnBalance     == ValueOf({c \in unspent : c.address \in Own})
IsPayment(t)   == order[t].kind = "payment"
Made(t)        == pc[t] = "made"

TypeOK ==
    /\ accepted \subseteq Tx /\ confirmed \subseteq Tx
    /\ failures \in 0 .. MaxFailures
    /\ \A c \in unspent : c.address \in Address /\ c.value \in 0 .. Modulus - 1
    /\ \A t \in Tx :
        /\ order[t] \in Orders
        /\ pc[t] \in {"new", "listing", "made", "refused"}
        /\ todo[t] \subseteq Own
        /\ DOMAIN outputs[t] \subseteq Address
        /\ \A a \in DOMAIN outputs[t] : outputs[t][a] \in 0 .. Modulus - 1
        /\ hex[t] \in {"none", "bare", "signed", "spoilt"}
        /\ {signed[t], completed[t], submitted[t]} \subseteq BOOLEAN

-----------------------------------------------------------------------------
(* The node. *)

Failure   == failures > 0 /\ failures' = failures - 1
NoFailure == failures' = failures

InPool == UNION {inputs[t] : t \in accepted}

\* The coins GetUnSpent may give for an address, in any order: the locked ones
\* are filtered out; the node may still list what a transaction of its pool spends.
MayList(a) ==
    LET free == {c \in unspent : c.address = a /\ ~c.locked}
    IN  SetToSeqs(free) \cup SetToSeqs(free \ InPool)

\* The node takes a signed transaction whose inputs are there and cover its outputs.
Acceptable(t, h) ==
    /\ h = "signed"
    /\ t \notin accepted \cup confirmed
    /\ inputs[t] \subseteq unspent \ InPool
    /\ ValueOf(inputs[t]) >= SumFunction(outputs[t])

Confirm(t) ==
    /\ t \in accepted
    /\ accepted' = accepted \ {t} /\ confirmed' = confirmed \cup {t}
    /\ unspent' = (unspent \ inputs[t]) \cup
                  {Coin(<<t, a>>, a, outputs[t][a], FALSE) : a \in DOMAIN outputs[t]}
    /\ UNCHANGED <<failures, order, making, life>>

-----------------------------------------------------------------------------
(* Choosing coins and building a transaction. *)

\* EstimateFee: what it computes from the size is replaced by a constant.
EstimateFee(ins, outs) == Fee

\* Mutant: the second round, with the fee in the target, is given up.
TakeOnce(coins, total, fees) ==
    LET used == Take(coins, total) IN IF SumOf(used) < total + fees THEN <<>> ELSE used

\* The loop of CreateSimpleRawTransaction: coins for what is sent; when they leave
\* less than the fee, again with the fee in the target.  As the fee is always the
\* same, there is no third round.  <<>> for an error.
ChooseCoins(coins, total, fees) ==
    LET used   == Take(coins, total)
        target == IF SumOf(used) < total + fees THEN total + fees ELSE total
        again  == Take(coins, target)
    IN  IF SumOf(again) < target THEN <<>> ELSE again

\* Mutant: an amount replaces the one the address has.
AppendOutputAnew(outs, a, v) == [x \in DOMAIN outs \cup {a} |-> IF x = a THEN v ELSE outs[x]]

AppendOutput(outs, a, v) ==
    [x \in DOMAIN outs \cup {a} |->
        IF x # a THEN outs[x] ELSE v + IF a \in DOMAIN outs THEN outs[a] ELSE 0]

Nothing == [a \in {} |-> 0]

\* Mutant: what goes to the account's own addresses counts as sent.
SentAll(outs) == SumFunction(outs)

\* What leaves the account.
Sent(outs) == SumFunctionOnSet(outs, DOMAIN outs \ Own)

Refuse(t) == pc' = [pc EXCEPT ![t] = "refused"] /\ UNCHANGED <<inputs, outputs, txAmount, hex>>

\* Mutant: the sign is kept.
Signed(n) == n

\* A negative amount becomes a great one.
Uint64(n) == n % Modulus

\* createSimpleRawTransaction: without coins there is an error.
CreateSimple(t, used, outs) ==
    IF used = <<>> THEN Refuse(t)
    ELSE /\ pc' = [pc EXCEPT ![t] = "made"]
         /\ inputs' = [inputs EXCEPT ![t] = ToSet(used)]
         /\ outputs' = [outputs EXCEPT ![t] = [a \in DOMAIN outs |-> Uint64(outs[a])]]
         /\ txAmount' = [txAmount EXCEPT ![t] = - (Sent(outs) + Fee)]
         /\ hex' = [hex EXCEPT ![t] = "bare"]

\* A payment: the change goes to the owner of the first coin.
CreatePayment(t, coins) ==
    LET to     == order[t].to
        total  == SumFunction(to)
        used   == ChooseCoins(coins, total, EstimateFee(Len(coins), Cardinality(DOMAIN to) + 1))
        change == SumOf(used) - total - Fee
    IN  IF used = <<>> THEN Refuse(t)
        ELSE CreateSimple(t, used,
                 IF change > 0 THEN AppendOutput(to, used[1].address, change) ELSE to)

\* What a summary retains: the balance to retain, once for each coin.
Retained(coins) ==
    IF RetainedBalance = 0 THEN Nothing
    ELSE [a \in {c.address : c \in ToSet(coins)} |->
             RetainedBalance * Cardinality({c \in ToSet(coins) : c.address = a})]

\* A summary: the balance to retain is taken off once for each address.
CreateSummary(t, coins) ==
    LET kept == Retained(coins)
        fees == EstimateFee(Len(coins), Cardinality(DOMAIN kept) + 1)
        sum  == SumOf(coins) - RetainedBalance * Cardinality(DOMAIN kept) - fees
    IN  CreateSimple(t, coins, AppendOutput(kept, SummaryAddress, sum))

-----------------------------------------------------------------------------
(* The calls of the application. *)

Rich == {a \in Own : Balance(a) >= MinTransfer}

AskFor(t, asked) ==
    /\ todo' = [todo EXCEPT ![t] = asked]
    /\ pc' = [pc EXCEPT ![t] = IF asked = {} THEN "refused" ELSE "listing"]

\* The addresses to ask: for a payment all of them; for a summary those with enough
\* balance, locked coins included, if there is any.  A query of a balance that fails
\* gives zero, a malformed answer refuses the summary.  (The balances are asked for
\* one by one; the model reads them at one moment.)
Begin(t) ==
    /\ pc[t] = "new"
    /\ \/ IsPayment(t)  /\ NoFailure /\ AskFor(t, Own)
       \/ ~IsPayment(t) /\ NoFailure /\ AskFor(t, Rich)
       \/ ~IsPayment(t) /\ Failure /\ \E a \in Own : AskFor(t, Rich \ {a})
       \/ ~IsPayment(t) /\ Failure /\ AskFor(t, {})
    /\ UNCHANGED <<node, order, listed, inputs, outputs, txAmount, life>>

\* The coins t has when the answer for one more address comes: a summary skips an
\* address that would bring it to the greatest number of inputs.
Gather(t, more) ==
    IF IsPayment(t) \/ Len(listed[t]) + Len(more) < MaxTxInputs
    THEN listed[t] \o more ELSE listed[t]

\* GetUnSpent of the next address.  After the last one the transaction is made.  (A
\* summary is also made when it has the greatest number of inputs: it never has.)
ListUnspent(t) ==
    /\ pc[t] = "listing"
    /\ NoFailure
    /\ \E a \in todo[t] : \E more \in MayList(a) :
        LET coins == Gather(t, more) IN
        /\ todo' = [todo EXCEPT ![t] = @ \ {a}]
        /\ listed' = [listed EXCEPT ![t] = coins]
        /\ \/ todo[t] # {a} /\ UNCHANGED <<pc, inputs, outputs, txAmount, hex>>
           \/ todo[t] = {a} /\ IsPayment(t) /\ CreatePayment(t, coins)
           \/ todo[t] = {a} /\ ~IsPayment(t) /\ CreateSummary(t, coins)
    /\ UNCHANGED <<node, order, signed, completed, submitted>>

\* An address that cannot be asked is skipped; when it is the last one a payment
\* is made of the coins there are, a summary is not made.
ListFails(t) ==
    /\ pc[t] = "listing"
    /\ Failure
    /\ \E a \in todo[t] :
        /\ todo' = [todo EXCEPT ![t] = @ \ {a}]
        /\ \/ todo[t] # {a} /\ UNCHANGED <<pc, inputs, outputs, txAmount, hex>>
           \/ todo[t] = {a} /\ IsPayment(t) /\ CreatePayment(t, listed[t])
           \/ todo[t] = {a} /\ ~IsPayment(t) /\ Refuse(t)
    /\ UNCHANGED <<node, order, listed, signed, completed, submitted>>

SignRawTransaction(t) ==
    /\ Made(t) /\ ~signed[t]
    /\ signed' = [signed EXCEPT ![t] = TRUE]
    /\ UNCHANGED <<node, failures, order, making, hex, completed, submitted>>

\* The signatures are appended to RawHex, a second time if they are there; only then
\* is the node asked whether it is valid, and IsCompleted stays whatever it answers.
\* (A transaction without signatures makes it panic: nothing changes.)
VerifyRawTransaction(t) ==
    /\ Made(t) /\ signed[t]
    /\ hex' = [hex EXCEPT ![t] = IF @ = "bare" THEN "signed" ELSE "spoilt"]
    /\ completed' = [completed EXCEPT ![t] = TRUE]
    /\ UNCHANGED <<node, failures, order, making, signed, submitted>>

\* The node takes the transaction, and its answer may be lost.  A call it refuses
\* changes nothing.
SubmitRawTransaction(t) ==
    /\ completed[t] /\ Acceptable(t, hex[t])
    /\ accepted' = accepted \cup {t}
    /\ \/ NoFailure /\ submitted' = [submitted EXCEPT ![t] = TRUE]
       \/ Failure /\ UNCHANGED submitted
    /\ UNCHANGED <<unspent, confirmed, order, making, signed, hex, completed>>

-----------------------------------------------------------------------------

Init ==
    /\ unspent = Minted /\ accepted = {} /\ confirmed = {}
    /\ failures = MaxFailures
    /\ order \in [Tx -> Orders]
    /\ pc = [t \in Tx |-> "new"] /\ todo = [t \in Tx |-> {}]
    /\ listed = [t \in Tx |-> <<>>]
    /\ inputs = [t \in Tx |-> {}] /\ outputs = [t \in Tx |-> Nothing]
    /\ txAmount = [t \in Tx |-> 0]
    /\ hex = [t \in Tx |-> "none"]
    /\ signed = [t \in Tx |-> FALSE] /\ completed = [t \in Tx |-> FALSE]
    /\ submitted = [t \in Tx |-> FALSE]

Next == \E t \in Tx :
    \/ Begin(t) \/ ListUnspent(t) \/ ListFails(t)
    \/ SignRawTransaction(t) \/ VerifyRawTransaction(t) \/ SubmitRawTransaction(t)
    \/ Confirm(t)

Spec == Init /\ [][Next]_vars

-----------------------------------------------------------------------------
(* Properties. *)

\* What a summary retains a second time: the balance to retain goes back to an address
\* for each of its coins, and is taken off the sum once (lines 485-491 and 521 of
\* tx_decode.go).  The node loses that much of the fee.
RetainedTwice(t) ==
    IF IsPayment(t) THEN 0
    ELSE RetainedBalance * (Cardinality(inputs[t]) - Cardinality({c.address : c \in inputs[t]}))

\* A transaction the node has taken gives away the fee that was estimated, less what it
\* retains a second time and for no other reason, however the coins changed hands while
\* it was made (lines 136-213 and 471-546 of tx_decode.go).
TakenPaysItsFee ==
    \A t \in accepted \cup confirmed :
        ValueOf(inputs[t]) - SumFunction(outputs[t]) = Fee - RetainedTwice(t)

\* The amount shown to the owner is the change of the account's balance, change and
\* transfers between own addresses not counted, but for what is retained a second time
\* (lines 995-1005 and 1091-1097 of tx_decode.go).
AmountIsBalanceChange ==
    [][\A t \in confirmed' \ confirmed :
          OwnBalance' - OwnBalance = txAmount[t] + RetainedTwice(t)]_vars

\* A payment is refused only when the coins there are do not cover it and its fee;
\* otherwise it takes the first of them, as many as cover both and not one more,
\* although they are chosen twice, with the fee and without (the loop of lines 139-178
\* of tx_decode.go).
PaymentTakesJustEnough ==
    \A t \in Tx : IsPayment(t) =>
        LET cost == SumFunction(order[t].to) + Fee IN
        /\ pc[t] = "refused" => SumOf(listed[t]) < cost
        /\ Made(t) => \E n \in 1 .. Len(listed[t]) :
              /\ inputs[t] = ToSet(SubSeq(listed[t], 1, n))
              /\ SumOf(SubSeq(listed[t], 1, n)) >= cost
              /\ SumOf(SubSeq(listed[t], 1, n - 1)) < cost
=============================================================================
