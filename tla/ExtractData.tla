---------------------------- MODULE ExtractData ----------------------------
(***************************************************************************)
(* ExtractTransaction of nulsio/blockscanner.go: what the accounts of the  *)
(* wallet are told of a transaction, of its coins and, when it calls a     *)
(* contract, of the tokens it moves.  Inputs, outputs and the two sides of *)
(* a transfer are records with an address and a value; the data of an      *)
(* account are kept in a function from the accounts that have any.         *)
(***************************************************************************)
EXTENDS Coins, FiniteSets

CONSTANT AccountOf      \* scanAddressFunc: the account of each address it knows

ASSUME ExtractAssumption == IsFiniteSet(DOMAIN AccountOf)

Accounts == {AccountOf[a] : a \in DOMAIN AccountOf}

NoTx    == [type |-> 0]      \* trx == nil
NoData  == <<>>
NewData == [inputs |-> <<>>, outputs |-> <<>>]

\* Mutant: each put starts the data of its account anew.
DataAnew(result, account) == NewData

DataOf(result, account) ==
    IF account \in DOMAIN result THEN result[account] ELSE NewData

AddTo(result, put, side) ==
    IF put.address \notin DOMAIN AccountOf THEN result
    ELSE LET account == AccountOf[put.address] IN
         [a \in DOMAIN result \cup {account} |->
              IF a = account THEN [DataOf(result, account) EXCEPT ![side] = Append(@, put)]
                             ELSE result[a]]

AddAll(result, puts, side) == FoldLeft(LAMBDA r, p : AddTo(r, p, side), result, puts)

\* The data of all accounts; the fee is what the outputs leave of the inputs.
Extracted(ins, outs) ==
    LET data == AddAll(AddAll(NoData, ins, "inputs"), outs, "outputs") IN
    [a \in DOMAIN data |-> [inputs |-> data[a].inputs, outputs |-> data[a].outputs,
                            fees |-> SumOf(ins) - SumOf(outs)]]

\* An output locked beyond the block is passed over, in the sum as well.
AddUnlocked(outputs, o, height) ==
    IF o.lockTime <= height THEN Append(outputs, o) ELSE outputs
Unlocked(tx) == FoldLeft(LAMBDA s, o : AddUnlocked(s, o, tx.height), <<>>, tx.outputs)

\* Types 2 and 101: payments and calls of contracts.
ExtractCoins(tx) ==
    IF tx.type \in {2, 101} THEN Extracted(tx.inputs, Unlocked(tx)) ELSE NoData

\* The node's answer about the call: the transfers of tokens, of which there must be one,
\* with a value that is a number.
NotANumber == -1
Readable(transfers) == IF transfers[1].value = NotANumber THEN <<>> ELSE transfers
Side(transfers, side) ==
    [i \in DOMAIN transfers |-> [address |-> transfers[i][side], value |-> transfers[i].value]]
ExtractTokens(tx, answer) ==
    IF tx.type = 101 /\ answer.ok /\ Len(answer.transfers) = 1
    THEN LET moved == Readable(answer.transfers)
         IN  Extracted(Side(moved, "from"), Side(moved, "to"))
    ELSE NoData

ExtractTransaction(tx, answer) ==
    IF tx = NoTx THEN [success |-> FALSE, coins |-> NoData, tokens |-> NoData]
    ELSE [success |-> TRUE, coins |-> ExtractCoins(tx), tokens |-> ExtractTokens(tx, answer)]

-----------------------------------------------------------------------------

\* What the ledger of the node says an account gains by inputs and outputs, address by
\* address, and what the data say.
AtAddress(puts, address) ==
    SumFunctionOnSet([i \in DOMAIN puts |-> puts[i].value],
                     {i \in DOMAIN puts : puts[i].address = address})
LedgerGain(ins, outs, account) ==
    SumFunctionOnSet([a \in DOMAIN AccountOf |-> AtAddress(outs, a) - AtAddress(ins, a)],
                     {a \in DOMAIN AccountOf : AccountOf[a] = account})
DataGain(data, account) ==
    IF account \in DOMAIN data
    THEN SumOf(data[account].outputs) - SumOf(data[account].inputs) ELSE 0

\* Data are for the accounts that have a share in a transaction, and for no other.
HasShare(ins, outs, account) ==
    \E p \in ToSet(ins \o outs) : p.address \in DOMAIN AccountOf /\ AccountOf[p.address] = account
Faithful(data, ins, outs) ==
    /\ DOMAIN data = {a \in Accounts : HasShare(ins, outs, a)}
    /\ \A a \in Accounts : DataGain(data, a) = LedgerGain(ins, outs, a)

\* With several addresses of one account, and several accounts, among the inputs and
\* outputs every account is told exactly of what it gains or loses, in coins it may
\* spend and in tokens (lines 543-572, 609-648, 708-714 and 853-859 of blockscanner.go).
AccountsAreTold(tx, answer) ==
    LET told == ExtractTransaction(tx, answer) IN
    /\ tx.type \in {2, 101} => Faithful(told.coins, tx.inputs, Unlocked(tx))
    /\ tx.type = 101 /\ answer.ok /\ Len(answer.transfers) = 1
           /\ answer.transfers[1].value # NotANumber =>
           Faithful(told.tokens, Side(answer.transfers, "from"), Side(answer.transfers, "to"))
=============================================================================
