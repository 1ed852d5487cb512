---------------------------- MODULE TokenSummary ----------------------------
(***************************************************************************)
(* CreateTokenSummaryRawTransaction of nulsio/tx_decode.go: rounds that    *)
(* gather the tokens of an account at one address, and give the coins for  *)
(* the fee to the addresses that lack them.  A round asks for the balances *)
(* (TokenBalances), then looks at one address after the other and makes a  *)
(* token transfer (TokenTransfer) or notes it for a payment of the account *)
(* that supports the fees.  The application sends what a round has made,   *)
(* and begins the next when the node has confirmed it; at any time it may  *)
(* pay tokens from the account.                                            *)
(***************************************************************************)
EXTENDS TokenBalances, TokenTransfer

CONSTANTS
    AddressList,    \* the addresses in the order of the wallet
    Starts,         \* what there may be at first: the coins of the support account and
                    \* its locked ones, and the tokens, the coins and a locked amount of
                    \* each address
    FixSupport,     \* what an address is given (FixSupportAmount)
    FeeMain,        \* the fee of a payment (EstimateFeeRate)
    MinTransfer, RetainedBalance,
    MaxTxInputs,    \* of Config: the most addresses a payment supports
    Receivers,      \* the addresses that may receive tokens from outside
    Received,       \* how many
    PaymentAmount,  \* the tokens the application pays
    MaxTraffic, MaxFailures \* bounds on these two together, and on failing calls

ASSUME SummaryAssumption ==
    /\ \A s \in Starts : s.support \in Nat /\ s.locked \in Nat /\ \A a \in Address : LET h == s.holdings[a] IN
        h.tokens \in Nat /\ h.coins \in Seq(Nat \ {0}) /\ h.locked \in Nat
    /\ Receivers \subseteq Address
    /\ AddressList \in Seq(Address)
    /\ ToSet(AddressList) = Address /\ Len(AddressList) = Count
    /\ {FixSupport, FeeMain, MinTransfer, RetainedBalance, Received,
        PaymentAmount, MaxTraffic, MaxFailures} \subseteq Nat
    /\ MinTransfer >= RetainedBalance /\ FixSupport # 0 /\ MaxTxInputs \in Nat \ {0}

VARIABLES
    tokens, coins, locked,  \* the node: tokens, coins in ascending order and a
                            \* locked amount of each address
    minted,                 \* how many coins an address has had: they are numbered
    support, supportLocked, \* the coins of the support account, and its locked ones
    pool,                   \* the transactions the node has taken
    built,                  \* those that have been made and not yet sent
    isContract,             \* what the request of the summary says of its coin
    pc, todo,               \* how far the round is, what is left of its list
    budget, toMap,          \* supportFessAccount, the addresses to support
    paid,                   \* history: the tokens paid from each address since the
                            \* round began
    failures, traffic

account == <<support, supportLocked>>
wallet  == <<tokens, coins, locked, minted, paid>>
ledger  == <<account, wallet>>
round   == <<pc, todo, budget, toMap, isContract>>
bounds  == <<failures, traffic>>
vars   == <<balances, ledger, pool, built, round, bounds>>

Failure   == failures > 0 /\ failures' = failures - 1 /\ UNCHANGED traffic
NoFailure == UNCHANGED bounds

Coin(a, v, n) == [address |-> a, value |-> v, nr |-> n]
NewCoin(a, v) == Coin(a, v, minted[a] + 1)
Total(a)      == SumOf(coins[a]) + locked[a]
Current       == Head(todo)

\* The balance of the support account: locked coins are part of it.
SupportBalance == support + supportLocked

OfRound(t) == t.kind # "payment"

TypeOK ==
    /\ BalancesTypeOK
    /\ \A a \in Address :
        /\ tokens[a] \in Nat /\ locked[a] \in Nat /\ minted[a] \in Nat /\ paid[a] \in Nat
        /\ \A i \in DOMAIN coins[a] : coins[a][i].address = a /\ coins[a][i].value > 0
    /\ {support, supportLocked, budget} \subseteq Nat /\ toMap \subseteq Address
    /\ pc \in {"idle", "balances", "check", "support", "build", "pay"}
    /\ todo \in Seq([address : Address, balance : Nat])
    /\ \A t \in built \cup pool : t.kind \in {"support", "summary", "payment"}
    /\ isContract \in BOOLEAN /\ failures \in 0 .. MaxFailures

-----------------------------------------------------------------------------
(* A round. *)

\* An error of the round: what it has made is lost.
Abort ==
    /\ pc' = "idle" /\ todo' = <<>> /\ toMap' = {}
    /\ built' = {t \in built : ~OfRound(t)}

\* The application waits for what the last round has made.  The balance of the support
\* account is read: a call that fails gives zero, a malformed answer is an error.
BeginRound ==
    /\ pc = "idle" /\ isContract /\ \A t \in built \cup pool : ~OfRound(t)
    /\ \/ NoFailure /\ budget' = SupportBalance /\ pc' = "balances" /\ Call
       \/ Failure /\ budget' = 0 /\ pc' = "balances" /\ Call
       \/ Failure /\ UNCHANGED <<budget, pc, balances>>
    /\ paid' = [a \in Address |-> 0]
    /\ UNCHANGED <<account, tokens, coins, locked, minted, pool, built, todo, toMap, isContract>>

AskBalance(a) ==
    /\ \/ NoFailure /\ Ask(a, tokens[a])
       \/ Failure /\ Ask(a, Failed)
    /\ UNCHANGED <<ledger, pool, built, round>>

QueryBalances ==
    /\ Collect \/ ReturnBalances \/ \E a \in Address : QueryStep(a)
    /\ UNCHANGED <<ledger, pool, built, round, bounds>>

HaveBalances ==
    /\ pc = "balances" /\ call = "returned"
    /\ Leave
    /\ IF Complete THEN pc' = "check" /\ todo' = list ELSE pc' = "idle" /\ UNCHANGED todo
    /\ UNCHANGED <<ledger, pool, built, budget, toMap, isContract, bounds>>

InList == pc = "check" /\ todo # <<>>

Worthwhile(balance) == balance >= MinTransfer /\ balance > 0

SkipItem ==
    /\ InList /\ ~Worthwhile(Current.balance)
    /\ todo' = Tail(todo)
    /\ UNCHANGED <<balances, ledger, pool, built, pc, budget, toMap, isContract, bounds>>

\* Mutant: the fee of a payment is thought enough.
LacksFeeMain(balance) == balance < FeeMain

LacksFee(balance) == balance < Fee

\* What supporting one address takes.
CostOfOne == FixSupport + FeeMain

\* Mutant: what is set aside is not taken off.
BudgetKept == budget

BudgetLeft == budget - CostOfOne

\* The coins of the address, locked ones included.  A call that fails gives zero, a
\* malformed answer is an error.
CheckFee ==
    /\ InList /\ Worthwhile(Current.balance)
    /\ \/ NoFailure /\ pc' = (IF LacksFee(Total(Current.address)) THEN "support" ELSE "build")
          /\ UNCHANGED <<built, todo, toMap>>
       \/ Failure /\ pc' = "support" /\ UNCHANGED <<built, todo, toMap>>
       \/ Failure /\ Abort
    /\ UNCHANGED <<balances, ledger, pool, budget, isContract>>

Enough == budget >= CostOfOne

\* Mutant: the loop stays at the address.
NoSupportAgain ==
    /\ pc = "support" /\ ~Enough
    /\ pc' = "check"
    /\ UNCHANGED <<balances, ledger, pool, built, todo, budget, toMap, isContract, bounds>>

\* Not even the support account has enough: the address is left out.
NoSupport ==
    /\ pc = "support" /\ ~Enough
    /\ pc' = "check" /\ todo' = Tail(todo)
    /\ UNCHANGED <<balances, ledger, pool, built, budget, toMap, isContract, bounds>>

\* The address is noted; when there are enough of them the round ends with their
\* payment, whatever is left in the list.  The request now says it is not for tokens.
NoteForSupport ==
    /\ pc = "support" /\ Enough
    /\ toMap' = toMap \cup {Current.address}
    /\ budget' = BudgetLeft /\ isContract' = FALSE
    /\ IF Cardinality(toMap') = MaxTxInputs THEN pc' = "pay" /\ todo' = <<>>
       ELSE pc' = "check" /\ todo' = Tail(todo)
    /\ UNCHANGED <<balances, ledger, pool, built, bounds>>

Transfer(kind, made) ==
    IF made.error = "none" THEN
    [kind |-> kind, error |-> "none", sender |-> made.sender, amount |-> made.amount,
     inputs |-> made.inputs, change |-> made.change]
    ELSE [kind |-> kind, error |-> made.error]

\* What the node says of an address when a transfer is made.
View(a, tokensRead, coinsRead) ==
    [address |-> a, tokens |-> tokens[a], tokensRead |-> tokensRead,
     coins |-> Ascending(coins[a]), coinsRead |-> coinsRead]

\* Mutant: nothing is retained.
WholeAmount(balance) == balance

SumAmount(balance) == balance - RetainedBalance

\* A transfer from the address alone, which is asked once more for its tokens and coins.
BuildTransfer ==
    /\ pc = "build"
    /\ \E view \in {View(Current.address, read, read) : read \in BOOLEAN} :
        /\ IF view.coinsRead THEN NoFailure ELSE Failure
        /\ built' = built \cup
              {Transfer("summary", CreateNrc20(<<view>>, SumAmount(Current.balance)))}
    /\ pc' = "check" /\ todo' = Tail(todo)
    /\ UNCHANGED <<balances, ledger, pool, budget, toMap, isContract>>

FinishRound ==
    /\ pc = "check" /\ todo = <<>>
    /\ pc' = IF toMap = {} THEN "idle" ELSE "pay"
    /\ UNCHANGED <<balances, ledger, pool, built, todo, budget, toMap, isContract, bounds>>

CostOfAll(addresses) == FixSupport * Cardinality(addresses) + FeeMain

SupportOf(addresses, e) == [kind |-> "support", to |-> addresses, error |-> e]

\* The payment to the addresses noted: CreateSimpleRawTransaction, whose coins may
\* not be read.  It can spend the coins that are not locked.
PaySupport ==
    /\ pc = "pay"
    /\ \/ /\ NoFailure
          /\ built' = built \cup {SupportOf(toMap,
                 IF support < CostOfAll(toMap) THEN "no coins" ELSE "none")}
       \/ Failure /\ built' = built \cup {SupportOf(toMap, "unread")}
    /\ pc' = "idle" /\ toMap' = {}
    /\ UNCHANGED <<balances, ledger, pool, todo, budget, isContract>>

-----------------------------------------------------------------------------
(* The application and the node. *)

\* A request for tokens once more.  Used again as it is, it would be one for a summary
\* of coins.
NewRequest ==
    /\ pc = "idle" /\ ~isContract /\ isContract' = TRUE
    /\ UNCHANGED <<balances, ledger, pool, built, pc, todo, budget, toMap, bounds>>

\* CreateNrc20RawTransaction for a payment: all the addresses, some of which may
\* not be read.
PayTokens ==
    /\ traffic > 0 /\ traffic' = traffic - 1
    /\ \E unread \in SUBSET Address :
        LET views == [i \in DOMAIN AddressList |->
                         View(AddressList[i], TRUE, AddressList[i] \notin unread)]
        IN  /\ Cardinality(unread) <= failures
            /\ failures' = failures - Cardinality(unread)
            /\ built' = built \cup {Transfer("payment", CreateNrc20(views, PaymentAmount))}
    /\ UNCHANGED <<balances, ledger, pool, round>>

\* A round hands over what it has made when it ends.
AtHand(t) == t \in built /\ (OfRound(t) => pc = "idle")

IsSpent(c) ==
    \/ c \notin ToSet(coins[c.address])
    \/ \E u \in pool : u.kind # "support" /\ c \in ToSet(u.inputs)

\* The node refuses a transaction when a coin of its inputs is gone.
Accepted(t) == t.kind # "support" => ~ \E c \in ToSet(t.inputs) : IsSpent(c)

\* Signed and sent.  When that fails it is given up.
Send(t) ==
    /\ AtHand(t) /\ t.error = "none"
    /\ built' = built \ {t}
    /\ \/ NoFailure /\ pool' = IF Accepted(t) THEN pool \cup {t} ELSE pool
       \/ Failure /\ UNCHANGED pool
    /\ UNCHANGED <<balances, ledger, round>>

\* What could not be made is reported and dropped.
Drop(t) ==
    /\ AtHand(t) /\ t.error # "none"
    /\ built' = built \ {t}
    /\ UNCHANGED <<balances, ledger, pool, round, bounds>>

With(cs, c)    == InsertAt(cs, 1 + Cardinality({i \in DOMAIN cs : cs[i].value < c.value}), c)
Less(cs, used) == FoldLeft(LAMBDA rest, c : RemoveFirst(rest, c), cs, used)

\* What the contract moves: the tokens if they are there.
Moved(t) == IF tokens[t.sender] >= t.amount THEN t.amount ELSE 0

\* The fee is gone in any case.
ConfirmTransfer(t) ==
    /\ t \in pool /\ t.kind # "support"
    /\ pool' = pool \ {t}
    /\ tokens' = [tokens EXCEPT ![t.sender] = @ - Moved(t)]
    /\ LET rest == [a \in Address |-> Less(coins[a], t.inputs)] IN
        coins' = [rest EXCEPT ![t.sender] = With(@, NewCoin(t.sender, t.change))]
    /\ minted' = [minted EXCEPT ![t.sender] = @ + 1]
    /\ paid' = [paid EXCEPT ![t.sender] = IF OfRound(t) THEN @ ELSE @ + Moved(t)]
    /\ UNCHANGED <<balances, locked, account, built, round, bounds>>

ConfirmSupport(t) ==
    /\ t \in pool /\ t.kind = "support"
    /\ pool' = pool \ {t}
    /\ support' = support - CostOfAll(t.to)
    /\ coins' = [a \in Address |->
                    IF a \in t.to THEN With(coins[a], NewCoin(a, FixSupport)) ELSE coins[a]]
    /\ minted' = [a \in Address |-> IF a \in t.to THEN minted[a] + 1 ELSE minted[a]]
    /\ UNCHANGED <<balances, tokens, locked, paid, supportLocked, built, round, bounds>>

\* The lock time of a coin passes.
Unlock(a) ==
    /\ locked[a] > 0
    /\ coins' = [coins EXCEPT ![a] = With(@, NewCoin(a, locked[a]))]
    /\ minted' = [minted EXCEPT ![a] = @ + 1]
    /\ locked' = [locked EXCEPT ![a] = 0]
    /\ UNCHANGED <<balances, account, tokens, paid, pool, built, round, bounds>>

UnlockSupport ==
    /\ supportLocked > 0
    /\ support' = SupportBalance /\ supportLocked' = 0
    /\ UNCHANGED <<balances, wallet, pool, built, round, bounds>>

\* Tokens come from outside.
Receive(a) ==
    /\ a \in Receivers /\ traffic > 0 /\ traffic' = traffic - 1
    /\ tokens' = [tokens EXCEPT ![a] = @ + Received]
    /\ UNCHANGED <<balances, account, coins, locked, minted, paid>>
    /\ UNCHANGED <<pool, built, round, failures>>

-----------------------------------------------------------------------------

Init ==
    /\ Idle
    /\ \E s \in Starts : LET h == s.holdings IN
        /\ support = s.support /\ supportLocked = s.locked
        /\ tokens = [a \in Address |-> h[a].tokens]
        /\ coins = [a \in Address |-> [i \in DOMAIN h[a].coins |-> Coin(a, h[a].coins[i], i)]]
        /\ minted = [a \in Address |-> Len(h[a].coins)]
        /\ locked = [a \in Address |-> h[a].locked]
    /\ isContract = TRUE /\ paid = [a \in Address |-> 0]
    /\ pool = {} /\ built = {}
    /\ pc = "idle" /\ todo = <<>> /\ budget = 0 /\ toMap = {}
    /\ failures = MaxFailures /\ traffic = MaxTraffic

RoundStep ==
    \/ QueryBalances \/ HaveBalances \/ SkipItem \/ CheckFee \/ NoSupport
    \/ NoteForSupport \/ BuildTransfer \/ FinishRound \/ PaySupport
    \/ \E a \in Address : AskBalance(a)

Settle(t) == Send(t) \/ Drop(t) \/ ConfirmTransfer(t) \/ ConfirmSupport(t)

SettleRound   == \E t \in built \cup pool : OfRound(t) /\ Settle(t)
SettlePayment == \E t \in built \cup pool : ~OfRound(t) /\ Settle(t)

LockEnds == UnlockSupport \/ \E a \in Address : Unlock(a)

Work == NewRequest \/ BeginRound \/ RoundStep \/ SettleRound

Next ==
    \/ Work \/ PayTokens \/ SettlePayment \/ LockEnds
    \/ \E a \in Address : Receive(a)

Spec == Init /\ [][Next]_vars

\* A round goes on, and what it has made is sent and confirmed; the application
\* begins round after round; payments are sent and confirmed; locks end.  Receipts and
\* payments may never come.
Fairness == WF_vars(Work) /\ WF_vars(SettlePayment) /\ WF_vars(LockEnds)

FairSpec == Spec /\ Fairness

-----------------------------------------------------------------------------
(* Properties. *)

\* A summary leaves the balance to retain at the address, although the balance was read
\* long before, by another goroutine: it is short by what has been paid from the address
\* since the round began, and by no more (lines 646 and 664 of tx_decode.go).
SummaryRetainsBalance ==
    [][\A t \in pool \ pool' : t.kind = "summary" =>
          tokens'[t.sender] + paid[t.sender] >= RetainedBalance]_vars

\* What is set aside for the addresses noted, one after the other, covers the one
\* payment made to all of them: it is made for want of coins in vain only while the
\* coins it lacks are locked (lines 612-622, 690-700 and 771-780 of tx_decode.go).
SupportIsAffordable ==
    [][\A t \in built' \ built : t.kind = "support" /\ t.error = "no coins" =>
          support < CostOfAll(t.to) /\ CostOfAll(t.to) <= SupportBalance]_vars

\* A summary gives away its fee and no more (lines 312-338 and 386-388 of tx_decode.go).
SummaryPaysItsFee ==
    \A t \in built \cup pool :
        t.kind = "summary" /\ t.error = "none" => SumOf(t.inputs) - t.change = Fee

\* So does a payment of tokens (lines 324-336 of tx_decode.go choose its coins).
PaymentPaysItsFee ==
    \A t \in built \cup pool :
        t.kind = "payment" /\ t.error = "none" => SumOf(t.inputs) - t.change = Fee

\* Every round ends: its goroutines, its collector and its loop (lines 98-160 of
\* contract_decoder.go and 652-762 of tx_decode.go).
EveryRoundEnds == []<>(pc = "idle")

\* The coins that would be taken make up the fee: without change the transfer has no
\* output and is refused (lines 386-388 of tx_decode.go).
NoChange(a) == Change(Take(Ascending(coins[a]), Fee)) = 0

\* Round after round, addresses that lack the fee are given it and every address is
\* relieved of its tokens in the end, as long as the support account has enough for
\* one address (lines 682-791 of tx_decode.go).  An address whose coins make up the fee
\* without change keeps its tokens.
TokensAreGathered ==
    []<>(SupportBalance < CostOfOne
         \/ \A a \in Address : tokens[a] < MinTransfer \/ NoChange(a))
=============================================================================
