--------------------------- MODULE TokenBalances ---------------------------
(***************************************************************************)
(* GetTokenBalanceByAddress of nulsio/contract_decoder.go: a goroutine for *)
(* each address asks the node, at most so many at a time, and a collector  *)
(* counts their results.  One call is under way at a time here; goroutines *)
(* that outlive their call hold channels of their own and do nothing more. *)
(***************************************************************************)
EXTENDS Integers, Sequences, FiniteSets

CONSTANTS
    Address,    \* the addresses asked for
    Slots,      \* the capacity of threadControl
    Buffer      \* the capacity of resultChan

ASSUME BalancesAssumption ==
    IsFiniteSet(Address) /\ Address # {} /\ {Slots, Buffer} \subseteq Nat \ {0}

VARIABLES
    call,       \* "none", "running" or "returned"
    thread,     \* thread[a]: the goroutine of address a
    answer,     \* answer[a]: the balance it has been given, or Failed
    results,    \* resultChan
    counted,    \* the collector's i
    list        \* tokenBalanceList

balances == <<call, thread, answer, results, counted, list>>

Failed == -1
Count  == Cardinality(Address)

BalancesTypeOK ==
    /\ call \in {"none", "running", "returned"}
    /\ thread \in [Address -> {"waiting", "asking", "sending", "releasing", "ended"}]
    /\ answer \in [Address -> Nat \cup {Failed}]
    /\ results \in Seq(Address) /\ Len(results) <= Buffer
    /\ counted \in 0 .. Count
    /\ list \in Seq([address : Address, balance : Nat])

InSlot == {a \in Address : thread[a] \in {"asking", "sending", "releasing"}}

Idle ==
    /\ call = "none" /\ thread = [a \in Address |-> "ended"]
    /\ answer = [a \in Address |-> Failed]
    /\ results = <<>> /\ counted = 0 /\ list = <<>>

Call ==
    /\ call' = "running" /\ thread' = [a \in Address |-> "waiting"]
    /\ answer' = [a \in Address |-> Failed]
    /\ results' = <<>> /\ counted' = 0 /\ list' = <<>>

TakeSlot(a) ==
    /\ call = "running" /\ thread[a] = "waiting" /\ Cardinality(InSlot) < Slots
    /\ thread' = [thread EXCEPT ![a] = "asking"]
    /\ UNCHANGED <<call, answer, results, counted, list>>

\* GetTokenBalancesReal gives r.
Ask(a, r) ==
    /\ thread[a] = "asking"
    /\ answer' = [answer EXCEPT ![a] = r]
    /\ thread' = [thread EXCEPT ![a] = "sending"]
    /\ UNCHANGED <<call, results, counted, list>>

\* The deferred function: hand over the result, then give the slot back.
HandOver(a) ==
    /\ thread[a] = "sending" /\ Len(results) < Buffer
    /\ results' = Append(results, a)
    /\ thread' = [thread EXCEPT ![a] = "releasing"]
    /\ UNCHANGED <<call, answer, counted, list>>

ReleaseSlot(a) ==
    /\ thread[a] = "releasing"
    /\ thread' = [thread EXCEPT ![a] = "ended"]
    /\ UNCHANGED <<call, answer, results, counted, list>>

Result(a) == [address |-> a, balance |-> answer[a]]

\* Mutant: nil is appended as well.
KeptEvenNil(a) == <<Result(a)>>

Kept(a) == IF answer[a] = Failed THEN <<>> ELSE <<Result(a)>>

\* The collector.  A query that failed hands over nil, which is counted only.
Collect ==
    /\ call = "running" /\ results # <<>> /\ counted < Count
    /\ list' = list \o Kept(Head(results))
    /\ results' = Tail(results) /\ counted' = counted + 1
    /\ UNCHANGED <<call, thread, answer>>

\* Mutant: the collector stops one result early.
CollectedEarly == counted >= Count - 1

Collected == counted = Count

ReturnBalances ==
    /\ call = "running" /\ Collected
    /\ call' = "returned"
    /\ UNCHANGED <<thread, answer, results, counted, list>>

\* Mutant: what there is will do.
CompleteIfAny == list # <<>>

\* A list that is too short is an error.
Complete == Len(list) = Count

\* The caller has the list.  Goroutines still there have nothing left to do.
Leave ==
    /\ call' = "none" /\ thread' = [a \in Address |-> "ended"]
    /\ answer' = [a \in Address |-> Failed]
    /\ results' = <<>> /\ counted' = 0 /\ list' = <<>>

QueryStep(a) == TakeSlot(a) \/ HandOver(a) \/ ReleaseSlot(a)

\* No goroutine sends its result once the call has returned and its channels are
\* closed: that would be a panic (lines 101, 103 and 122 of contract_decoder.go).
NoSendAfterReturn ==
    call = "returned" => \A a \in Address : thread[a] \in {"releasing", "ended"}

\* A list that is returned has every address once, with the balance the node gave
\* for it: an address whose query failed is never just left out (lines 112, 123 and
\* 155-158 of contract_decoder.go).
ListIsWhole ==
    call = "returned" /\ Complete =>
        /\ {list[i].address : i \in DOMAIN list} = Address
        /\ \A i \in DOMAIN list : list[i].balance = answer[list[i].address]
=============================================================================
