------------------------------ MODULE NodeApi ------------------------------
(***************************************************************************)
(* How nulsio/api.go makes answers of the replies of the node.  A reply    *)
(* arrives or not.  One of the node's own interface says whether the call  *)
(* was a success and may have data; one of the public interface has an     *)
(* error object or a result.  Data are told apart by their form: what was  *)
(* asked for ("genuine"), an object with a code and a message ("error"), a *)
(* list of something else, a number, text or null ("scalar"), or none, as  *)
(* when the reply is not JSON.                                             *)
(*                                                                         *)
(* An answer is an error, the genuine value, or a value without content.   *)
(***************************************************************************)
EXTENDS Integers, FiniteSets

Data    == {"genuine", "error", "list", "scalar", "none"}
Failed  == "failed"
Empty   == "empty"
Genuine == "genuine"

Reply == [arrived : BOOLEAN, success : BOOLEAN, errorObject : BOOLEAN, data : Data]

\* Mutant: it is not checked that there are data.
IsErrorNever(r) == FALSE

\* isError: a reply without success is an error only if it has no data either (it is
\* not JSON, or lacks the member).
IsError(r) == r.data = "none"

\* isApiError.
IsApiError(r) == r.errorObject \/ r.data = "none"

\* CallReq and CallPost, and Call.
CallReq(r) == IF ~r.arrived \/ IsError(r) THEN Failed ELSE r.data
Call(r)    == IF ~r.arrived \/ IsApiError(r) THEN Failed ELSE r.data

\* Of JSON values gjson gives objects and lists the type JSON.
IsJson(data) == data \in {"genuine", "error", "list"}

\* An object is decoded into a structure; members it does not have stay empty.
Structure(data) ==
    CASE data = "genuine" -> Genuine [] data = "error" -> Empty [] OTHER -> Failed

\* A member of an object; there is none in a list.
Member(data) == IF data = "genuine" THEN Genuine ELSE Empty

\* GetNewBlock, GetBlockByHeight, GetBlockByHash and GetTxByTxId.
GetStructure(r) == Structure(CallReq(r))

\* GetNewHeight: without a value the height is zero.
GetNewHeight(r) == IF IsJson(CallReq(r)) THEN Member(CallReq(r)) ELSE Failed

\* Mutant: an amount that is not there is taken for none.
AmountAsZero(data) == Structure(data)

\* The amount of tokens is text, and an empty text is no number.
Amount(data) == IF Structure(data) = Genuine THEN Genuine ELSE Failed

\* GetTokenBalances and GetTokenBalancesReal.
GetTokenBalances(r) == Amount(CallReq(r))

\* GetTokenByHash: there must be data in the data, and its success.
GetTokenByHash(r) ==
    IF IsJson(CallReq(r)) /\ Member(CallReq(r)) = Genuine THEN Genuine ELSE Failed

\* VaildTransaction looks at nothing but the error.
VaildTransaction(r) == IF CallReq(r) = Failed THEN Failed ELSE Genuine

\* SendRawTransaction: a hash, or an error.
SendRawTransaction(r) ==
    IF IsJson(CallReq(r)) /\ Member(CallReq(r)) = Genuine THEN Genuine ELSE Failed

\* GetAddressBalance: a call that fails gives a balance of zero.
GetAddressBalance(r) ==
    CASE Call(r) = Failed  -> Empty
      [] IsJson(Call(r))   -> Member(Call(r))
      [] OTHER             -> Failed

Spendable(coins, height) == {c \in coins : c.lockTime < height}

\* GetUnSpent: the list of coins, then the height they must be unlocked at.
GetUnSpent(r, heightReply, coins, height) ==
    LET known == IF GetNewHeight(heightReply) = Genuine THEN height ELSE 0
    IN  IF Call(r) # Genuine \/ GetNewHeight(heightReply) = Failed
        THEN [ok |-> FALSE, coins |-> {}]
        ELSE [ok |-> TRUE, coins |-> Spendable(coins, known)]

-----------------------------------------------------------------------------
(* Properties of the answers to a reply. *)

\* What money depends on, the tokens of an address, the tokens a transaction moved and
\* the hash of a broadcast, is made of data of the form asked for and of nothing else:
\* an object with a code and a message, which isError lets pass, is an error, and no
\* amount of zero.  Whether the reply says it is a success is not asked: with such data
\* one that is none is an answer too (lines 507-520, 184-211, 330-352 and 390-404 of
\* api.go).
MoneyIsGenuine(r) ==
    {GetTokenBalances(r), GetTokenByHash(r), SendRawTransaction(r)} =
        {IF r.arrived /\ r.data = "genuine" THEN Genuine ELSE Failed}

\* When no reply comes, or one without data, there is no answer; only the balance of
\* an address is zero then (lines 150-154 and 500-524 of api.go).
NoAnswerWithoutReply(r) ==
    ~r.arrived \/ r.data = "none" =>
        {GetStructure(r), GetNewHeight(r), GetTokenBalances(r), GetTokenByHash(r),
         VaildTransaction(r), SendRawTransaction(r)} = {Failed}
=============================================================================
