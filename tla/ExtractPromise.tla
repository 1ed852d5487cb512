--------------------------- MODULE ExtractPromise ---------------------------
(***************************************************************************)
(* What the scanner relies on when it extracts the transactions of a block *)
(* (BatchExtractTransaction of nulsio/blockscanner.go): every transaction  *)
(* is settled once, in any order; the call returns when all are settled,   *)
(* and returns an error exactly when one of them could not be extracted or *)
(* there is none.  Module BatchExtract implements it.                      *)
(***************************************************************************)
EXTENDS Integers

CONSTANTS
    Batch,      \* the calls of BatchExtractTransaction
    TxCount     \* TxCount[b]: the number of transactions of call b

VARIABLES
    outcome,    \* outcome[b][k]: what became of transaction k
    ret         \* ret[b]: what call b has returned, or "none"

Outcomes == {"delivered", "notifyFailed", "notExtracted"}
Txs(b)   == 1 .. TxCount[b]

Init ==
    /\ outcome = [b \in Batch |-> [k \in Txs(b) |-> "pending"]]
    /\ ret = [b \in Batch |-> "none"]

Settle(b, k, o) ==
    /\ ret[b] = "none" /\ outcome[b][k] = "pending"
    /\ outcome' = [outcome EXCEPT ![b][k] = o]
    /\ UNCHANGED ret

Failed(b) == TxCount[b] = 0 \/ \E k \in Txs(b) : outcome[b][k] = "notExtracted"

Return(b) ==
    /\ ret[b] = "none"
    /\ \A k \in Txs(b) : outcome[b][k] # "pending"
    /\ ret' = [ret EXCEPT ![b] = IF Failed(b) THEN "error" ELSE "nil"]
    /\ UNCHANGED outcome

Next == \E b \in Batch : Return(b) \/ \E k \in Txs(b), o \in Outcomes : Settle(b, k, o)

Spec == Init /\ [][Next]_<<outcome, ret>>
=============================================================================
