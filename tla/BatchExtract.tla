---------------------------- MODULE BatchExtract ----------------------------
(***************************************************************************)
(* BatchExtractTransaction and extractRuntime of nulsio/blockscanner.go,   *)
(* with the extraction of a transaction and the notification of observers  *)
(* they call.  For each call there are: a goroutine that hands out work    *)
(* (extractWork), a goroutine per transaction, the runtime that moves      *)
(* results from the producer channel through a queue to the worker channel *)
(* and a goroutine that settles the results (saveWork).  The calls share   *)
(* the tokens of extractingCH: the scan task and ScanBlock of the          *)
(* application extract side by side.                                       *)
(*                                                                         *)
(* The producer and worker channels have no buffer: sending and receiving  *)
(* are one action.  A select with several cases ready takes any of them.   *)
(***************************************************************************)
EXTENDS Integers, Sequences, FiniteSets

CONSTANTS
    Batch,          \* the calls of BatchExtractTransaction
    TxCount,        \* TxCount[b]: the number of transactions of call b
    Capacity,       \* tokens of extractingCH (maxExtractingSize)
    Results,        \* what the extraction of a transaction may give
    ObserverFails   \* whether an observer may return an error

\* "whole": a success, also when the token transfer of a contract call could not be
\* read from the node.  "nilTx": the block has a nil transaction.
ASSUME BatchAssumption ==
    /\ TxCount \in [Batch -> Nat]
    /\ Capacity \in Nat \ {0}
    /\ Results \subseteq {"whole", "nilTx"}
    /\ ObserverFails \in BOOLEAN

VARIABLES
    tokens,     \* tokens in extractingCH
    next,       \* next[b]: the transaction extractWork hands out next
    worker,     \* worker[b][k]: the goroutine of transaction k
    result,     \* result[b][k]: what it has extracted
    runtime,    \* runtime[b]: the state of extractRuntime
    values,     \* values[b]: its queue of results
    saver,      \* saver[b]: the state of saveWork
    inHand,     \* inHand[b]: the result it has in hand
    done, failed, quit,     \* the counters of saveWork and the channel it closes
    outcome,    \* outcome[b][k]: what became of transaction k
    record,     \* record[b]: an unscan record has been saved for the block
    ret         \* ret[b]: what the call has returned

work   == <<tokens, next, worker, result>>
rt     == <<runtime, values>>
saving == <<saver, inHand, done, failed, quit, outcome, record>>
vars   == <<work, rt, saving, ret>>

Txs(b) == 1 .. TxCount[b]

BatchTypeOK(b) ==
    /\ next[b] \in 1 .. TxCount[b] + 1
    /\ worker[b] \in [Txs(b) -> {"none", "extracting", "sending", "releasing", "ended"}]
    /\ result[b] \in [Txs(b) -> Results \cup {"none"}]
    /\ runtime[b] \in {"idle", "select", "returned"}
    /\ values[b] \in Seq(Txs(b))
    /\ saver[b] \in {"idle", "waiting", "saving", "ended"}
    /\ inHand[b] \in Txs(b) \cup {0}
    /\ done[b] \in 0 .. TxCount[b] /\ failed[b] \in 0 .. TxCount[b]
    /\ quit[b] \in BOOLEAN /\ record[b] \in BOOLEAN
    /\ outcome[b] \in [Txs(b) -> {"pending", "delivered", "notifyFailed", "notExtracted"}]
    /\ ret[b] \in {"none", "nil", "error"}

TypeOK == tokens \in 0 .. Capacity /\ \A b \in Batch : BatchTypeOK(b)

-----------------------------------------------------------------------------

\* The call: no transactions is an error, else its goroutines are started.
Call(b) ==
    /\ runtime[b] = "idle"
    /\ IF TxCount[b] = 0
       THEN /\ runtime' = [runtime EXCEPT ![b] = "returned"]
            /\ ret' = [ret EXCEPT ![b] = "error"]
            /\ UNCHANGED saver
       ELSE /\ runtime' = [runtime EXCEPT ![b] = "select"]
            /\ saver' = [saver EXCEPT ![b] = "waiting"]
            /\ UNCHANGED ret
    /\ UNCHANGED <<work, values, inHand, done, failed, quit, outcome, record>>

\* Mutant: no token is waited for.
HandOutAtOnce(b) ==
    /\ runtime[b] # "idle"
    /\ next[b] <= TxCount[b]
    /\ tokens' = tokens + 1
    /\ worker' = [worker EXCEPT ![b][next[b]] = "extracting"]
    /\ next' = [next EXCEPT ![b] = @ + 1]
    /\ UNCHANGED <<result, rt, saving, ret>>

\* extractWork takes a token and starts a goroutine.
HandOut(b) ==
    /\ runtime[b] # "idle"
    /\ next[b] <= TxCount[b] /\ tokens < Capacity
    /\ tokens' = tokens + 1
    /\ worker' = [worker EXCEPT ![b][next[b]] = "extracting"]
    /\ next' = [next EXCEPT ![b] = @ + 1]
    /\ UNCHANGED <<result, rt, saving, ret>>

\* ExtractTransaction.  A token transfer that cannot be read is logged, and the
\* result is a success all the same.
Extract(b, k) ==
    /\ worker[b][k] = "extracting"
    /\ \E r \in Results : result' = [result EXCEPT ![b][k] = r]
    /\ worker' = [worker EXCEPT ![b][k] = "sending"]
    /\ UNCHANGED <<tokens, next, rt, saving, ret>>

Success(r) == r # "nilTx"

\* Mutant: the goroutine of a transaction that failed keeps its token.
ProduceAndKeep(b, k) ==
    /\ worker[b][k] = "sending" /\ runtime[b] = "select"
    /\ values' = [values EXCEPT ![b] = Append(@, k)]
    /\ worker' = [worker EXCEPT ![b][k] =
                     IF Success(result[b][k]) THEN "releasing" ELSE "ended"]
    /\ UNCHANGED <<tokens, next, result, runtime, saving, ret>>

\* The result goes over the producer channel into the queue of the runtime.
Produce(b, k) ==
    /\ worker[b][k] = "sending" /\ runtime[b] = "select"
    /\ values' = [values EXCEPT ![b] = Append(@, k)]
    /\ worker' = [worker EXCEPT ![b][k] = "releasing"]
    /\ UNCHANGED <<tokens, next, result, runtime, saving, ret>>

\* The goroutine gives its token back and ends.
Release(b, k) ==
    /\ worker[b][k] = "releasing"
    /\ tokens' = tokens - 1
    /\ worker' = [worker EXCEPT ![b][k] = "ended"]
    /\ UNCHANGED <<next, result, rt, saving, ret>>

\* The head of the queue goes over the worker channel to saveWork.
Consume(b) ==
    /\ runtime[b] = "select" /\ values[b] # <<>> /\ saver[b] = "waiting"
    /\ inHand' = [inHand EXCEPT ![b] = Head(values[b])]
    /\ values' = [values EXCEPT ![b] = Tail(@)]
    /\ saver' = [saver EXCEPT ![b] = "saving"]
    /\ UNCHANGED <<work, runtime, done, failed, quit, outcome, record, ret>>

\* newExtractDataNotify returns nil also when an observer failed and a record was
\* saved, so that failed counts the transactions that were not extracted.
SettledAs(r) ==
    IF ~Success(r) THEN {"notExtracted"}
    ELSE {"delivered"} \cup (IF ObserverFails THEN {"notifyFailed"} ELSE {})

\* Mutant: only an extraction that failed leaves a record.
NeedsRecordIfNotExtracted(o) == o = "notExtracted"

NeedsRecord(o) == o # "delivered"

\* Mutant: no failure is counted.
CountsNever(o) == FALSE

CountsAsFailed(o) == o = "notExtracted"

\* Mutants: quit is closed one result early, or never.
IsLastEarly(b, n) == n >= TxCount[b] - 1
IsLastNever(b, n) == n = TxCount[b] + 1

IsLast(b, n) == n = TxCount[b]

\* saveWork settles the result in hand, counts it and closes quit at the last one.
Save(b) ==
    /\ saver[b] = "saving"
    /\ \E o \in SettledAs(result[b][inHand[b]]) :
        /\ outcome' = [outcome EXCEPT ![b][inHand[b]] = o]
        /\ record' = [record EXCEPT ![b] = @ \/ NeedsRecord(o)]
        /\ failed' = [failed EXCEPT ![b] = IF CountsAsFailed(o) THEN @ + 1 ELSE @]
    /\ done' = [done EXCEPT ![b] = @ + 1]
    /\ quit' = [quit EXCEPT ![b] = @ \/ IsLast(b, done[b] + 1)]
    /\ saver' = [saver EXCEPT ![b] = "waiting"]
    /\ inHand' = [inHand EXCEPT ![b] = 0]
    /\ UNCHANGED <<work, rt, ret>>

\* The runtime sees quit closed: the call returns and closes both channels.
Quit(b) ==
    /\ runtime[b] = "select" /\ quit[b]
    /\ runtime' = [runtime EXCEPT ![b] = "returned"]
    /\ ret' = [ret EXCEPT ![b] = IF failed[b] > 0 THEN "error" ELSE "nil"]
    /\ UNCHANGED <<work, values, saving>>

\* The worker channel is closed: saveWork leaves its loop.
SaverEnds(b) ==
    /\ runtime[b] = "returned" /\ saver[b] = "waiting"
    /\ saver' = [saver EXCEPT ![b] = "ended"]
    /\ UNCHANGED <<work, rt, inHand, done, failed, quit, outcome, record, ret>>

-----------------------------------------------------------------------------

Init ==
    /\ tokens = 0
    /\ next = [b \in Batch |-> 1]
    /\ worker = [b \in Batch |-> [k \in Txs(b) |-> "none"]]
    /\ result = [b \in Batch |-> [k \in Txs(b) |-> "none"]]
    /\ runtime = [b \in Batch |-> "idle"]
    /\ values = [b \in Batch |-> <<>>]
    /\ saver = [b \in Batch |-> "idle"]
    /\ inHand = [b \in Batch |-> 0]
    /\ done = [b \in Batch |-> 0]
    /\ failed = [b \in Batch |-> 0]
    /\ quit = [b \in Batch |-> FALSE]
    /\ outcome = [b \in Batch |-> [k \in Txs(b) |-> "pending"]]
    /\ record = [b \in Batch |-> FALSE]
    /\ ret = [b \in Batch |-> "none"]

RuntimeStep(b) == Consume(b) \/ Quit(b) \/ \E k \in Txs(b) : Produce(b, k)

BatchStep(b) ==
    \/ Call(b) \/ HandOut(b) \/ Save(b) \/ SaverEnds(b)
    \/ RuntimeStep(b)
    \/ \E k \in Txs(b) : Extract(b, k) \/ Release(b, k)

Next == \E b \in Batch : BatchStep(b)

Spec == Init /\ [][Next]_vars

\* Every goroutine that can go on does.  Go takes no order of waiting goroutines
\* into account here: a call waits for tokens that other calls give back.
Fairness ==
    \A b \in Batch :
        /\ WF_vars(Call(b)) /\ WF_vars(HandOut(b)) /\ WF_vars(Save(b))
        /\ WF_vars(SaverEnds(b)) /\ WF_vars(RuntimeStep(b))
        /\ \A k \in Txs(b) : WF_vars(Extract(b, k)) /\ WF_vars(Release(b, k))

FairSpec == Spec /\ Fairness

-----------------------------------------------------------------------------
(* Properties. *)

\* No goroutine sends a result on the producer channel once the call has returned
\* and closed it: that would be a panic (lines 378 and 429 of blockscanner.go).
NoSendOnClosedChannel ==
    \A b \in Batch : runtime[b] = "returned" =>
        \A k \in Txs(b) : worker[b][k] \notin {"extracting", "sending"}

\* A call that has returned has left a record when some data did not reach an
\* observer or could not be extracted (lines 389-411 and 954-973 of
\* blockscanner.go).
FailureLeavesRecord ==
    \A b \in Batch : ret[b] # "none" =>
        ((\E k \in Txs(b) : outcome[b][k] \in {"notifyFailed", "notExtracted"}) <=> record[b])

\* Every call implements what the scanner relies on (lines 363-455 of
\* blockscanner.go against their use on lines 210, 281 and 339).
Promise == INSTANCE ExtractPromise WITH
    Batch <- Batch, TxCount <- TxCount, outcome <- outcome, ret <- ret
KeepsPromise == Promise!Spec

\* Every call returns: the goroutines do not wait on each other for ever, whatever
\* the number of tokens (lines 376-491 of blockscanner.go).
EveryCallReturns == \A b \in Batch : <>(ret[b] # "none")

\* All tokens come back, also those of goroutines that outlive their call (lines
\* 424-431 of blockscanner.go).
TokensComeBack == <>[](tokens = 0)
=============================================================================
