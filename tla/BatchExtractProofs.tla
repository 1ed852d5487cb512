-------------------------- MODULE BatchExtractProofs --------------------------
(***************************************************************************)
(* Type correctness of BatchExtract, that no result is sent on a closed    *)
(* channel, that a failure leaves a record, and that every call implements *)
(* ExtractPromise: for every number of calls, of transactions and of       *)
(* tokens.                                                                 *)
(***************************************************************************)
EXTENDS BatchExtract, FiniteSetTheorems, SequenceTheorems, TLAPS

\* TypeOK speaks of the value at each call; every variable is a function on the calls.
Domains ==
    /\ DOMAIN next = Batch /\ DOMAIN worker = Batch /\ DOMAIN result = Batch
    /\ DOMAIN runtime = Batch /\ DOMAIN values = Batch
    /\ DOMAIN saver = Batch /\ DOMAIN inHand = Batch
    /\ DOMAIN done = Batch /\ DOMAIN failed = Batch
    /\ DOMAIN quit = Batch /\ DOMAIN outcome = Batch /\ DOMAIN record = Batch
    /\ DOMAIN ret = Batch

\* The goroutines that hold a token.
Holders ==
    {p \in Batch \X Nat : /\ p[2] \in Txs(p[1])
                          /\ worker[p[1]][p[2]] \in {"extracting", "sending", "releasing"}}

TokensCounted == IsFiniteSet(Holders) /\ tokens = Cardinality(Holders)

\* The goroutine of a transaction has sent its result.
Sent(b, k) == worker[b][k] \in {"releasing", "ended"}

\* A result on its way to its place in the counters: sent and not settled.
OnItsWay(b, k) == k \in Txs(b) /\ Sent(b, k) /\ outcome[b][k] = "pending"

\* Work is handed out in order.
HandedOut(b) == \A k \in Txs(b) : worker[b][k] = "none" <=> next[b] <= k

\* A result is in the queue once, or in the hand of saveWork, or settled.
Carried(b) ==
    /\ \A m, n \in 1 .. Len(values[b]) : values[b][m] = values[b][n] => m = n
    /\ \A n \in 1 .. Len(values[b]) :
        OnItsWay(b, values[b][n]) /\ values[b][n] # inHand[b]
    /\ saver[b] = "saving" <=> inHand[b] # 0
    /\ inHand[b] # 0 => OnItsWay(b, inHand[b])
    /\ \A k \in Txs(b) : outcome[b][k] # "pending" => Sent(b, k)

Settled(b)      == {k \in Txs(b) : outcome[b][k] # "pending"}
NotExtracted(b) == {k \in Txs(b) : outcome[b][k] = "notExtracted"}

\* The counters, the record and the channel quit say what has been settled.
Counted(b) ==
    /\ done[b] = Cardinality(Settled(b))
    /\ failed[b] = Cardinality(NotExtracted(b))
    /\ record[b] <=> \E k \in Txs(b) : outcome[b][k] \in {"notifyFailed", "notExtracted"}
    /\ quit[b] <=> TxCount[b] > 0 /\ done[b] = TxCount[b]

\* The order of the call, its return and the end of saveWork.
Phases(b) ==
    /\ runtime[b] = "idle" => saver[b] = "idle"
    /\ runtime[b] = "returned" <=> ret[b] # "none"
    /\ runtime[b] = "returned" => TxCount[b] = 0 \/ quit[b]

BatchInv(b) == BatchTypeOK(b) /\ HandedOut(b) /\ Carried(b) /\ Counted(b) /\ Phases(b)

Inv == Domains /\ TokensCounted /\ tokens <= Capacity /\ \A b \in Batch : BatchInv(b)

-----------------------------------------------------------------------------
(* What the lemmas on the actions share. *)

\* Call c takes no part in the step.
Still(c) ==
    /\ next'[c] = next[c] /\ worker'[c] = worker[c] /\ result'[c] = result[c]
    /\ runtime'[c] = runtime[c] /\ values'[c] = values[c]
    /\ saver'[c] = saver[c] /\ inHand'[c] = inHand[c]
    /\ done'[c] = done[c] /\ failed'[c] = failed[c]
    /\ quit'[c] = quit[c] /\ outcome'[c] = outcome[c] /\ record'[c] = record[c]
    /\ ret'[c] = ret[c]

\* The transactions of a block are as many as it has, and no other set is.
LEMMA SetOfTxs ==
  ASSUME NEW b \in Batch, NEW S \in SUBSET Txs(b)
  PROVE  /\ IsFiniteSet(S) /\ Cardinality(S) \in 0 .. TxCount[b]
         /\ Cardinality(S) = TxCount[b] => S = Txs(b)
<1>1. TxCount[b] \in Nat
  BY BatchAssumption
<1>2. IsFiniteSet(Txs(b)) /\ Cardinality(Txs(b)) = TxCount[b]
  <2>1. /\ IsFiniteSet(1 .. TxCount[b])
        /\ Cardinality(1 .. TxCount[b]) = IF 1 > TxCount[b] THEN 0 ELSE TxCount[b] - 1 + 1
    BY <1>1, FS_Interval
  <2> QED
    BY <1>1, <2>1 DEF Txs
<1> QED
  BY <1>1, <1>2, FS_Subset, FS_CardinalityType

\* The sets a call counts are sets of its transactions.
LEMMA CountedSets ==
  ASSUME NEW b \in Batch
  PROVE  /\ Settled(b) \in SUBSET Txs(b) /\ IsFiniteSet(Settled(b))
         /\ Cardinality(Settled(b)) \in 0 .. TxCount[b]
         /\ Cardinality(Settled(b)) = TxCount[b] => Settled(b) = Txs(b)
         /\ NotExtracted(b) \in SUBSET Txs(b) /\ IsFiniteSet(NotExtracted(b))
         /\ Cardinality(NotExtracted(b)) \in 0 .. TxCount[b]
<1>1. Settled(b) \in SUBSET Txs(b) /\ NotExtracted(b) \in SUBSET Txs(b)
  BY DEF Settled, NotExtracted
<1> QED
  BY <1>1, SetOfTxs

\* A step of another call leaves a call as it was.
LEMMA StillInv ==
  ASSUME NEW c \in Batch, BatchInv(c), Still(c)
  PROVE  BatchInv(c)'
<1>1. Settled(c)' = Settled(c) /\ NotExtracted(c)' = NotExtracted(c)
  BY DEF Settled, NotExtracted, Still, Txs
<1>2. BatchTypeOK(c)'
  BY DEF BatchInv, BatchTypeOK, Still, Txs
<1>3. HandedOut(c)'
  BY DEF BatchInv, HandedOut, Still, Txs
<1>4. Carried(c)'
  BY DEF BatchInv, Carried, OnItsWay, Sent, Still, Txs
<1>5. Counted(c)'
  BY <1>1 DEF BatchInv, Counted, Still, Txs
<1>6. Phases(c)'
  BY DEF BatchInv, Phases, Still
<1> QED
  BY <1>2, <1>3, <1>4, <1>5, <1>6 DEF BatchInv

\* A step of call b preserves the invariant when it does so at b.
LEMMA StepOf ==
  ASSUME Inv, NEW b \in Batch, Domains', \A c \in Batch \ {b} : Still(c),
         (TokensCounted /\ tokens <= Capacity)', BatchInv(b)'
  PROVE  Inv'
<1> SUFFICES ASSUME NEW c \in Batch PROVE BatchInv(c)'
  BY DEF Inv
<1> QED
  BY StillInv DEF Inv

\* A step that leaves the tokens and the goroutines that hold one.
LEMMA TokensKept ==
  ASSUME Inv, tokens' = tokens, Holders' = Holders
  PROVE  (TokensCounted /\ tokens <= Capacity)'
  BY DEF Inv, TokensCounted

\* A step of call b that leaves its results and counters.
LEMMA CountsKept ==
  ASSUME NEW b \in Batch, Counted(b), outcome' = outcome, done' = done,
         failed' = failed, record' = record, quit' = quit
  PROVE  Counted(b)'
<1>1. Settled(b)' = Settled(b) /\ NotExtracted(b)' = NotExtracted(b)
  BY DEF Settled, NotExtracted, Txs
<1> QED
  BY <1>1 DEF Counted, Txs

\* The invariant holds before any call.
LEMMA InitInv == Init => Inv
<1> SUFFICES ASSUME Init PROVE Inv
  OBVIOUS
<1>1. Domains
  BY DEF Init, Domains
<1>2. TokensCounted /\ tokens <= Capacity
  <2>1. Holders = {}
    BY DEF Init, Holders
  <2> QED
    BY <2>1, FS_EmptySet, BatchAssumption DEF Init, TokensCounted
<1>3. ASSUME NEW b \in Batch PROVE BatchInv(b)
  <2>1. TxCount[b] \in Nat
    BY BatchAssumption
  <2>2. Settled(b) = {} /\ NotExtracted(b) = {}
    BY DEF Init, Settled, NotExtracted
  <2>3. BatchTypeOK(b)
    BY <2>1, EmptySeq DEF Init, BatchTypeOK
  <2>4. HandedOut(b) /\ Carried(b) /\ Phases(b)
    BY <2>1 DEF Init, HandedOut, Carried, Phases, Txs
  <2>5. Counted(b)
    BY <2>1, <2>2, FS_EmptySet DEF Init, Counted
  <2> QED
    BY <2>3, <2>4, <2>5 DEF BatchInv
<1> QED
  BY <1>1, <1>2, <1>3 DEF Inv

-----------------------------------------------------------------------------
(* Every action preserves the invariant. *)

\* A call begins with its channels empty and nothing handed out.
LEMMA CallInv ==
  ASSUME Inv, NEW b \in Batch, Call(b)
  PROVE  Inv'
<1>1. Domains'
  BY DEF Inv, Domains, Call, work
<1>2. \A c \in Batch \ {b} : Still(c)
  BY DEF Inv, Domains, Call, work, Still
<1>3. Holders' = Holders
  BY DEF Call, work, Holders
<1>4. (TokensCounted /\ tokens <= Capacity)'
  BY <1>3, TokensKept DEF Call, work
<1>5. BatchInv(b)'
  <2>1. BatchTypeOK(b)'
    BY DEF Inv, Domains, BatchInv, BatchTypeOK, Call, work
  <2>2. HandedOut(b)'
    BY DEF Inv, BatchInv, HandedOut, Call, work
  <2>3. Carried(b)'
    BY DEF Inv, Domains, BatchInv, Carried, OnItsWay, Sent, Phases, Call, work
  <2>4. Counted(b)'
    BY CountsKept DEF Inv, BatchInv, Call
  <2>5. Phases(b)'
    BY BatchAssumption DEF Inv, Domains, BatchInv, Phases, Call
  <2> QED
    BY <2>1, <2>2, <2>3, <2>4, <2>5 DEF BatchInv
<1> QED
  BY <1>1, <1>2, <1>4, <1>5, StepOf

\* The next transaction is given a token and a thread.
LEMMA HandOutInv ==
  ASSUME Inv, NEW b \in Batch, HandOut(b)
  PROVE  Inv'
<1>0. TxCount[b] \in Nat /\ next[b] \in 1 .. TxCount[b] + 1 /\ next[b] \in Txs(b)
  BY BatchAssumption DEF Inv, BatchInv, BatchTypeOK, HandOut, Txs
<1>1. Domains'
  BY DEF Inv, Domains, HandOut, rt, saving
<1>2. \A c \in Batch \ {b} : Still(c)
  BY DEF Inv, Domains, HandOut, rt, saving, Still
<1>3. worker'[b] = [worker[b] EXCEPT ![next[b]] = "extracting"] /\ worker[b][next[b]] = "none"
  BY <1>0 DEF Inv, Domains, BatchInv, HandedOut, HandOut
<1>4. (TokensCounted /\ tokens <= Capacity)'
  <2>1. <<b, next[b]>> \notin Holders
    BY <1>3 DEF Holders
  <2>2. Holders' = Holders \cup {<<b, next[b]>>}
    BY <1>0, <1>2, <1>3 DEF Inv, BatchInv, BatchTypeOK, Holders, Still, Txs
  <2>3. tokens \in Nat
    BY FS_CardinalityType DEF Inv, TokensCounted
  <2>4. IsFiniteSet(Holders') /\ Cardinality(Holders') = Cardinality(Holders) + 1
    BY <2>1, <2>2, FS_AddElement DEF Inv, TokensCounted
  <2> QED
    BY <2>3, <2>4, BatchAssumption DEF Inv, TokensCounted, HandOut
<1>5. BatchInv(b)'
  <2>1. BatchTypeOK(b)'
    BY <1>0, <1>3 DEF Inv, Domains, BatchInv, BatchTypeOK, HandOut, rt, saving
  <2>2. HandedOut(b)'
    BY <1>0, <1>3 DEF Inv, Domains, BatchInv, BatchTypeOK, HandedOut, HandOut, Txs
  <2>3. Carried(b)'
    BY <1>0, <1>3
    DEF Inv, BatchInv, BatchTypeOK, Carried, OnItsWay, Sent, HandOut, rt, saving
  <2>4. Counted(b)'
    BY CountsKept DEF Inv, BatchInv, HandOut, saving
  <2>5. Phases(b)'
    BY DEF Inv, BatchInv, Phases, HandOut, rt, saving
  <2> QED
    BY <2>1, <2>2, <2>3, <2>4, <2>5 DEF BatchInv
<1> QED
  BY <1>1, <1>2, <1>4, <1>5, StepOf

\* A thread has its result: it is the only one of its transaction.
LEMMA ExtractInv ==
  ASSUME Inv, NEW b \in Batch, NEW k \in Txs(b), Extract(b, k)
  PROVE  Inv'
<1>0. PICK r \in Results : result' = [result EXCEPT ![b][k] = r]
  BY DEF Extract
<1>1. Domains'
  BY <1>0 DEF Inv, Domains, Extract, rt, saving
<1>2. \A c \in Batch \ {b} : Still(c)
  BY <1>0 DEF Inv, Domains, Extract, rt, saving, Still
<1>3. /\ worker[b][k] = "extracting"
      /\ worker'[b] = [worker[b] EXCEPT ![k] = "sending"]
      /\ result'[b] = [result[b] EXCEPT ![k] = r]
  BY <1>0 DEF Inv, Domains, Extract
<1>4. (TokensCounted /\ tokens <= Capacity)'
  <2>1. Holders' = Holders
    BY <1>2, <1>3 DEF Inv, BatchInv, BatchTypeOK, Holders, Still
  <2> QED
    BY <2>1, TokensKept DEF Extract
<1>5. BatchInv(b)'
  <2>1. BatchTypeOK(b)'
    BY <1>3 DEF Inv, BatchInv, BatchTypeOK, Extract, rt, saving
  <2>2. HandedOut(b)'
    BY <1>3 DEF Inv, BatchInv, BatchTypeOK, HandedOut, Extract
  <2>3. Carried(b)'
    BY <1>3 DEF Inv, BatchInv, BatchTypeOK, Carried, OnItsWay, Sent, Extract, rt, saving
  <2>4. Counted(b)'
    BY CountsKept DEF Inv, BatchInv, Extract, saving
  <2>5. Phases(b)'
    BY DEF Inv, BatchInv, Phases, Extract, rt, saving
  <2> QED
    BY <2>1, <2>2, <2>3, <2>4, <2>5 DEF BatchInv
<1> QED
  BY <1>1, <1>2, <1>4, <1>5, StepOf

\* The runtime takes a result into the list of values, while the producer is open.
LEMMA ProduceInv ==
  ASSUME Inv, NEW b \in Batch, NEW k \in Txs(b), Produce(b, k)
  PROVE  Inv'
<1>1. Domains'
  BY DEF Inv, Domains, Produce, saving
<1>2. \A c \in Batch \ {b} : Still(c)
  BY DEF Inv, Domains, Produce, saving, Still
<1>3. /\ worker[b][k] = "sending"
      /\ worker'[b] = [worker[b] EXCEPT ![k] = "releasing"]
      /\ values'[b] = Append(values[b], k)
  BY DEF Inv, Domains, Produce
<1>4. (TokensCounted /\ tokens <= Capacity)'
  <2>1. Holders' = Holders
    BY <1>2, <1>3, SMTT(30) DEF Inv, BatchInv, BatchTypeOK, Holders, Still
  <2> QED
    BY <2>1, TokensKept DEF Produce
<1>5. BatchInv(b)'
  <2>0. /\ values[b] \in Seq(Txs(b)) /\ Len(values[b]) \in Nat
        /\ values'[b] \in Seq(Txs(b)) /\ Len(values'[b]) = Len(values[b]) + 1
        /\ \A n \in 1 .. Len(values[b]) : values'[b][n] = values[b][n]
        /\ values'[b][Len(values[b]) + 1] = k
    BY <1>3, AppendProperties, LenProperties DEF Inv, BatchInv, BatchTypeOK
  <2>1. BatchTypeOK(b)'
    BY <1>3, <2>0 DEF Inv, BatchInv, BatchTypeOK, Produce, saving
  <2>2. HandedOut(b)'
    BY <1>3 DEF Inv, BatchInv, BatchTypeOK, HandedOut, Produce
  <2>3. Carried(b)'
    <3>1. k \in Nat \ {0} /\ ~Sent(b, k)
      BY <1>3, BatchAssumption DEF Sent, Txs
    <3>2. inHand[b] # k /\ outcome[b][k] = "pending"
      BY <3>1 DEF Inv, BatchInv, Carried, OnItsWay
    <3>3. \A n \in 1 .. Len(values[b]) : values[b][n] # k
      BY <3>1 DEF Inv, BatchInv, Carried, OnItsWay
    <3>4. UNCHANGED <<outcome, saver, inHand>>
      BY DEF Produce, saving
    <3>5. \A j \in Txs(b) : worker'[b][j] = IF j = k THEN "releasing" ELSE worker[b][j]
      BY <1>3 DEF Inv, BatchInv, BatchTypeOK
    <3>6. ASSUME NEW j, OnItsWay(b, j) \/ j = k
          PROVE  OnItsWay(b, j)'
      BY <3>2, <3>4, <3>5, <3>6 DEF OnItsWay, Sent, Txs
    <3>7. \A n \in 1 .. Len(values'[b]) : n \in 1 .. Len(values[b]) \/ n = Len(values[b]) + 1
      BY <2>0
    <3>8. ASSUME NEW m \in 1 .. Len(values'[b]), NEW n \in 1 .. Len(values'[b]),
                 values'[b][m] = values'[b][n]
          PROVE  m = n
      <4>1. \A i, j \in 1 .. Len(values[b]) : values[b][i] = values[b][j] => i = j
        BY DEF Inv, BatchInv, Carried
      <4>2. \A i \in 1 .. Len(values[b]) : values'[b][i] = values[b][i]
        BY <2>0
      <4>3. values'[b][Len(values[b]) + 1] = k
        BY <2>0
      <4> QED
        BY <3>3, <3>7, <3>8, <4>1, <4>2, <4>3
    <3>9. ASSUME NEW n \in 1 .. Len(values'[b])
          PROVE  (OnItsWay(b, values[b][n]) /\ values[b][n] # inHand[b])'
      <4>1. CASE n \in 1 .. Len(values[b])
        BY <2>0, <3>4, <3>6, <4>1 DEF Inv, BatchInv, Carried, OnItsWay, Sent
      <4>2. CASE n = Len(values[b]) + 1
        BY <2>0, <3>2, <3>4, <3>6, <4>2 DEF OnItsWay, Sent
      <4> QED
        BY <3>7, <4>1, <4>2
    <3>10. (\A j \in Txs(b) : outcome[b][j] # "pending" => Sent(b, j))'
      BY <3>2, <3>4, <3>5 DEF Inv, BatchInv, Carried, Sent, Txs
    <3>11. (inHand[b] # 0 => OnItsWay(b, inHand[b]))'
      BY <3>4, <3>6 DEF Inv, BatchInv, Carried, OnItsWay, Sent
    <3> QED
      BY <3>4, <3>8, <3>9, <3>10, <3>11 DEF Inv, BatchInv, Carried, Txs
  <2>4. Counted(b)'
    BY CountsKept DEF Inv, BatchInv, Produce, saving
  <2>5. Phases(b)'
    BY DEF Inv, BatchInv, Phases, Produce, saving
  <2> QED
    BY <2>1, <2>2, <2>3, <2>4, <2>5 DEF BatchInv
<1> QED
  BY <1>1, <1>2, <1>4, <1>5, StepOf

\* A thread that has sent gives its token back.
LEMMA ReleaseInv ==
  ASSUME Inv, NEW b \in Batch, NEW k \in Txs(b), Release(b, k)
  PROVE  Inv'
<1>1. Domains'
  BY DEF Inv, Domains, Release, rt, saving
<1>2. \A c \in Batch \ {b} : Still(c)
  BY DEF Inv, Domains, Release, rt, saving, Still
<1>3. /\ worker[b][k] = "releasing"
      /\ worker'[b] = [worker[b] EXCEPT ![k] = "ended"]
  BY DEF Inv, Domains, Release
<1>4. (TokensCounted /\ tokens <= Capacity)'
  <2>1. <<b, k>> \in Holders
    BY <1>3, BatchAssumption DEF Holders, Txs
  <2>2. Holders' = Holders \ {<<b, k>>}
    BY <1>2, <1>3 DEF Inv, BatchInv, BatchTypeOK, Holders, Still
  <2>3. tokens \in Nat
    BY FS_CardinalityType DEF Inv, TokensCounted
  <2>4. IsFiniteSet(Holders') /\ Cardinality(Holders') = Cardinality(Holders) - 1
    BY <2>1, <2>2, FS_RemoveElement DEF Inv, TokensCounted
  <2> QED
    BY <2>3, <2>4, BatchAssumption DEF Inv, TokensCounted, Release
<1>5. BatchInv(b)'
  <2>1. BatchTypeOK(b)'
    BY <1>3 DEF Inv, BatchInv, BatchTypeOK, Release, rt, saving
  <2>2. HandedOut(b)'
    BY <1>3 DEF Inv, BatchInv, BatchTypeOK, HandedOut, Release
  <2>3. Carried(b)'
    BY <1>3 DEF Inv, BatchInv, BatchTypeOK, Carried, OnItsWay, Sent, Release, rt, saving
  <2>4. Counted(b)'
    BY CountsKept DEF Inv, BatchInv, Release, saving
  <2>5. Phases(b)'
    BY DEF Inv, BatchInv, Phases, Release, rt, saving
  <2> QED
    BY <2>1, <2>2, <2>3, <2>4, <2>5 DEF BatchInv
<1> QED
  BY <1>1, <1>2, <1>4, <1>5, StepOf

\* The runtime hands a result on: it leaves the list and reaches the saver.
LEMMA ConsumeInv ==
  ASSUME Inv, NEW b \in Batch, Consume(b)
  PROVE  Inv'
<1>1. Domains'
  BY DEF Inv, Domains, Consume, work
<1>2. \A c \in Batch \ {b} : Still(c)
  BY DEF Inv, Domains, Consume, work, Still
<1>3. (TokensCounted /\ tokens <= Capacity)'
  <2>1. Holders' = Holders
    BY DEF Consume, work, Holders
  <2> QED
    BY <2>1, TokensKept DEF Consume, work
<1>4. /\ values[b] \in Seq(Txs(b)) /\ values[b] # <<>> /\ Len(values[b]) \in Nat \ {0}
      /\ inHand'[b] = values[b][1] /\ inHand'[b] \in Txs(b)
      /\ values'[b] \in Seq(Txs(b)) /\ Len(values'[b]) = Len(values[b]) - 1
      /\ \A n \in 1 .. Len(values'[b]) : values'[b][n] = values[b][n + 1]
      /\ saver'[b] = "saving"
  BY HeadTailProperties, EmptySeq DEF Inv, Domains, BatchInv, BatchTypeOK, Consume
<1>5. UNCHANGED <<worker, outcome>>
  BY DEF Consume, work
<1>6. BatchInv(b)'
  <2>1. BatchTypeOK(b)'
    BY <1>4 DEF Inv, BatchInv, BatchTypeOK, Consume, work
  <2>2. HandedOut(b)'
    BY DEF Inv, BatchInv, HandedOut, Consume, work
  <2>3. Carried(b)'
    <3>0. /\ \A m, n \in 1 .. Len(values[b]) : values[b][m] = values[b][n] => m = n
          /\ \A n \in 1 .. Len(values[b]) : OnItsWay(b, values[b][n])
          /\ 1 \in 1 .. Len(values[b])
      BY <1>4 DEF Inv, BatchInv, Carried
    <3>1. \A n \in 1 .. Len(values'[b]) :
            n \in Nat /\ n + 1 \in 1 .. Len(values[b]) /\ n + 1 # 1
      BY <1>4
    <3>2. ASSUME NEW m \in 1 .. Len(values'[b]), NEW n \in 1 .. Len(values'[b]),
                 values'[b][m] = values'[b][n]
          PROVE  m = n
      <4>1. m + 1 = n + 1
        BY <1>4, <3>0, <3>1, <3>2
      <4> QED
        BY <3>1, <4>1
    <3>3. ASSUME NEW n \in 1 .. Len(values'[b])
          PROVE  (OnItsWay(b, values[b][n]) /\ values[b][n] # inHand[b])'
      <4>1. values[b][n + 1] # values[b][1] /\ OnItsWay(b, values[b][n + 1])
        BY <3>0, <3>1
      <4> QED
        BY <1>4, <1>5, <4>1 DEF OnItsWay, Sent
    <3>4. (saver[b] = "saving" <=> inHand[b] # 0)'
      BY <1>4, BatchAssumption DEF Txs
    <3>5. (inHand[b] # 0 => OnItsWay(b, inHand[b]))'
      <4>1. OnItsWay(b, values[b][1])
        BY <1>4 DEF Inv, BatchInv, Carried
      <4> QED
        BY <1>4, <1>5, <4>1 DEF OnItsWay, Sent
    <3>6. (\A k \in Txs(b) : outcome[b][k] # "pending" => Sent(b, k))'
      BY <1>5 DEF Inv, BatchInv, Carried, Sent, Txs
    <3> QED
      BY <3>2, <3>3, <3>4, <3>5, <3>6 DEF Carried, Txs
  <2>4. Counted(b)'
    BY CountsKept DEF Inv, BatchInv, Consume
  <2>5. Phases(b)'
    BY DEF Inv, BatchInv, Phases, Consume
  <2> QED
    BY <2>1, <2>2, <2>3, <2>4, <2>5 DEF BatchInv
<1> QED
  BY <1>1, <1>2, <1>3, <1>6, StepOf

\* The runtime stops: the saver has counted every transaction.
LEMMA QuitInv ==
  ASSUME Inv, NEW b \in Batch, Quit(b)
  PROVE  Inv'
<1>1. Domains'
  BY DEF Inv, Domains, Quit, work, saving
<1>2. \A c \in Batch \ {b} : Still(c)
  BY DEF Inv, Domains, Quit, work, saving, Still
<1>3. (TokensCounted /\ tokens <= Capacity)'
  <2>1. Holders' = Holders
    BY DEF Quit, work, Holders
  <2> QED
    BY <2>1, TokensKept DEF Quit, work
<1>4. BatchInv(b)'
  <2>1. BatchTypeOK(b)'
    BY DEF Inv, Domains, BatchInv, BatchTypeOK, Quit, work, saving
  <2>2. HandedOut(b)'
    BY DEF Inv, BatchInv, HandedOut, Quit, work
  <2>3. Carried(b)'
    BY DEF Inv, BatchInv, Carried, OnItsWay, Sent, Quit, work, saving
  <2>4. Counted(b)'
    BY CountsKept DEF Inv, BatchInv, Quit, saving
  <2>5. Phases(b)'
    BY DEF Inv, Domains, BatchInv, Phases, Quit, saving
  <2> QED
    BY <2>1, <2>2, <2>3, <2>4, <2>5 DEF BatchInv
<1> QED
  BY <1>1, <1>2, <1>3, <1>4, StepOf

\* The saver ends when its channel is closed.
LEMMA SaverEndsInv ==
  ASSUME Inv, NEW b \in Batch, SaverEnds(b)
  PROVE  Inv'
<1>1. Domains'
  BY DEF Inv, Domains, SaverEnds, work, rt
<1>2. \A c \in Batch \ {b} : Still(c)
  BY DEF Inv, Domains, SaverEnds, work, rt, Still
<1>3. (TokensCounted /\ tokens <= Capacity)'
  <2>1. Holders' = Holders
    BY DEF SaverEnds, work, Holders
  <2> QED
    BY <2>1, TokensKept DEF SaverEnds, work
<1>4. BatchInv(b)'
  <2>1. BatchTypeOK(b)'
    BY DEF Inv, Domains, BatchInv, BatchTypeOK, SaverEnds, work, rt
  <2>2. HandedOut(b)'
    BY DEF Inv, BatchInv, HandedOut, SaverEnds, work
  <2>3. Carried(b)'
    BY DEF Inv, Domains, BatchInv, Carried, OnItsWay, Sent, SaverEnds, work, rt
  <2>4. Counted(b)'
    BY CountsKept DEF Inv, BatchInv, SaverEnds
  <2>5. Phases(b)'
    BY DEF Inv, Domains, BatchInv, Phases, SaverEnds, rt
  <2> QED
    BY <2>1, <2>2, <2>3, <2>4, <2>5 DEF BatchInv
<1> QED
  BY <1>1, <1>2, <1>3, <1>4, StepOf

\* What saveWork has in hand has not been settled before, so that quit is not closed
\* and the call has not returned.
LEMMA InHandIsPending ==
  ASSUME Inv, NEW b \in Batch, saver[b] = "saving"
  PROVE  /\ inHand[b] \in Txs(b) /\ OnItsWay(b, inHand[b])
         /\ done[b] < TxCount[b] /\ ~quit[b] /\ ret[b] = "none"
<1>1. inHand[b] \in Txs(b) /\ OnItsWay(b, inHand[b])
  BY DEF Inv, BatchInv, BatchTypeOK, Carried
<1>2. inHand[b] \notin Settled(b)
  BY <1>1 DEF OnItsWay, Settled
<1>3. TxCount[b] \in Nat /\ TxCount[b] # 0
  BY <1>1, BatchAssumption DEF Txs
<1>4. done[b] \in 0 .. TxCount[b] /\ done[b] # TxCount[b]
  BY <1>1, <1>2, CountedSets DEF Inv, BatchInv, Counted
<1> QED
  BY <1>1, <1>3, <1>4 DEF Inv, BatchInv, BatchTypeOK, Counted, Phases

\* The saver takes a result, records its failure or delivers it, and counts it.
LEMMA SaveInv ==
  ASSUME Inv, NEW b \in Batch, Save(b)
  PROVE  Inv'
<1> DEFINE h == inHand[b]
<1>0. PICK o \in SettledAs(result[b][h]) :
        /\ outcome' = [outcome EXCEPT ![b][h] = o]
        /\ record' = [record EXCEPT ![b] = @ \/ NeedsRecord(o)]
        /\ failed' = [failed EXCEPT ![b] = IF CountsAsFailed(o) THEN @ + 1 ELSE @]
  BY DEF Save
<1>1. Domains'
  BY <1>0 DEF Inv, Domains, Save, work, rt
<1>2. \A c \in Batch \ {b} : Still(c)
  BY <1>0 DEF Inv, Domains, Save, work, rt, Still
<1>3. (TokensCounted /\ tokens <= Capacity)'
  <2>1. Holders' = Holders
    BY DEF Save, work, Holders
  <2> QED
    BY <2>1, TokensKept DEF Save, work
<1>4. o \in {"delivered", "notifyFailed", "notExtracted"}
  BY DEF SettledAs
<1>5. /\ h \in Txs(b) /\ h # 0 /\ OnItsWay(b, h) /\ done[b] < TxCount[b] /\ ~quit[b]
      /\ ret[b] = "none" /\ TxCount[b] \in Nat
  BY InHandIsPending, BatchAssumption DEF Save, Txs
<1>6. /\ outcome'[b] = [outcome[b] EXCEPT ![h] = o]
      /\ failed'[b] = IF CountsAsFailed(o) THEN failed[b] + 1 ELSE failed[b]
      /\ done'[b] = done[b] + 1
      /\ saver'[b] = "waiting" /\ inHand'[b] = 0
  BY <1>0 DEF Inv, Domains, Save
<1>7. \A k \in Txs(b) : outcome'[b][k] = IF k = h THEN o ELSE outcome[b][k]
  BY <1>5, <1>6 DEF Inv, BatchInv, BatchTypeOK
<1>8. record'[b] = (record[b] \/ NeedsRecord(o)) /\ quit'[b] = (quit[b] \/ IsLast(b, done[b] + 1))
  BY <1>0 DEF Inv, Domains, Save
<1>9. /\ record'[b] \in BOOLEAN /\ quit'[b] \in BOOLEAN
      /\ record'[b] <=> record[b] \/ NeedsRecord(o)
      /\ quit'[b] <=> done[b] + 1 = TxCount[b]
  BY <1>5, <1>8 DEF IsLast
<1>10. UNCHANGED <<next, worker, result, runtime, values, ret>>
  BY DEF Save, work, rt
<1>11. Counted(b)'
  <2>1. h \notin Settled(b) /\ h \notin NotExtracted(b)
    BY <1>5 DEF OnItsWay, Settled, NotExtracted
  <2>2. Settled(b)' = Settled(b) \cup {h}
    BY <1>4, <1>5, <1>7 DEF Settled, Txs
  <2>3. NotExtracted(b)' = IF CountsAsFailed(o) THEN NotExtracted(b) \cup {h} ELSE NotExtracted(b)
    BY <1>4, <1>5, <1>7 DEF NotExtracted, CountsAsFailed, Txs, OnItsWay
  <2>4. done'[b] = Cardinality(Settled(b)')
    <3>1. Cardinality(Settled(b) \cup {h}) = Cardinality(Settled(b)) + 1
      BY <2>1, CountedSets, FS_AddElement
    <3> QED
      BY <1>6, <2>2, <3>1 DEF Inv, BatchInv, Counted
  <2>5. failed'[b] = Cardinality(NotExtracted(b)')
    <3>1. Cardinality(NotExtracted(b) \cup {h}) = Cardinality(NotExtracted(b)) + 1
      BY <2>1, CountedSets, FS_AddElement
    <3> QED
      BY <1>6, <2>3, <3>1 DEF Inv, BatchInv, Counted
  <2>6. record'[b] <=>
          \E k \in Txs(b) : outcome'[b][k] \in {"notifyFailed", "notExtracted"}
    BY <1>4, <1>5, <1>7, <1>9 DEF Inv, BatchInv, Counted, OnItsWay, NeedsRecord
  <2>7. quit'[b] <=> TxCount[b] > 0 /\ done'[b] = TxCount[b]
    BY <1>5, <1>6, <1>9 DEF Inv, BatchInv, BatchTypeOK
  <2> QED
    BY <2>4, <2>5, <2>6, <2>7 DEF Counted, Txs
<1>12. BatchInv(b)'
  <2>1. BatchTypeOK(b)'
    <3>1. Settled(b)' \in SUBSET Txs(b) /\ NotExtracted(b)' \in SUBSET Txs(b)
      BY DEF Settled, NotExtracted, Txs
    <3>2. /\ Cardinality(Settled(b)') \in 0 .. TxCount[b]
          /\ Cardinality(NotExtracted(b)') \in 0 .. TxCount[b]
      BY <3>1, SetOfTxs
    <3>3. done'[b] \in 0 .. TxCount[b] /\ failed'[b] \in 0 .. TxCount[b]
      BY <1>11, <3>2 DEF Counted
    <3> QED
      BY <1>4, <1>5, <1>6, <1>9, <1>10, <3>3 DEF Inv, BatchInv, BatchTypeOK
  <2>2. HandedOut(b)'
    BY <1>10 DEF Inv, BatchInv, HandedOut
  <2>3. Carried(b)'
    <3>1. ASSUME NEW n \in 1 .. Len(values[b])
          PROVE  (OnItsWay(b, values[b][n]) /\ values[b][n] # inHand[b])'
      <4>1. values[b][n] # h /\ OnItsWay(b, values[b][n]) /\ values[b][n] # 0
        BY BatchAssumption DEF Inv, BatchInv, Carried, OnItsWay, Txs
      <4> QED
        BY <1>6, <1>7, <1>10, <4>1 DEF OnItsWay, Sent
    <3>2. (\A k \in Txs(b) : outcome[b][k] # "pending" => Sent(b, k))'
      BY <1>5, <1>7, <1>10 DEF Inv, BatchInv, Carried, OnItsWay, Sent, Txs
    <3> QED
      BY <1>6, <1>10, <3>1, <3>2 DEF Inv, BatchInv, Carried, Txs
  <2>4. Phases(b)'
    BY <1>5, <1>6, <1>10 DEF Inv, BatchInv, Phases, Save
  <2> QED
    BY <1>11, <2>1, <2>2, <2>3, <2>4 DEF BatchInv
<1> QED
  BY <1>1, <1>2, <1>3, <1>12, StepOf

\* Every step keeps the invariant, whichever call takes it.
LEMMA NextInv == Inv /\ [Next]_vars => Inv'
<1> SUFFICES ASSUME Inv, [Next]_vars PROVE Inv'
  OBVIOUS
<1>1. ASSUME NEW b \in Batch, BatchStep(b) PROVE Inv'
  BY <1>1, CallInv, HandOutInv, ExtractInv, ProduceInv, ReleaseInv, ConsumeInv, SaveInv,
     QuitInv, SaverEndsInv
  DEF BatchStep, RuntimeStep
<1>2. CASE UNCHANGED vars
  <2>1. Holders' = Holders /\ Domains' /\ tokens' = tokens
    BY <1>2 DEF vars, work, rt, saving, Holders, Inv, Domains
  <2>2. \A c \in Batch : Still(c)
    BY <1>2 DEF vars, work, rt, saving, Still
  <2> QED
    BY <2>1, <2>2, TokensKept, StillInv DEF Inv
<1> QED
  BY <1>1, <1>2 DEF Next

\* The inductive invariant holds in every state of every behaviour.
LEMMA SpecInv == Spec => []Inv
  BY InitInv, NextInv, PTL DEF Spec

-----------------------------------------------------------------------------
(* The theorems. *)

\* The tokens in use are never negative and never more than the channel holds, and no
\* counter passes the number of transactions: lines 376-491 of blockscanner.go.
THEOREM TypeCorrect == Spec => []TypeOK
<1>1. Inv => TypeOK
  BY FS_CardinalityType, BatchAssumption
  DEF Inv, TokensCounted, BatchInv, TypeOK
<1> QED
  BY <1>1, SpecInv, PTL

\* When a call has returned all its transactions are settled.
LEMMA AllSettled ==
  ASSUME Inv, NEW b \in Batch, quit[b] \/ ret[b] # "none", NEW k \in Txs(b)
  PROVE  outcome[b][k] # "pending"
<1>1. TxCount[b] \in Nat /\ TxCount[b] # 0
  BY BatchAssumption DEF Txs
<1>2. quit[b]
  BY <1>1 DEF Inv, BatchInv, Phases
<1>3. Settled(b) = Txs(b)
  BY <1>2, CountedSets DEF Inv, BatchInv, Counted
<1> QED
  BY <1>3 DEF Settled

\* No result is sent once the call has closed the channel, for any number of calls,
\* transactions and tokens: lines 378 and 429 of blockscanner.go.
THEOREM NoPanicOnSend == Spec => []NoSendOnClosedChannel
<1>1. ASSUME Inv, NEW b \in Batch, runtime[b] = "returned", NEW k \in Txs(b)
      PROVE  worker[b][k] \notin {"extracting", "sending"}
  <2>1. outcome[b][k] # "pending"
    BY <1>1, AllSettled DEF Inv, BatchInv, Phases
  <2> QED
    BY <1>1, <2>1 DEF Inv, BatchInv, Carried, Sent
<1>2. Inv => NoSendOnClosedChannel
  BY <1>1 DEF NoSendOnClosedChannel
<1> QED
  BY <1>2, SpecInv, PTL

\* A call that has returned has left a record exactly when some transaction was not
\* extracted or not delivered: lines 389-411 and 954-973 of blockscanner.go.
THEOREM RecordOfFailure == Spec => []FailureLeavesRecord
<1>1. Inv => FailureLeavesRecord
  BY DEF Inv, BatchInv, Counted, FailureLeavesRecord
<1> QED
  BY <1>1, SpecInv, PTL

\* Every step of a call is a step of what the scanner relies on, or leaves it alone.
LEMMA StepKeepsPromise ==
  ASSUME Inv, Next
  PROVE  Promise!Next \/ UNCHANGED <<outcome, ret>>
<1>1. PICK b \in Batch : BatchStep(b)
  BY DEF Next
<1>2. CASE Call(b)
  <2>1. CASE TxCount[b] = 0
    <3>1. ret[b] = "none"
      BY <1>2 DEF Inv, BatchInv, Phases, Call
    <3>2. Promise!Return(b)
      BY <1>2, <2>1, <3>1 DEF Call, Promise!Return, Promise!Failed, Promise!Txs
    <3> QED
      BY <3>2 DEF Promise!Next
  <2> QED
    BY <1>2, <2>1 DEF Call
<1>3. CASE Save(b)
  <2>1. /\ inHand[b] \in Txs(b) /\ outcome[b][inHand[b]] = "pending" /\ ret[b] = "none"
    BY <1>3, InHandIsPending DEF Save, OnItsWay
  <2>2. PICK o \in SettledAs(result[b][inHand[b]]) :
          outcome' = [outcome EXCEPT ![b][inHand[b]] = o]
    BY <1>3 DEF Save
  <2>3. o \in Promise!Outcomes
    BY DEF SettledAs, Promise!Outcomes
  <2>4. Promise!Settle(b, inHand[b], o)
    BY <1>3, <2>1, <2>2 DEF Save, Promise!Settle
  <2> QED
    BY <2>1, <2>3, <2>4 DEF Promise!Next, Promise!Txs, Txs
<1>4. CASE Quit(b)
  <2>1. ret[b] = "none" /\ TxCount[b] > 0 /\ quit[b]
    BY <1>4 DEF Inv, BatchInv, Phases, Counted, Quit
  <2>2. \A k \in Txs(b) : outcome[b][k] # "pending"
    BY <2>1, AllSettled
  <2>3. failed[b] > 0 <=> NotExtracted(b) # {}
    BY CountedSets, FS_EmptySet DEF Inv, BatchInv, Counted
  <2>4. NotExtracted(b) # {} <=> Promise!Failed(b)
    BY <2>1, BatchAssumption DEF NotExtracted, Promise!Failed, Promise!Txs, Txs
  <2>5. Promise!Return(b)
    BY <1>4, <2>1, <2>2, <2>3, <2>4 DEF Quit, saving, Promise!Return, Promise!Txs, Txs
  <2> QED
    BY <2>5 DEF Promise!Next
<1> QED
  BY <1>1, <1>2, <1>3, <1>4
  DEF BatchStep, RuntimeStep, HandOut, Extract, Produce, Release, Consume, SaverEnds,
      rt, saving

\* BatchExtractTransaction implements what the scanner relies on: each transaction is
\* settled once, the call returns when all are, and with an error exactly when one
\* could not be extracted: lines 363-455 of blockscanner.go.
THEOREM CallsKeepPromise == Spec => KeepsPromise
<1>1. Init => Promise!Init
  BY DEF Init, Promise!Init, Promise!Txs, Txs
<1>2. Inv /\ [Next]_vars => [Promise!Next]_<<outcome, ret>>
  BY StepKeepsPromise DEF vars, saving
<1> QED
  BY <1>1, <1>2, SpecInv, PTL DEF Spec, KeepsPromise, Promise!Spec
===============================================================================
