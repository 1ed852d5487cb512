# Verification of the NULS adapter

The adapter connects the openwallet framework to a NULS node.  It follows the
chain block by block and hands the transactions of watched addresses to
observers (`nulsio/blockscanner.go`), and it builds, signs and broadcasts
transactions for the accounts of a wallet (`nulsio/tx_decode.go`).  This
directory holds TLA+ models of it, the TLC runs that check them on small
instances and TLAPS proofs for every size.

## Inventory

| Component | State it keeps | Operations | Modelled |
|---|---|---|---|
| Block scan task (`ScanBlockTask`, `blockscanner.go:98-243`) | current height and hash while it runs | started by a timer of the base scanner; loop over new blocks, fork handling, rescan of the last N blocks and of the failed records | `BlockScanner` |
| Local store (`1205-1397`) | scan point (height and hash, two keys), one block per height, unscan records keyed by height | save, read, delete; every call opens and closes the database | `BlockScanner` |
| Calls of the application | - | `SetRescanBlockHeight` (80-95), `ScanBlock` (246-257), pause and run of the base scanner | `BlockScanner` |
| Batch extraction (`363-491`) | channels, queue of results, counters, shared tokens | one goroutine per transaction, one handing out work, one settling results | `BatchExtract`, promise in `ExtractPromise` |
| Extraction of transaction data (`494-951`) | - | inputs, outputs and token transfers of watched addresses, per account | `ExtractData` |
| Node API client (`api.go`) | - | HTTP calls and the interpretation of replies | `NodeApi` |
| Payments and summaries (`tx_decode.go:54-221`, `409-573`, `966-1102`, `manager.go:50-60`) | the raw transaction being made | choice of coins, fee, change, balance to retain, amount shown | `Payment`, `Coins` |
| Sign, verify, submit (`tx_decode.go:797-953`) | the raw transaction | each called by the application | `Payment` |
| NRC20 payments and summaries (`tx_decode.go:223-407`, `575-794`) | - | choice of an address, support of its fee | `TokenTransfer`, `TokenSummary` |
| Token balances (`contract_decoder.go:98-160`) | two channels, the list | a goroutine per address and a collector | `TokenBalances` |
| Serialization of transactions and signatures (`nulsio_trans/`) | - | pure functions | `Encoding` |
| Address codec (`nulsio_addrdec/`, `nulsio_trans/base58_2.go`) | - | pure functions | `AddressCodec` |
| Current block header and balances of the scanner (`1400-1435` and around it) | - | asks the node | the balance, in `Payment` and `TokenSummary` |
| Signature scheme (`nulsio_txsigner/txsigner.go`) | - | wraps a library | no |
| Unused Bitcoin code (`witness.go`, `multiSig.go`, `bech32.go`, `base58.go`, `signaturepubkey.go`, ...) | - | - | no |
| Configuration, assembly, integration tests | - | - | no |

The scan task, the application's calls and the extraction goroutines run
concurrently and share the local store and the tokens; there is no lock around
them.  Observers are called back from the extraction (`newExtractDataNotify`)
and from the task (`newBlockNotify`).  Everything the adapter knows of the chain
it asks of the node, call by call, and the node may change branch between two
calls.

What is hard here, and what the properties are for: reorgs met while earlier
blocks could not be read; failures of the node, of an observer or of the process
between any two writes; the application moving the scan point under a running
task; records that must outlive every failure of the block they stand for; the
goroutines of the extraction and of the token balances, which must neither wait
for each other for ever nor send on a channel already closed; sums of coins and
fees taken off them; amounts read long before they are spent; bytes whose lengths
are variable.  `PROJECT.json` lists each hazard at its
line.

## Modules

**NulsNode** is the environment: a tree of blocks and the branch the node follows
(`main`).  The node may adopt a longer branch at any time (`NodeAdvances`); it
answers a height with the block of its branch, and may or may not still know a
block it has rolled back.  It is modelled from how the scanner uses it.

**BlockScanner** models the scan task, the store and the calls of the
application.  One action is the code between two calls that leave the process
or touch the store, so the node, the application and a crash can come in
between.  `pc` says where the task is:

| `pc` | code | actions |
|---|---|---|
| `idle`, `startHash` | `GetScannedBlockHeader` | `TaskStart`, `StartHash` |
| `loop`, `hash`, `block` | 110-152, 208-216 | `LoopHead`, `NextHash`, `NextBlock` |
| `fork`, `forkLocal`, `forkHash`, `saveFork`, `notifyFork` | 157-206 | `ForkDelete`, `ForkLocal`, `ForkHash`, `SaveFork`, `NotifyFork` |
| `saveNew`, `saveBlock`, `notifyNew` | 218-225 | `SaveNew`, `SaveBlock`, `NotifyNew` |
| `last`, `lastBlock` | 230-233, `scanBlock` | `LastHash`, `LastBlock` |
| `failed`, `failedBlock`, `failedDelete` | `RescanFailedRecord` | `FailedHash`, `FailedBlock`, `FailedDelete` |
| `panic` | line 193 with a nil block | `Restart` |

Heights are uint64 in the code; arithmetic is modulo `Modulus`.  `Faults` says what may
go wrong, `MaxFaults` how often: a call to the node fails (`rpc`), the node refuses a
call in a reply that has data (`empty`), a transaction is nil (`extract`), an observer
returns an error (`notify`), the process stops (`crash`), it stops between the two
writes of the scan point (`torn`), the application pauses the scanner (`pause`).  The
history variables `starts`, `followed`, `delivered` and `announced` record where
scanning began, what the loop has extracted and what the observers hold.

An `empty` reply is the one `isError` of `api.go` lets pass: `success` is false and
`data` is there, and the fields asked for are not in it.  `GetBlockHeight` then gives 0,
`GetBlockHash` the empty hash and `GetBlock` a block without hash, parent and
transactions, all without an error (`TipIs`, `HashIs`, `BlockIs`; `NoBlock` is the empty
hash and block).  Such a block differs from every branch in its parent, so the loop
steps back as if at a fork; after a scan point whose hash is empty it is followed, is
not extracted and leaves no record.  What the loop then says of the chain is wrong, as
run ScanEmptyReply shows, and the properties that speak of it promise nothing once the
loop has gone by one (`misled`).  An empty answer anywhere else, a hash in the loop, a
height, or a hash or block in one of the rescans or in a call of the application, is
within what they promise.

**ExtractPromise** is what the scanner relies on when it extracts a block; its
one-step form is the operator `BatchExtract` of `BlockScanner`.  **BatchExtract**
is the code: per call a goroutine that hands out work, a goroutine per
transaction, `extractRuntime` with its queue between two unbuffered channels,
and the goroutine that settles results and closes `quit`; the calls share the
tokens of `extractingCH`.  A send and its receive are one action.  It is shown to
implement `ExtractPromise` (property `KeepsPromise`).

**Payment** models the raw transactions an account makes: several are made side by
side (`Tx`), each for an order chosen at the start, while the node takes and
confirms others.  `pc[t]` goes from `new` over `listing` to `made` or `refused`:

| Action | Code | What happens |
|---|---|---|
| `Begin` | 54-83, 409-473 | the addresses to ask: all, or for a summary those with `MinTransfer` |
| `ListUnspent`, `ListFails` | 85-93, 475-494 | the coins of one more address, or a failure; after the last address `CreatePayment` (95-221) or `CreateSummary` (497-564) |
| `SignRawTransaction`, `VerifyRawTransaction`, `SubmitRawTransaction` | 797-953 | called in any order, any number of times |
| `Confirm` | the node | a transaction of its pool is in a block |

The node is a set of unspent coins, a pool and the confirmed transactions.  It
answers an address with its unlocked coins, in any order, with or without those
a transaction of its pool spends; it takes a transaction with its signatures whose
inputs exist and cover its outputs.  `hex` tells what `RawHex` holds: the
transaction, the transaction with its signatures, or (`spoilt`) with signatures
that are empty or appended twice.  Amounts are whole numbers of the smallest unit;
negative outputs wrap modulo `Modulus` as in `uint64(amount.IntPart())`.  The fee is
a constant because `EstimateFee` overwrites what it computes with one.  A
summary has one transaction: line 483 admits coins only below `MaxTxInputs`, so the
second condition of line 497 never holds.  How coins are chosen is in **Coins**.

**TokenSummary** is the round by which `CreateTokenSummaryRawTransaction` gathers
the tokens of an account, composed with what it calls: **TokenBalances**, the
goroutines that ask for the balance of each address at most `Slots` at a time and
the collector that counts their results, and **TokenTransfer**,
`CreateNrc20RawTransaction` as a function of what the node says of each address.
`pc` says how far the round is:

| `pc` | Code | Actions |
|---|---|---|
| `idle` | the application | `NewRequest`, `BeginRound` (587-645), `Send`, `Drop` of what a round has made |
| `balances` | 646-651, `contract_decoder.go:98-160` | `QueryBalances`, `AskBalance`, `HaveBalances` |
| `check` | 652-689, 764-766 | `SkipItem`, `CheckFee`, `FinishRound` |
| `support` | 690-732 | `NoSupport`, `NoteForSupport` |
| `build` | 735-762 | `BuildTransfer` |
| `pay` | 766-793 | `PaySupport` |

The balance of the support account, from which the round sets amounts aside, is that of
all its coins (`SupportBalance`); the payment can spend those that are not locked
(`support`).  A round that notes an address turns the request into one that is not for
tokens (line 698, `isContract`), so the application makes a new one (`NewRequest`).

The node moves the tokens of a transfer when it confirms it, if they are there
(`ConfirmTransfer`), gives the addresses of a support payment their coins
(`ConfirmSupport`), lets lock times pass (`Unlock`, `UnlockSupport`), and tokens may come
from outside (`Receive`).  The node takes a transfer whose coins are there and not spent
by another in its pool.  The application sends what a round has made when it ends and
waits for it before it begins another; payments of tokens (`PayTokens`) it makes, sends
and has confirmed at any time, during a round as well.

**ExtractData** is `ExtractTransaction`: of a transaction and the node's answer about
its token transfers, the data of each account. **Encoding** writes what `nulsio_trans`
writes, byte by byte: variable-length integers, inputs, outputs, the call of a contract,
and signatures with the loop that strips zeros of their numbers. It is parameterised by
the base of a byte. **FormatReader** is the reference it is checked against, a reader of
the format as a node has one; it models no code of the repository. Each of its readers
takes a value off the front of the bytes and gives it with the rest; a list of items is
read with as many turns as its count says. **AddressCodec** makes an address of a public
key and reads it in the two ways the code has; both stand on **Digits**, numbers and
their digits of any base. **NodeApi** says for each call what answer comes of a reply: a
reply arrives or not, is a success or not, and has data of one of five forms. Data of the
form asked for is an answer whatever the reply says of its success, as in the code; what
`MoneyAnswersAreGenuine` excludes is an answer made of other data. These are functions;
**Codecs** takes one input after the other and compares what they give with what they
should.

**MCBlockScanner**, **MCBatchExtract**, **MCPayment**, **MCTokens** and **MCCodecs** give
the constants values.

The proofs are in **BlockScannerProofs** and **HistoryProofs** (the scanner, the second
on top of the first), **BatchExtractProofs**, **FoldProofs** (facts about sums and
folds), **TokenSummaryProofs**, **PaymentProofs**, **EncodingProofs** (what each writer
and reader of bytes does) and **CodecsProofs** on top of it.

## Runs

| Run | Checks | Bounds | Shows |
|---|---|---|---|
| ScanOneFault | `TypeOK`, `ScannedChainHasNoGap`, `PassedBlockIsDelivered` | fork two deep; one fault of any of the seven kinds, one call: reset to 3 or scan of 3; fairness | the chain behind the scan point is linked; a single fault loses no block |
| ScanObservers | `AnnouncedIsOneBranch`, `ForkNoticeIsOrphan`, `ScanPointSkipsNoBlock` | fork three deep; three faults of rpc, empty, extract, notify, pause | what the observers hold as scanned is one branch; the scan point goes up block by block |
| ScanLive | `PassedBlockIsCovered`, `CatchesUp`, `PassedBlockIsDelivered` | fork two deep; two faults of rpc, empty, extract, crash; fairness | a passed block is delivered or has a record; the task reaches the tip and delivers |
| Batch | `TypeOK`, `NoSendOnClosedChannel`, `FailureLeavesRecord`, `KeepsPromise`, `EveryCallReturns`, `TokensComeBack` | two calls of two transactions and one of none, two tokens; fairness | concurrent extraction is safe and ends |
| Payments | `TypeOK`, `TakenPaysItsFee`, `PaymentTakesJustEnough`, `AmountIsBalanceChange` | two transactions: payments of 8, of 14, of 2 with 2 to an own address, or a summary that retains 2; four coins at three addresses, one locked; fewer than three inputs to a summary; a fee of 2; one failure | what is given away and what is shown come to the fee and the change of the balance, but for what is retained twice |
| Tokens | `TypeOK`, `NoSendAfterReturn`, `ListIsWhole`, `SupportIsAffordable`, `SummaryPaysItsFee`, `SummaryRetainsBalance`, `EveryRoundEnds`, `TokensAreGathered` | three addresses, two queries at a time, room for one result, two addresses to a support payment; one failing call, one receipt or payment of tokens; fairness | rounds end, pay for themselves and gather the tokens |
| Codecs | `VarIntIsRead`, `TransactionIsRead`, `SignatureIsWellFormed`, `SignedIsRead`, `KeyIsInAddress`, `MoneyAnswersAreGenuine`, `FailedCallIsError`, `ExtractedIsAccounted` | bytes of base 21, numbers of six bytes with at most two zeros; characters of base 5 over bytes of base 8; every form of reply; two accounts of three addresses | what is written can be read, and what is told adds up |

The trees have forks of depth two and three because a step back goes two blocks:
depth three takes two steps, with a scan point between them.  The node starts on
any branch, so the scan also starts on each side of a fork.  Two faults let a block and
its rescan fail, and a crash or an empty reply come between a block and what is saved
of it; three let another event come in between.  The last two blocks are scanned again
(`RescanLastBlockCount`, 5 in the code), so that blocks of the longest branch lie below
them.

The coins of Payments (4, 6, 5) are such that 8 needs two or three of them by the order
of the answers, the fee makes the loop take a second round, 14 is there but not its fee,
nothing is enough once coins are spent or an address cannot be asked, a summary of two
addresses is taken by the node, a third address would fill it and is passed over, and an
address that has got a second coin makes a summary that retains twice, which leaves it
without a fee as 2 is the fee.

The holdings of Tokens are: tokens without coins, coins that only together reach the
fee, a coin that is locked and unlocks, and coins that make up the fee exactly. The
support account starts with 60, enough for every address, or with 20, of which 11 are
locked, so that the payment to one address fails until they are unlocked.  A fee of 5 is
below what an address is given (9) and above one of the coins, and leaves change.  A
failing call may be any of the round's: a balance, the coins of an address, those of the
support account, or the broadcast.

In Codecs a byte of base 21 has the three markers, a sign bit and lengths that need
more than a byte at 18, 441 and 194481, so every size of a variable-length integer and
both of its boundaries occur, up to five bytes; the size of nine bytes occurs with
194481, and the transactions have one or two inputs with indices of each size.  The
numbers of a signature have zeros and sign bits in every place where the loop over
them looks.  With zeros in half of the bytes, three of six or sixteen of the 32 in the
code, the index can run out of the slice; no signature has that many, so two zeros
are the bound.  Transactions are signed once, twice with integers of different lengths, or
by so many keys that the length of the section needs five bytes.

Runs that TLC must refute, each a disagreement between the code and its own
comment (quoted in `PROJECT.json`):

- **ScanPanics** (`PanicsEnd`): a fork below the oldest saved block reads a field
  of a nil block on line 193, and again after every restart.  Two blocks scanned
  after a fresh start and a reorg under the first suffice.
- **ScanNotifyTwice** (`DeepBlockIsDelivered`): `newExtractDataNotify` returns nil
  after saving a record, so a block whose observer fails a second time is taken
  for delivered and its record is deleted.  Lines 230-233 scan the last blocks again at
  the end of every task, which makes up for it while the block is one of them.  When the
  notice fails in the loop, the chain goes on meanwhile and the notice fails again
  as the record is tried, nothing is left that would deliver the block.
- **ScanEmptyReply** (`ForkNoticeMeansFork`): one reply that is no success but has data
  is taken for a block of another branch, and observers are told that a block has been
  forked off that the node never left.
- **TokenLeftover** (`PaymentPaysItsFee`): `CreateNrc20RawTransaction` is to pay from the
  first address that has the tokens and the coins for the fee, but the coins of an address
  passed over stay among the inputs; they are spent and their value is not in the change.
- **SignatureNumbers** (`SignatureKeepsNumbers`): the loop that strips zeros goes on with
  the next index after it has taken off a byte, so it can take off a byte that is no zero
  or leave a zero; the numbers written are then not the numbers signed.

Other deviations found on the way have no run of their own; the hazards of `PROJECT.json`
say where they bite: a token transfer that could not be read counts as
success (`blockscanner.go:601` and `654`), a transaction is complete before the node has
validated it, a summary of coins retains the balance for each coin while it takes
it off the sum for each address, and a round changes the request it is given.

The passing runs leave out the faults that break their properties:

- `notify` and `torn` in ScanLive: run ScanNotifyTwice is what two failures of an observer
  do, and the mismatch of a torn scan point looks like a fork;
- `crash` and `torn` in ScanObservers: a stop between lines 198 and 205 loses the fork
  notice;
- calls of the application in ScanLive and ScanObservers: a reset moves the scan point
  wherever the application says, while the task runs is overwritten by the task's next
  save, and leaves saved blocks above the scan point; ScanOneFault has it, and checks what
  holds nevertheless;
- a node that returns to a branch it has left, and a replaced block at height 1 (where
  the clamp of line 173 loops for ever), in all of them.

Tokens has an application that waits for what a round has made (one that begins a round
before sends the same coins twice) and a balance to retain below what is worth gathering;
`TokensAreGathered` exempts an address whose coins give no change (its transfer has no
output and is refused, round after round).  The hazards of `PROJECT.json` say what
happens in each.

Fairness: the timer of the base scanner starts the task again and again and the
operating system runs it (`WF(TaskStep)`); a process that panicked is started
again and a paused scanner is resumed (`WF(Restart)`, `WF(Run)`): without them
nothing could be promised.  Node steps, calls and faults have none.  In
`BatchExtract` every goroutine that can go on does; weak fairness is enough,
because a waiting goroutine stays enabled until it is served or a token it waits
for is taken by another call, of which there are finitely many.  In `TokenSummary` a
round goes on, what it made is sent and the node confirms it, and the application calls
again (`WF(Work)`: none of these can be disabled for ever by something else); payments
that were made are sent and confirmed (`WF(SettlePayment)`) and lock times pass
(`WF(LockEnds)`).  Receipts, new payments and failures have none.

A deadlock is checked in the scanner runs and in Tokens; the calls of `BatchExtract` and the
transactions of `Payment` end, and `Codecs` takes one input, so their runs do not check
it.

## Proofs

Every theorem rests on the named assumptions of the modules it is about, which TLC
evaluates on the runs; where it has hypotheses of its own they are stated here.  The
invariants below were checked by TLC on the runs' instances before they were proved.
There is one lemma per action.

| Module | Theorem | Property | Further hypotheses |
|---|---|---|---|
| BlockScannerProofs | `TypeCorrect` | `TypeOK` | |
| | `NoGap` | `ScannedChainHasNoGap` | (the property: unless `misled`) |
| | `SkipsNoBlock` | `ScanPointSkipsNoBlock` | `NoReturn`, `OnlyTaskSaves` |
| | `NoticeIsOrphan` | `ForkNoticeIsOrphan` | the same (both properties: unless `misled`) |
| HistoryProofs | `PassedIsCovered` | `PassedBlockIsCovered` | the same (unless `misled`), no `notify` fault |
| | `AnnouncedOnOneBranch` | `AnnouncedIsOneBranch` | `NoReturn`, `OnlyTaskAnnounces`; unless `misled` |
| BatchExtractProofs | `TypeCorrect` | `TypeOK` | |
| | `NoPanicOnSend` | `NoSendOnClosedChannel` | |
| | `RecordOfFailure` | `FailureLeavesRecord` | |
| | `CallsKeepPromise` | `KeepsPromise` | |
| TokenSummaryProofs | `SummaryTypeCorrect` | `TypeOK` | |
| | `NoPanicInQueries` | `NoSendAfterReturn` | |
| | `ListHasAll` | `ListIsWhole` | |
| | `SupportCanBePaid` | `SupportIsAffordable` | |
| | `SummaryCostsFee` | `SummaryPaysItsFee` | |
| | `BalanceIsRetained` | `SummaryRetainsBalance` | |
| PaymentProofs | `PaymentTypeCorrect` | `TypeOK` | |
| | `TakesJustEnough` | `PaymentTakesJustEnough` | |
| | `TakenGivesFee` | `TakenPaysItsFee` | `SmallMoney` |
| | `AmountIsChange` | `AmountIsBalanceChange` | the same |
| CodecsProofs | `AllAccountsAreTold` | `ExtractedIsAccounted` | |
| | `MoneyOfReplyIsGenuine` | `MoneyAnswersAreGenuine` | |
| | `FailedCallsAreErrors` | `FailedCallIsError` | |
| | `VarIntsAreRead` | `VarIntIsRead` | |
| | `SignaturesAreWellFormed` | `SignatureIsWellFormed` | |
| | `TransactionsAreRead` | `TransactionIsRead` | |
| | `SignedAreRead` | `SignedIsRead` | |
| | `KeysAreInAddresses` | `KeyIsInAddress` | |

**The scanner.**  `ScannedChainHasNoGap` is not inductive: the saved hash comes from the
task's `curHash` or from a saved block.  The invariant `Inv` adds to `TypeOK` that these
are there when they are used (`Located`) and that they are known (`Linked`: the scan
point, `curHash`, every saved block and the parent of every followed block is a starting
point or a followed block), the last as long as the loop has not gone by an empty block.  It
holds also with torn writes, resets and repeated failures: gaps never come from them,
lost data do.

What the scan point has to do with the node's branch needs more.  `PointInv` says that
a saved block at or above the scan point, other than the scan point itself, is one the
node has left (`Saved`), that the task goes on from the stored scan point to the next
height (`Following`), and that it steps below the scan point only by one and only when
the node has left the block there (`Stepping`).  From it follow that the scan point
skips no block and that a fork is told of only for a block that was left.
`CoverInv` adds that below any block of the branch that is saved or is the scan point
every block is delivered or recorded, and what the rescan of a failed height knows when
it deletes its records.  `AnnounceInv` says that the announced blocks are on one branch
and not above the scan point, but for the block whose fork is still to be announced.

The hypotheses are those under which the properties are true, for each has a behaviour
that breaks it otherwise, and the passing runs have the same ones:

- `NoReturn`: the node does not come back to a branch it has left.  A block left and
  adopted again may be saved above the scan point.
- `OnlyTaskSaves`: no `SetRescanBlockHeight` while the task runs, and no stop between
  the two writes of the scan point.  A reset moves the scan point wherever the
  application says.
- no `notify` fault for `PassedIsCovered`: with two the record of a passed block is
  deleted undelivered, the first half of run ScanNotifyTwice.
- not `misled`, which is in the properties themselves (and in the conclusion of
  `AnnouncedOnOneBranch`, whose run does without): run ScanEmptyReply is the counterexample.
  Every other empty reply is allowed.
- `OnlyTaskAnnounces`: besides, no `ScanBlock`, which announces a block out of order, and
  no stop between saving a step back and announcing it.

Failures of the node and of extraction, forks of any depth and number, pauses and panics
are all allowed, and crashes by every theorem but `AnnouncedOnOneBranch`.

**The extraction.**  For any calls, transactions and tokens, `Inv` follows a
transaction through its stages: not handed out, extracted by its goroutine, in the list
of values, in the saver's hand, settled.  It is in one place at a time (`HandedOut`,
`Carried`), the counters are the sizes of the sets of settled and of failed
transactions (`Counted`), and the tokens in use are the goroutines that hold one
(`TokensCounted`).  So `quit` is closed only when all are settled, when no goroutine can
still send.  The refinement of `ExtractPromise` maps `Call`, `Save` and `Quit` to its
steps and all others to stuttering; it is proved step by step.

**Token summaries.**  The query part (`QueryInv`) is again one of channels: a result
handed over is in the channel or counted, never both, and each address once.  The round
part says what the amounts set aside were read from (`Known`), that what is noted for
support is within the balance of the support account (`SetAside`, `Supported`), and that
a transfer retains the balance from the time it is made until the node confirms it, but
for what is paid from the address, as an address has one transfer of a round at a time
(`Retaining`).
`SummaryAssumption` asks of the amounts that they are natural, and of `FixSupport` that
it is not zero: a support of nothing would add worthless coins.

**Payments.**  For any finite account, any orders and any number of transactions, the
invariant is about three things.  `Lists`: what is listed for a transaction are coins
of the addresses asked so far, none twice, and for a summary fewer than `MaxTxInputs`.
`Results`: what is made is *sound*, that is, its outputs come to what its inputs leave
after the fee and its amount is what leaves the account, or the outputs exceed the
inputs by so much that the node refuses it; a summary may fall short by what it retains a
second time (`TwiceOf`).  `Ledger`: the transactions of the pool
spend coins that are there, each its own, identifiers of coins to come are free, and all
the unspent coins are worth no more than what was minted.
The last is what makes wrapped amounts refusable.

- `SmallMoney`: the value of all coins, with the fee and the most a summary can retain,
  is below `Modulus`.  It is 2^64 in the code, and all the coins of the chain are about
  10^16 of the smallest unit.  Without it a sum of outputs can wrap to a small number.
Nothing is asked of the balance to retain: what it is and how often a summary retains it
twice is in the statements.  `TakesJustEnough` does without `SmallMoney` too.

**What accounts are told.**  The data are made put by put, the ledger sums up address by
address; the two meet in the *shares* of an account, what each input or output is worth
to it.  `Tells` says of the data what they add, after some of the places of a sequence
of inputs or outputs, to the data before: accounts for the shares there are, and sums
greater by those shares, on one side only.  One put more keeps it (`TellsOneMore`), so
the whole loop does (`AddAllTells`).  On the other hand what is put at the addresses of
an account, added up address by address, is the sum of its shares (`GainsOfAddresses`,
`PutAtAccount`).  `CodecsAssumption` asks of these inputs only that amounts are numbers,
and `ExtractAssumption` that the wallet knows finitely many addresses.  The two theorems
about replies go through the forms of a reply.

**Encodings.**  Nothing is said of one base: a byte is a digit of any base above 10 that
leaves room for the lengths (`EncodingAssumption`), a character one of any other base
(`CodecAssumption`), and hashes, addresses and numbers have any size.
`CodecsAssumption` says what a program can be given: numbers that fit the bytes they are
written in, hashes and addresses of their size, texts of bytes, counts of arguments
below a byte, and a signature number of which not every second byte is zero.  The last
is what the code needs and does not check: with so many zeros the index of its loop runs
out of the slice, as said above.  The run has the same inputs with small numbers.

The argument has three layers.  *Digits*: a number below a power of the base is what its
digits stand for (`ValueOfDigits`), the digits of what digits stand for are these digits
(`DigitsOfValue`), and a number has exactly one size without leading zeros
(`SizeExists`, `SizeIsUnique`).  *Readers*: each reader, given what its writer wrote and
then anything else, gives the value and exactly that rest (`FixedRead`, `VarIntRead`,
`WithLengthRead`, `ItemsRead` for lists of any length, `IntegerRead`).  That the rest is
said is what makes them compose: no field runs into the next, whatever its size
(`CallRead`, `TransactionRead`, `SignatureRead`), from the sizes of the parts of a call
up to a transaction with all its signatures (`SectionRead`).  *Loops*: the loop over the
zeros of a number is shown to stay inside the slice and to end at a byte that leaves the
number positive (`TurnStrips`, `StripIsPositive`); the decoder of outputs, which weighs
characters from the last on, comes to the number they stand for (`WholeIsValue`); and
leading zeros are kept apart by one and counted by the other with the same result
(`LeadIs`, `ZerosIgnored`, `Base58Back`).

**Sums.**  All this needs sums over sets and sequences, which the model takes from the
community modules (`SumFunction`, `MapThenSumSet`, `FoldLeft`).  The induction theorems
of the library take an operator as a parameter, which the provers cannot instantiate;
`FoldProofs` does without: a fold is shown to exist and to be unique, and a
fact about all subsets of a finite set is shown by its smallest counterexample.  From
there come the laws used: an element may be taken out of a sum, a sum over two disjoint
sets is the sum of both, renaming keeps a sum, greater summands have a greater sum, and
what holds of the empty sequence and is kept by each step holds of a `FoldLeft`.

**Only model-checked.**  All liveness (`CatchesUp`, `PassedBlockIsDelivered`,
`EveryCallReturns`, `TokensComeBack`, `EveryRoundEnds`, `TokensAreGathered`), which TLAPS
cannot do here as it would need `ENABLED`.  Every invariant, every action property and
the refinement of the passing runs are proved.

## Not modelled

Errors of the database itself; the asynchronous queue of the base scanner, whose
notices are taken as delivered in order; characters outside the alphabet of an address
and hex text; the WIF of private keys; hash and signature algorithms, which are
`go-owcrypt`; `WalletManager.GetTokenBalanceByAddress` and the Bitcoin code
(`witness.go`, `multiSig.go`, `bech32.go` and others), which nothing calls;
code that is commented out; configuration and assembly, which have no behaviour of
their own; the integration tests, which need a node.

Amounts in `TokenSummary` and `Payment` are whole numbers of the smallest unit; the
places where the code mixes units are modelled by their effect (in
`CreateNrc20` any coin passes the first comparison with the fee).

## State and what could follow

Done: the scanner, the extraction and what it tells, payments, token summaries, the
codecs, the replies of the node; and proofs of every safety and action property that a
passing run checks.  What could follow:

1. What remains of `PassedBlockIsCovered` with a reset of the scan point: `NoReturn` and
   `OnlyTaskSaves` are sufficient, and it is not shown how much of them is needed.
2. What the node makes of a transaction with two sections of signatures (verified again
   after a lost answer): the node's check of a transaction is not part of the repository.
