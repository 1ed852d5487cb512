---------------------------- MODULE BlockScanner ----------------------------
(***************************************************************************)
(* The block scanner of nulsio/blockscanner.go: the task the timer runs    *)
(* (ScanBlockTask), the calls of the application that run beside it        *)
(* (SetRescanBlockHeight, ScanBlock, pausing), the local store they share  *)
(* and crashes of the process.                                             *)
(*                                                                         *)
(* One action is the code between two calls that leave the process or      *)
(* touch the store: the node may change branch, the application may call   *)
(* and the process may stop at each of these points.  The extraction of a  *)
(* block is one action here, BatchExtract; module BatchExtract takes it    *)
(* apart.                                                                  *)
(***************************************************************************)
EXTENDS NulsNode

CONSTANTS
    RescanLastBlockCount,   \* blocks scanned again at the end of a task
    Modulus,                \* heights are uint64: arithmetic is modulo this
    Faults,                 \* what may go wrong: see FaultKinds
    MaxFaults,              \* bound on the number of faults in a behaviour
    ResetHeights,           \* arguments of SetRescanBlockHeight
    ScanHeights,            \* arguments of ScanBlock
    MaxCalls                \* bound on the calls of the application

\* "rpc": a call to the node fails.  "empty": the node refuses a call in a reply that
\* has data, which isError of api.go lets pass: the answer is a height of 0, an empty
\* hash or an empty block.  "extract": a transaction of the block is nil.  "notify": an
\* observer returns an error.  "crash": the process stops.  "torn": it stops between
\* the two writes that save the scan point.  "pause": the application pauses the
\* scanner.
FaultKinds == {"rpc", "empty", "extract", "notify", "crash", "torn", "pause"}

ASSUME ScannerAssumption ==
    /\ Faults \subseteq FaultKinds
    /\ Modulus \in Nat \ {0, 1}
    /\ RescanLastBlockCount \in Nat
    /\ MaxFaults \in Nat
    /\ MaxCalls \in Nat
    /\ ResetHeights \subseteq 0 .. Modulus - 1
    /\ ScanHeights \subseteq 0 .. Modulus - 1
    /\ \A b \in Block : Height[b] < Modulus

VARIABLES
    localHeight, localHash,     \* the saved scan point; height 0 is no record
    localBlocks,                \* the saved blocks, one per height
    unscan,                     \* heights with a record to scan again
    scanning,                   \* the Scanning flag of the base scanner
    pc, cur, curHash,           \* the task: currentHeight and currentHash
    fetched, forkBlock,         \* the block read last, the fork block
    i, todo,                    \* the cursors of the two rescans
    uPc, uHeight, uBlock, calls,    \* a call of the application
    faults,                     \* faults left
    starts, followed,           \* history: points scanning began from, and
                                \* blocks the loop has gone over
    misled,                     \* history: the loop went by an empty block
    delivered, announced        \* what the observers have: the data of these
                                \* blocks, and these blocks as scanned

store   == <<localHeight, localHash, localBlocks, unscan>>
task    == <<pc, cur, curHash, fetched, forkBlock, i, todo>>
user    == <<uPc, uHeight, uBlock, calls>>
history == <<starts, followed, misled, delivered, announced>>
vars    == <<main, store, scanning, task, user, faults, history>>

Heights == 0 .. Modulus - 1
Alive   == pc # "panic"

TypeOK ==
    /\ NodeTypeOK
    /\ localHeight \in Heights /\ localHash \in Block \cup {NoBlock}
    /\ localBlocks \subseteq Block /\ unscan \subseteq Heights \ {0}
    /\ scanning \in BOOLEAN
    /\ pc \in {"idle", "startHash", "loop", "hash", "block", "fork", "forkLocal",
               "forkHash", "saveFork", "notifyFork", "saveNew", "saveBlock",
               "notifyNew", "last", "lastBlock", "failed", "failedBlock",
               "failedDelete", "panic"}
    /\ cur \in Heights /\ i \in Heights /\ uHeight \in Heights
    /\ {curHash, fetched, forkBlock, uBlock} \subseteq Block \cup {NoBlock}
    /\ todo \subseteq Heights \ {0}
    /\ uPc \in {"idle", "resetSave", "scanBlock", "scanNotify"}
    /\ calls \in 0 .. MaxCalls /\ faults \in 0 .. MaxFaults
    /\ {starts, followed, delivered, announced} \subseteq SUBSET Block
    /\ misled \in BOOLEAN

-----------------------------------------------------------------------------
(* Faults, and the calls to the node. *)

Fault(kind) == kind \in Faults /\ faults > 0 /\ faults' = faults - 1
NoFault     == faults' = faults

\* A hash or a block, with NoBlock for the empty one, and the blocks it stands for.
Answer    == Block \cup {NoBlock}
Real(b)   == {b} \ {NoBlock}
PreHash(b) == IF b = NoBlock THEN NoBlock ELSE Parent[b]

\* GetBlockHeight.
TipIs(h) == (NoFault /\ h = TipHeight) \/ (Fault("empty") /\ h = 0)

\* GetBlockHash: fails when the call does or the node has no block there.
HashFails(h) == Fault("rpc") \/ (NoFault /\ BlockAt(h) = {})
HashIs(h, b) == (NoFault /\ b \in BlockAt(h)) \/ (Fault("empty") /\ b = NoBlock)

\* GetBlock of a hash the node gave before: it may have been rolled back since.  The
\* empty hash is none of a block.
BlockFails(hash) == Fault("rpc") \/ (NoFault /\ MayNotKnow(hash))
BlockIs(hash, b) == (b = hash /\ MayServe(hash)) \/ b = NoBlock

\* What the call that gave block b takes from the faults that are left.
Given(b) == IF b = NoBlock THEN Fault("empty") ELSE NoFault

-----------------------------------------------------------------------------
(* The local store. *)

\* Mutant: the test for height 0 is missing.
SaveUnscanRecordOfZero(h) == unscan' = unscan \cup {h}

\* A record has the height as its key (the TxID is always empty), and none is
\* kept for height 0.
SaveUnscanRecord(h)   == unscan' = unscan \cup ({h} \ {0})
DeleteUnscanRecord(h) == unscan' = unscan \ {h}

\* GetLocalBlock, with NoBlock for its error.
LocalBlock(h) ==
    IF \E b \in localBlocks : Height[b] = h
    THEN CHOOSE b \in localBlocks : Height[b] = h
    ELSE NoBlock

SaveLocalNewBlock(h, b) == localHeight' = h /\ localHash' = b

\* The height is the key: a block replaces the one saved at its height.  The store
\* takes no key of 0, which is that of the empty block.
SaveLocalBlock(b) ==
    localBlocks' = {x \in localBlocks : b = NoBlock \/ Height[x] # Height[b]} \cup Real(b)

\* Mutant: the failed extraction leaves no record.
BatchExtractWithoutRecord(b, err) ==
    \/ Given(b) /\ err = (b = NoBlock) /\ delivered' = delivered \cup Real(b)
       /\ UNCHANGED unscan
    \/ b # NoBlock /\ Fault("notify") /\ err = FALSE /\ UNCHANGED <<unscan, delivered>>
    \/ b # NoBlock /\ Fault("extract") /\ err = TRUE /\ UNCHANGED <<unscan, delivered>>

\* The extraction of block b.  The data of a block reaches the observers; or an
\* observer fails, a record is left and no error is returned; or a transaction is nil,
\* a record is left and an error is returned.  The empty block has no transaction: an
\* error is returned and no record is left.
BatchExtract(b, err) ==
    \/ /\ Given(b)
       /\ err = (b = NoBlock)
       /\ delivered' = delivered \cup Real(b)
       /\ UNCHANGED unscan
    \/ /\ b # NoBlock /\ Fault("notify")
       /\ err = FALSE
       /\ SaveUnscanRecord(Height[b])
       /\ UNCHANGED delivered
    \/ /\ b # NoBlock /\ Fault("extract")
       /\ err = TRUE
       /\ SaveUnscanRecord(Height[b])
       /\ UNCHANGED delivered

-----------------------------------------------------------------------------
(* The task: where it begins. *)

\* The task returns; its variables are gone.
Return ==
    /\ pc' = "idle" /\ cur' = 0 /\ i' = 0 /\ todo' = {}
    /\ curHash' = NoBlock /\ fetched' = NoBlock /\ forkBlock' = NoBlock

\* GetScannedBlockHeader: the saved scan point, or with no record the block
\* before the node's newest.
TaskStart ==
    /\ pc = "idle" /\ scanning
    /\ \/ /\ localHeight # 0
          /\ cur' = localHeight /\ curHash' = localHash /\ pc' = "loop"
          /\ NoFault
       \/ /\ localHeight = 0
          /\ \E h \in Heights : TipIs(h) /\ cur' = (h - 1) % Modulus
          /\ pc' = "startHash"
          /\ UNCHANGED curHash
    /\ UNCHANGED <<main, store, scanning, fetched, forkBlock, i, todo, user, history>>

StartHash ==
    /\ pc = "startHash"
    /\ \/ HashFails(cur) /\ Return /\ UNCHANGED starts
       \/ \E b \in Answer :
            /\ HashIs(cur, b)
            /\ curHash' = b /\ pc' = "loop"
            /\ starts' = starts \cup Real(b)
            /\ UNCHANGED <<cur, fetched, forkBlock, i, todo>>
    /\ UNCHANGED <<main, store, scanning, user, followed, misled, delivered, announced>>

-----------------------------------------------------------------------------
(* The task: the loop over the new blocks. *)

\* break: on to the blocks scanned again, from currentHeight - N in uint64.
Break(h) == pc' = "last" /\ i' = (h - RescanLastBlockCount) % Modulus

LoopHead ==
    /\ pc = "loop"
    /\ \/ /\ ~scanning
          /\ Return /\ NoFault
       \/ /\ scanning
          /\ Fault("rpc") \/ \E h \in Heights : TipIs(h) /\ cur >= h
          /\ Break(cur)
          /\ UNCHANGED <<cur, curHash, fetched, forkBlock, todo>>
       \/ /\ scanning
          /\ NoFault /\ cur < TipHeight
          /\ cur' = (cur + 1) % Modulus /\ pc' = "hash"
          /\ UNCHANGED <<curHash, fetched, forkBlock, i, todo>>
    /\ UNCHANGED <<main, store, scanning, user, history>>

NextHash ==
    /\ pc = "hash"
    /\ \/ HashFails(cur) /\ Break(cur) /\ UNCHANGED fetched
       \/ \E b \in Answer :
            /\ HashIs(cur, b)
            /\ fetched' = b /\ pc' = "block"
            /\ UNCHANGED i
    /\ UNCHANGED <<main, store, scanning, cur, curHash, forkBlock, todo, user, history>>

\* Mutant: the hash of the previous block is not compared.
IsForkNever(block) == FALSE

\* Is the block that of a branch other than the one scanned so far?
IsFork(block) == curHash # PreHash(block)

\* A block that cannot be read leaves a record; a block on top of the one
\* scanned last is extracted; any other block shows a fork.  An error of the
\* extraction is logged and the loop goes on, from the hash it asked for.
NextBlock ==
    /\ pc = "block"
    /\ \/ /\ BlockFails(fetched)
          /\ SaveUnscanRecord(cur)
          /\ pc' = "loop"
          /\ UNCHANGED <<fetched, curHash, followed, misled, delivered>>
       \/ \E block \in Answer :
            /\ BlockIs(fetched, block)
            /\ fetched' = block
            /\ misled' = (misled \/ block = NoBlock)
            /\ \/ /\ IsFork(block) /\ Given(block)
                  /\ pc' = "fork"
                  /\ UNCHANGED <<unscan, curHash, followed, delivered>>
               \/ /\ ~IsFork(block)
                  /\ \E err \in BOOLEAN : BatchExtract(block, err)
                  /\ curHash' = fetched
                  /\ followed' = followed \cup Real(fetched)
                  /\ pc' = "saveNew"
    /\ UNCHANGED <<main, localHeight, localHash, localBlocks, scanning, cur, forkBlock,
                   i, todo, user, starts, announced>>

\* Mutant: one block back.
OneBack(h) == (h - 1) % Modulus

\* currentHeight - 2 in uint64, and 1 for what is not above 0.
TwoBack(h) == IF (h - 2) % Modulus <= 0 THEN 1 ELSE (h - 2) % Modulus

\* Mutant: the fork block is looked up after the step back.
ForkDeleteAfterStep ==
    /\ pc = "fork"
    /\ forkBlock' = LocalBlock(TwoBack(cur))
    /\ DeleteUnscanRecord(cur - 1)
    /\ cur' = TwoBack(cur)
    /\ pc' = "forkLocal"
    /\ UNCHANGED <<main, localHeight, localHash, localBlocks, scanning, curHash,
                   fetched, i, todo, user, faults, history>>

ForkDelete ==
    /\ pc = "fork"
    /\ forkBlock' = LocalBlock(cur - 1)
    /\ DeleteUnscanRecord(cur - 1)
    /\ cur' = TwoBack(cur)
    /\ pc' = "forkLocal"
    /\ UNCHANGED <<main, localHeight, localHash, localBlocks, scanning, curHash,
                   fetched, i, todo, user, faults, history>>

ForkLocal ==
    /\ pc = "forkLocal"
    /\ \/ /\ LocalBlock(cur) # NoBlock
          /\ curHash' = LocalBlock(cur) /\ pc' = "saveFork"
       \/ /\ LocalBlock(cur) = NoBlock
          /\ pc' = "forkHash"
          /\ UNCHANGED curHash
    /\ UNCHANGED <<main, store, scanning, cur, fetched, forkBlock, i, todo, user,
                   faults, history>>

\* No local block: the node is asked for its hash.  The answer is dropped, and
\* the next statement reads a field of the nil local block.
ForkHash ==
    /\ pc = "forkHash"
    /\ \/ HashFails(cur) /\ Break(cur)
       \/ \E b \in Answer : HashIs(cur, b) /\ pc' = "panic" /\ UNCHANGED i
    /\ UNCHANGED <<main, store, scanning, cur, curHash, fetched, forkBlock, todo, user,
                   history>>

SaveFork ==
    /\ pc = "saveFork"
    /\ SaveLocalNewBlock(Height[curHash], curHash)
    /\ pc' = IF forkBlock = NoBlock THEN "loop" ELSE "notifyFork"
    /\ UNCHANGED <<main, localBlocks, unscan, scanning, cur, curHash, fetched,
                   forkBlock, i, todo, user, faults, history>>

NotifyFork ==
    /\ pc = "notifyFork"
    /\ announced' = announced \ {forkBlock}
    /\ pc' = "loop"
    /\ UNCHANGED <<main, store, scanning, cur, curHash, fetched, forkBlock, i, todo,
                   user, faults, starts, followed, misled, delivered>>

SaveNew ==
    /\ pc = "saveNew"
    /\ SaveLocalNewBlock(cur, curHash)
    /\ pc' = "saveBlock"
    /\ UNCHANGED <<main, localBlocks, unscan, scanning, cur, curHash, fetched,
                   forkBlock, i, todo, user, faults, history>>

SaveBlock ==
    /\ pc = "saveBlock"
    /\ SaveLocalBlock(fetched)
    /\ pc' = "notifyNew"
    /\ UNCHANGED <<main, localHeight, localHash, unscan, scanning, cur, curHash,
                   fetched, forkBlock, i, todo, user, faults, history>>

NotifyNew ==
    /\ pc = "notifyNew"
    /\ announced' = announced \cup Real(fetched)
    /\ pc' = "loop"
    /\ UNCHANGED <<main, store, scanning, cur, curHash, fetched, forkBlock, i, todo,
                   user, faults, starts, followed, misled, delivered>>

-----------------------------------------------------------------------------
(* The task: the blocks scanned again after the loop. *)

\* The loop over the last blocks, and after it the records to scan again.
LastHash ==
    /\ pc = "last"
    /\ \/ /\ i >= cur
          /\ todo' = unscan /\ pc' = "failed"
          /\ NoFault
          /\ UNCHANGED <<i, fetched>>
       \/ /\ i < cur
          /\ HashFails(i)
          /\ i' = i + 1
          /\ UNCHANGED <<pc, todo, fetched>>
       \/ /\ i < cur
          /\ \E b \in Answer : HashIs(i, b) /\ fetched' = b
          /\ pc' = "lastBlock"
          /\ UNCHANGED <<i, todo>>
    /\ UNCHANGED <<main, store, scanning, cur, curHash, forkBlock, user, history>>

\* The rest of scanBlock(h), once its hash is known: the block is read and
\* extracted whatever the extraction returns, or leaves a record.
ScanFails(hash, h) == BlockFails(hash) /\ SaveUnscanRecord(h) /\ UNCHANGED delivered
ScanGives(hash, block) ==
    /\ BlockIs(hash, block)
    /\ \E err \in BOOLEAN : BatchExtract(block, err)

LastBlock ==
    /\ pc = "lastBlock"
    /\ ScanFails(fetched, i) \/ \E block \in Answer : ScanGives(fetched, block)
    /\ i' = i + 1 /\ pc' = "last"
    /\ UNCHANGED <<main, localHeight, localHash, localBlocks, scanning, cur, curHash,
                   fetched, forkBlock, todo, user, starts, followed, misled, announced>>

\* RescanFailedRecord goes through the heights in the order of a Go map, any.
\* Its last step, DeleteUnscanRecordNotFindTX, deletes the records whose reason
\* is one no call of this adapter gives: it changes nothing.
FailedHash ==
    /\ pc = "failed"
    /\ \/ todo = {} /\ Return /\ NoFault
       \/ \E h \in todo :
            /\ todo' = todo \ {h}
            /\ \/ HashFails(h) /\ UNCHANGED <<pc, fetched>>
               \/ \E b \in Answer : HashIs(h, b) /\ fetched' = b /\ pc' = "failedBlock"
            /\ UNCHANGED <<cur, curHash, forkBlock, i>>
    /\ UNCHANGED <<main, store, scanning, user, history>>

\* Mutant: the record is deleted whatever the extraction returns.
FailedBlockForgotten ==
    /\ pc = "failedBlock"
    /\ \/ BlockFails(fetched) /\ pc' = "failed" /\ UNCHANGED <<unscan, delivered>>
       \/ \E block \in Answer, err \in BOOLEAN :
            /\ BlockIs(fetched, block) /\ BatchExtract(block, err)
            /\ pc' = IF fetched = NoBlock THEN "failed" ELSE "failedDelete"
    /\ UNCHANGED <<main, localHeight, localHash, localBlocks, scanning, cur, curHash,
                   fetched, forkBlock, i, todo, user, starts, followed, misled,
                   announced>>

FailedBlock ==
    /\ pc = "failedBlock"
    /\ \/ BlockFails(fetched) /\ pc' = "failed" /\ UNCHANGED <<unscan, delivered>>
       \/ \E block \in Answer, err \in BOOLEAN :
            /\ BlockIs(fetched, block) /\ BatchExtract(block, err)
            /\ pc' = IF err THEN "failed" ELSE "failedDelete"
    /\ UNCHANGED <<main, localHeight, localHash, localBlocks, scanning, cur, curHash,
                   fetched, forkBlock, i, todo, user, starts, followed, misled,
                   announced>>

FailedDelete ==
    /\ pc = "failedDelete"
    /\ DeleteUnscanRecord(Height[fetched])
    /\ pc' = "failed"
    /\ UNCHANGED <<main, localHeight, localHash, localBlocks, scanning, cur, curHash,
                   fetched, forkBlock, i, todo, user, faults, history>>

-----------------------------------------------------------------------------
(* The application. *)

\* A call returns.
UserReturn == uPc' = "idle" /\ uHeight' = 0 /\ uBlock' = NoBlock

\* A call has the hash of its height and goes on.
UserGoesOn(h, b, next) == HashIs(h, b) /\ uHeight' = h /\ uBlock' = b /\ uPc' = next

\* SetRescanBlockHeight(h): the block before h becomes the scan point.  h - 1
\* is uint64, so the test for a negative height never holds.
ResetHash ==
    /\ Alive /\ uPc = "idle" /\ calls > 0
    /\ \E h \in ResetHeights :
         \/ HashFails((h - 1) % Modulus) /\ UNCHANGED <<uPc, uHeight, uBlock>>
         \/ \E b \in Answer : UserGoesOn((h - 1) % Modulus, b, "resetSave")
    /\ calls' = calls - 1
    /\ UNCHANGED <<main, store, scanning, task, history>>

ResetSave ==
    /\ Alive /\ uPc = "resetSave"
    /\ SaveLocalNewBlock(uHeight, uBlock)
    /\ starts' = starts \cup Real(uBlock)
    /\ UserReturn
    /\ UNCHANGED <<main, localBlocks, unscan, scanning, task, calls, faults, followed,
                   misled, delivered, announced>>

\* ScanBlock(h): one block is scanned and announced, the scan point is left alone.
UserScanHash ==
    /\ Alive /\ uPc = "idle" /\ calls > 0
    /\ \E h \in ScanHeights :
         \/ HashFails(h) /\ UNCHANGED <<uPc, uHeight, uBlock>>
         \/ \E b \in Answer : UserGoesOn(h, b, "scanBlock")
    /\ calls' = calls - 1
    /\ UNCHANGED <<main, store, scanning, task, history>>

UserScanBlock ==
    /\ Alive /\ uPc = "scanBlock"
    /\ \/ ScanFails(uBlock, uHeight) /\ UserReturn
       \/ /\ \E block \in Answer : ScanGives(uBlock, block) /\ uBlock' = block
          /\ uPc' = "scanNotify"
          /\ UNCHANGED uHeight
    /\ UNCHANGED <<main, localHeight, localHash, localBlocks, scanning, task, calls,
                   starts, followed, misled, announced>>

UserScanNotify ==
    /\ Alive /\ uPc = "scanNotify"
    /\ announced' = announced \cup Real(uBlock)
    /\ UserReturn
    /\ UNCHANGED <<main, store, scanning, task, calls, faults, starts, followed, misled,
                   delivered>>

Pause ==
    /\ Alive /\ scanning /\ Fault("pause")
    /\ scanning' = FALSE
    /\ UNCHANGED <<main, store, task, user, history>>

Run ==
    /\ Alive /\ ~scanning
    /\ scanning' = TRUE
    /\ UNCHANGED <<main, store, task, user, faults, history>>

-----------------------------------------------------------------------------
(* Crashes. *)

\* The process is started anew: it has what the store has.
Reboot ==
    /\ Return /\ UserReturn
    /\ scanning' = TRUE
    /\ UNCHANGED <<main, localBlocks, unscan, calls, history>>

Restart == ~Alive /\ Reboot /\ UNCHANGED <<localHeight, localHash, faults>>

Crash == Alive /\ Fault("crash") /\ Reboot /\ UNCHANGED <<localHeight, localHash>>

\* SaveLocalNewBlock is two writes: the process stops between them.
CrashInSave ==
    /\ Alive /\ Fault("torn") /\ Reboot
    /\ \/ pc = "saveNew" /\ localHeight' = cur
       \/ pc = "saveFork" /\ localHeight' = Height[curHash]
       \/ uPc = "resetSave" /\ localHeight' = uHeight
    /\ UNCHANGED localHash

-----------------------------------------------------------------------------

Init ==
    /\ main \in Branches
    /\ localHeight = 0 /\ localHash = NoBlock
    /\ localBlocks = {} /\ unscan = {}
    /\ scanning = TRUE
    /\ pc = "idle" /\ cur = 0 /\ curHash = NoBlock
    /\ fetched = NoBlock /\ forkBlock = NoBlock /\ i = 0 /\ todo = {}
    /\ uPc = "idle" /\ uHeight = 0 /\ uBlock = NoBlock /\ calls = MaxCalls
    /\ faults = MaxFaults
    /\ starts = {} /\ followed = {} /\ delivered = {} /\ announced = {} /\ misled = FALSE

NodeStep == NodeAdvances /\ UNCHANGED <<store, scanning, task, user, faults, history>>

TaskLoop == \/ LoopHead \/ NextHash \/ NextBlock
            \/ ForkDelete \/ ForkLocal \/ ForkHash \/ SaveFork \/ NotifyFork
            \/ SaveNew \/ SaveBlock \/ NotifyNew
TaskRescans == LastHash \/ LastBlock \/ FailedHash \/ FailedBlock \/ FailedDelete
TaskStep == TaskStart \/ StartHash \/ TaskLoop \/ TaskRescans
UserStep == ResetHash \/ ResetSave \/ UserScanHash \/ UserScanBlock \/ UserScanNotify
            \/ Pause \/ Run
CrashStep == Restart \/ Crash \/ CrashInSave

Next == NodeStep \/ TaskStep \/ UserStep \/ CrashStep

Spec == Init /\ [][Next]_vars

\* The timer starts the task again and again and the task runs when it can;
\* a process that panicked is started again and a paused scanner is resumed.
Fairness == WF_vars(TaskStep) /\ WF_vars(Restart) /\ WF_vars(Run)

FairSpec == Spec /\ Fairness

-----------------------------------------------------------------------------
(* Properties.  The loop that goes on from an empty block has left the chain: what  *)
(* it says of the chain afterwards is not promised, and misled says so.             *)

\* The blocks from a starting point to the saved scan point are linked by their
\* parents and each has been extracted: failures of the node, forks, crashes
\* between the writes and calls of the application leave no gap behind the scan
\* point, unless the loop went by an empty block (lines 110-228 of blockscanner.go,
\* the test of PreHash on line 157).
ScannedChainHasNoGap ==
    ~misled =>
        /\ localHash # NoBlock => localHash \in starts \cup followed
        /\ \A b \in followed : Parent[b] \in starts \cup followed

\* When the saved scan point is on the node's branch, a block of this branch that
\* it has passed since the last starting point has its data with the observers or
\* a record that will have it scanned again (lines 143-152, 290-347 and 405-411 of
\* blockscanner.go), also when the node answers with empty hashes and blocks, but
\* for a loop that went by one.  While the task steps back at a fork the record is
\* gone and the step back is not yet saved.
SteppingBack == pc \in {"forkLocal", "forkHash", "saveFork"}
PassedBlocks ==
    {b \in followed \cap main :
        /\ localHash \in main /\ Height[b] <= Height[localHash]
        /\ \A s \in starts \cap main : Height[s] < Height[b]}
IsCovered(b) == b \in delivered \/ Height[b] \in unscan
PassedBlockIsCovered ==
    ~misled /\ ~SteppingBack => \A b \in PassedBlocks : IsCovered(b)

\* The blocks the observers hold as scanned and not forked off are on one branch
\* (lines 202-206 and 224-225 of blockscanner.go).
AnnouncedIsOneBranch == \E s \in Branches : announced \subseteq s

\* Observers are told of a fork only for a block the node has left: this is what the
\* words of the code say, an extraction of the old branch taken back (lines 157-173
\* and 202-206 of blockscanner.go).
ForkNoticeMeansFork == pc = "notifyFork" => forkBlock \notin main

\* It is so as long as the loop has not taken an empty block for one of another
\* branch, whatever else the node answers.
ForkNoticeIsOrphan == ~misled => ForkNoticeMeansFork

\* Scanning does not move the scan point over a block of the node's branch: the point
\* goes to a block of this branch by at most one height up, after a step back of a
\* fork and a start from the store as well (lines 101-108, 175-200 and 215-219 of
\* blockscanner.go), unless the loop went by an empty block.
ScanPointSkipsNoBlock ==
    [][~misled' /\ localHash # NoBlock /\ localHash' \in main
        => localHeight' <= localHeight + 1]_vars

\* A panic is not for ever (lines 177-193 of blockscanner.go).
PanicsEnd == <>[](pc # "panic")

\* The task reaches the height of the node's newest block and has the hash of this
\* block, or the empty one when it went by an empty block, unless it panics again and
\* again (lines 110-228 of blockscanner.go, the step back of lines 172-175).
CatchesUp ==
    PanicsEnd => <>[](/\ localHeight = TipHeight
                      /\ localHash \in main \/ (misled /\ localHash = NoBlock))

\* A block the scan point has passed is delivered in the end, unless the node
\* leaves it, the loop went by an empty block or the task panics again and again
\* (lines 230-241 and 290-347 of blockscanner.go).
PassedBlockIsDelivered ==
    PanicsEnd => \A b \in Block :
        b \in PassedBlocks ~> (b \in delivered \/ b \notin main \/ misled)

\* So is a block that the last blocks scanned again do not reach any more, at least by
\* its record: this is what the words of the code say of an observer that failed
\* (lines 955-972 and 290-347 of blockscanner.go).
DeepBlockIsDelivered ==
    PanicsEnd => \A b \in Block :
        (b \in PassedBlocks /\ Height[b] + RescanLastBlockCount < localHeight)
            ~> (b \in delivered \/ b \notin main \/ misled)
=============================================================================
