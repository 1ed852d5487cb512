-------------------------- MODULE BlockScannerProofs --------------------------
(***************************************************************************)
(* Type correctness of BlockScanner, and that the chain behind the scan    *)
(* point has no gap, for every block tree, every number of faults and      *)
(* every bound.  Then what the scan point, the saved blocks and the fork   *)
(* notices have to do with the branch of the node, for every block tree    *)
(* the node walks without coming back to a branch it has left, as long as  *)
(* nobody sets the scan point back and no crash tears its two writes apart.*)
(***************************************************************************)
EXTENDS BlockScanner, TLAPS

Scanned == starts \cup followed

\* What a program point says of the variables it is about to use.
Located ==
    /\ pc = "failedDelete" => fetched \in Block
    /\ pc = "saveFork" => curHash \in Block
    /\ pc = "lastBlock" => i < cur

\* Every hash the scanner may go on from is a starting point or was extracted.
Linked ==
    /\ localHash \in Scanned \cup {NoBlock}
    /\ curHash \in Scanned \cup {NoBlock}
    /\ localBlocks \subseteq Scanned
    /\ \A b \in followed : Parent[b] \in Scanned
    /\ pc \in {"saveNew", "saveBlock"} => fetched \in followed

Inv == TypeOK /\ Located /\ (~misled => Linked)

\* The height of the node's tip is a number.
LEMMA TipHeightType == NodeTypeOK => TipHeight \in Nat
  BY BlockAssumption, BranchAssumption
  DEF NodeTypeOK, TipHeight, TipHeightOf, IsTip

\* Arithmetic on heights stays among the heights.
LEMMA HeightArithmetic ==
  /\ 0 \in Heights /\ 1 \in Heights
  /\ \A n \in Int : n % Modulus \in Heights
  /\ \A h \in Heights : TwoBack(h) \in Heights
  /\ \A b \in Block : Height[b] \in Heights
  /\ \A h, k \in Heights : h < k => h + 1 \in Heights
<1>1. Modulus \in Nat /\ Modulus > 1
  BY ScannerAssumption
<1>2. \A n \in Int : n % Modulus \in 0 .. Modulus - 1
  BY <1>1
<1>3. \A h \in 0 .. Modulus - 1 : h \in Int /\ h - 2 \in Int
  BY <1>1
<1>4. \A h \in Heights : TwoBack(h) \in Heights
  BY <1>1, <1>2, <1>3 DEF TwoBack, Heights
<1>5. \A b \in Block : Height[b] \in Heights
  BY <1>1, BlockAssumption, ScannerAssumption DEF Heights
<1> QED
  BY <1>1, <1>2, <1>4, <1>5 DEF Heights

\* The invariant holds in the states the program starts in.
LEMMA InitInv == Init => Inv
<1>1. 0 \in Heights /\ MaxCalls \in 0 .. MaxCalls /\ MaxFaults \in 0 .. MaxFaults
  BY HeightArithmetic, ScannerAssumption
<1>2. Init => TypeOK
  BY <1>1 DEF Init, TypeOK, NodeTypeOK
<1>3. Init => Located /\ Linked
  BY DEF Init, Located, Linked, Scanned
<1> QED
  BY <1>2, <1>3 DEF Inv

\* What a fault or the absence of one does to the bound.
LEMMA FaultType ==
  ASSUME faults \in 0 .. MaxFaults, NEW kind, Fault(kind) \/ NoFault
  PROVE  faults' \in 0 .. MaxFaults
  BY ScannerAssumption DEF Fault, NoFault

\* The end of the loop: the first of the last blocks is a height.
LEMMA BreakType ==
  ASSUME NEW h \in Heights, Break(h)
  PROVE  i' \in Heights /\ pc' = "last"
<1>1. h - RescanLastBlockCount \in Int
  BY ScannerAssumption DEF Heights
<1> QED
  BY <1>1, HeightArithmetic DEF Break

\* The blocks an answer of the node stands for.
LEMMA RealType == ASSUME NEW b \in Answer PROVE Real(b) \subseteq Block /\ Real(b) \subseteq {b}
  BY DEF Answer, Real

\* What the store finds at a height is one of its blocks, or none.
LEMMA LocalBlockType ==
  ASSUME NEW h
  PROVE  LocalBlock(h) \in localBlocks \cup {NoBlock}
  BY DEF LocalBlock

-----------------------------------------------------------------------------
(* Every action preserves the invariant. *)

\* A round of the task begins.
LEMMA TaskStartInv == Inv /\ TaskStart => Inv'
<1> SUFFICES ASSUME Inv, TaskStart PROVE Inv'
  OBVIOUS
<1>1. faults' \in 0 .. MaxFaults
  BY FaultType DEF Inv, TypeOK, TaskStart, TipIs
<1>2. \A h \in Heights : (h - 1) % Modulus \in Heights
  BY HeightArithmetic DEF Heights
<1>3. /\ cur' \in Heights /\ pc' \in {"loop", "startHash"}
      /\ curHash' \in {localHash, curHash}
  BY <1>2 DEF Inv, TypeOK, TaskStart
<1> QED
  BY <1>1, <1>3
  DEF Inv, TypeOK, Located, Linked, Scanned, NodeTypeOK, TaskStart, store, user, history

\* The task reads the hash it starts from.
LEMMA StartHashInv == Inv /\ StartHash => Inv'
  BY HeightArithmetic, ScannerAssumption
  DEF Inv, TypeOK, Located, Linked, Scanned, NodeTypeOK, StartHash, HashFails,
      Return, HashIs, store, user, Fault, NoFault, BlockAt, Answer, Real

\* The task asks for the height of the tip.
LEMMA LoopHeadInv == Inv /\ LoopHead => Inv'
<1> SUFFICES ASSUME Inv, LoopHead PROVE Inv'
  OBVIOUS
<1>1. faults' \in 0 .. MaxFaults
  BY FaultType DEF Inv, TypeOK, LoopHead, TipIs
<1>2. UNCHANGED <<main, store, scanning, user, history>>
  BY DEF LoopHead
<1> USE DEF Inv, TypeOK, Located, Linked, Scanned, NodeTypeOK, store, user, history
<1>3. CASE Return
  BY <1>1, <1>2, <1>3, HeightArithmetic DEF Return
<1>4. CASE Break(cur) /\ UNCHANGED <<cur, curHash, fetched, forkBlock, todo>>
  BY <1>1, <1>2, <1>4, BreakType
<1>5. CASE /\ cur' = (cur + 1) % Modulus /\ pc' = "hash"
           /\ UNCHANGED <<curHash, fetched, forkBlock, i, todo>>
  <2>1. cur + 1 \in Int
    BY DEF Heights
  <2>2. cur' \in Heights
    BY <1>5, <2>1, HeightArithmetic
  <2> QED
    BY <1>1, <1>2, <1>5, <2>2
<1> QED
  BY <1>3, <1>4, <1>5 DEF LoopHead

\* The task asks for the hash of the next height.
LEMMA NextHashInv == Inv /\ NextHash => Inv'
<1> SUFFICES ASSUME Inv, NextHash PROVE Inv'
  OBVIOUS
<1>1. faults' \in 0 .. MaxFaults
  BY FaultType DEF Inv, TypeOK, NextHash, HashFails, HashIs
<1>2. UNCHANGED <<main, store, scanning, cur, curHash, forkBlock, todo, user, history>>
  BY DEF NextHash
<1> USE DEF Inv, TypeOK, Located, Linked, Scanned, NodeTypeOK, store, user, history
<1>3. CASE Break(cur) /\ UNCHANGED fetched
  BY <1>1, <1>2, <1>3, BreakType
<1>4. CASE \E b \in Answer : fetched' = b /\ pc' = "block" /\ UNCHANGED i
  BY <1>1, <1>2, <1>4 DEF Answer
<1> QED
  BY <1>3, <1>4 DEF NextHash

\* The block is extracted only when its parent is the block scanned last: this is
\* where the chain stays without a gap.
LEMMA NextBlockInv == Inv /\ NextBlock => Inv'
<1> SUFFICES ASSUME Inv, NextBlock PROVE Inv'
  OBVIOUS
<1>1. fetched \in Answer /\ cur \in Heights
  BY DEF NextBlock, Inv, TypeOK, Answer
<1>2. UNCHANGED <<main, localHeight, localHash, localBlocks, scanning, cur, forkBlock,
                  i, todo, user, starts, announced>>
  BY DEF NextBlock
<1>3. faults' \in 0 .. MaxFaults
  BY FaultType DEF Inv, TypeOK, NextBlock, BlockFails, Given, BatchExtract
<1> USE DEF Inv, TypeOK, Located, Linked, Scanned, NodeTypeOK, user
<1>4. CASE SaveUnscanRecord(cur) /\ pc' = "loop"
           /\ UNCHANGED <<fetched, curHash, followed, misled, delivered>>
  BY <1>1, <1>2, <1>3, <1>4 DEF SaveUnscanRecord
<1>5. ASSUME NEW block \in Answer, fetched' = block, misled' = (misled \/ block = NoBlock),
             pc' = "fork", UNCHANGED <<unscan, curHash, followed, delivered>>
      PROVE  Inv'
  BY <1>2, <1>3, <1>5 DEF Answer
<1>6. ASSUME NEW block \in Answer, BlockIs(fetched, block), fetched' = block,
             misled' = (misled \/ block = NoBlock), ~IsFork(block),
             NEW err \in BOOLEAN, BatchExtract(block, err),
             curHash' = fetched, followed' = followed \cup Real(fetched), pc' = "saveNew"
      PROVE  Inv'
  <2>1. unscan' \subseteq Heights \ {0} /\ delivered' \subseteq Block
    BY <1>6, HeightArithmetic DEF BatchExtract, SaveUnscanRecord, Answer, Real
  <2>2. TypeOK'
    BY <1>1, <1>2, <1>3, <1>6, <2>1 DEF Answer, Real
  <2>3. Located'
    BY <1>6
  <2>4. ASSUME ~misled' PROVE Linked'
    <3>1. ~misled /\ block # NoBlock /\ block = fetched /\ fetched \in Block
      BY <1>6, <2>4 DEF BlockIs, Answer
    <3>2. Parent[fetched] \in Scanned
      BY <1>6, <3>1, BlockAssumption DEF IsFork, PreHash
    <3> QED
      BY <1>2, <1>6, <3>1, <3>2 DEF Real
  <2> QED
    BY <2>2, <2>3, <2>4
<1> QED
  BY <1>4, <1>5, <1>6 DEF NextBlock

\* A fork forgets the unscanned records of its block.
LEMMA ForkDeleteInv == Inv /\ ForkDelete => Inv'
  BY HeightArithmetic, LocalBlockType
  DEF Inv, TypeOK, Located, Linked, Scanned, NodeTypeOK, ForkDelete,
      DeleteUnscanRecord, user, history

\* A fork reads the block two heights back.
LEMMA ForkLocalInv == Inv /\ ForkLocal => Inv'
  BY LocalBlockType
  DEF Inv, TypeOK, Located, Linked, Scanned, NodeTypeOK, ForkLocal, store, user,
      history

\* A fork asks the node for the block it has not found.
LEMMA ForkHashInv == Inv /\ ForkHash => Inv'
<1> SUFFICES ASSUME Inv, ForkHash PROVE Inv'
  OBVIOUS
<1>1. faults' \in 0 .. MaxFaults
  BY FaultType DEF Inv, TypeOK, ForkHash, HashFails, HashIs
<1>2. UNCHANGED <<main, store, scanning, cur, curHash, fetched, forkBlock, todo, user,
                  history>>
  BY DEF ForkHash
<1> USE DEF Inv, TypeOK, Located, Linked, Scanned, NodeTypeOK, store, user, history
<1>3. CASE Break(cur)
  BY <1>1, <1>2, <1>3, BreakType
<1>4. CASE pc' = "panic" /\ UNCHANGED i
  BY <1>1, <1>2, <1>4
<1> QED
  BY <1>3, <1>4 DEF ForkHash

\* The step back is saved.
LEMMA SaveForkInv == Inv /\ SaveFork => Inv'
  BY HeightArithmetic
  DEF Inv, TypeOK, Located, Linked, Scanned, NodeTypeOK, SaveFork,
      SaveLocalNewBlock, user, history

\* Observers are told of the fork.
LEMMA NotifyForkInv == Inv /\ NotifyFork => Inv'
  BY DEF Inv, TypeOK, Located, Linked, Scanned, NodeTypeOK, NotifyFork, store, user

\* The next block becomes the scan point.
LEMMA SaveNewInv == Inv /\ SaveNew => Inv'
  BY DEF Inv, TypeOK, Located, Linked, Scanned, NodeTypeOK, SaveNew,
      SaveLocalNewBlock, user, history

\* The block is saved.
LEMMA SaveBlockInv == Inv /\ SaveBlock => Inv'
  BY DEF Inv, TypeOK, Located, Linked, Scanned, NodeTypeOK, SaveBlock,
      SaveLocalBlock, Real, user, history

\* Observers are told of the block.
LEMMA NotifyNewInv == Inv /\ NotifyNew => Inv'
  BY DEF Inv, TypeOK, Located, Linked, Scanned, NodeTypeOK, NotifyNew, Real, store, user

\* The last block is read again: its hash.
LEMMA LastHashInv == Inv /\ LastHash => Inv'
  BY HeightArithmetic, TipHeightType, ScannerAssumption
  DEF Inv, TypeOK, Located, Linked, Scanned, NodeTypeOK, LastHash, NoFault,
      HashFails, HashIs, store, user, history, Fault, BlockAt, Answer

\* The last block is read again: the block.
LEMMA LastBlockInv == Inv /\ LastBlock => Inv'
  BY HeightArithmetic, ScannerAssumption
  DEF Inv, TypeOK, Located, Linked, Scanned, NodeTypeOK, LastBlock, ScanFails, ScanGives,
      user, BlockFails, BlockIs, SaveUnscanRecord, BatchExtract, Given, Fault, NoFault,
      Answer, Real

\* A failed height is read again: its hash.
LEMMA FailedHashInv == Inv /\ FailedHash => Inv'
  BY HeightArithmetic, ScannerAssumption
  DEF Inv, TypeOK, Located, Linked, Scanned, NodeTypeOK, FailedHash, Return,
      NoFault, HashFails, HashIs, store, user, history, Fault, BlockAt, Answer

\* A failed height is read again: the block.
LEMMA FailedBlockInv == Inv /\ FailedBlock => Inv'
  BY HeightArithmetic, ScannerAssumption
  DEF Inv, TypeOK, Located, Linked, Scanned, NodeTypeOK, FailedBlock, BlockFails,
      BlockIs, BatchExtract, Given, user, Fault, NoFault, SaveUnscanRecord, Answer, Real

\* The records of a height that has been read are deleted.
LEMMA FailedDeleteInv == Inv /\ FailedDelete => Inv'
  BY DEF Inv, TypeOK, Located, Linked, Scanned, NodeTypeOK, FailedDelete,
      DeleteUnscanRecord, user, history

\* SetRescanBlockHeight asks for the hash.
LEMMA ResetHashInv == Inv /\ ResetHash => Inv'
<1> SUFFICES ASSUME Inv, ResetHash PROVE Inv'
  OBVIOUS
<1>1. faults' \in 0 .. MaxFaults
  BY FaultType DEF Inv, TypeOK, ResetHash, HashFails, UserGoesOn, HashIs
<1>2. \A h \in ResetHeights : h \in Int /\ (h - 1) % Modulus \in Heights
  BY ScannerAssumption, HeightArithmetic
<1>3. /\ uPc' \in {"idle", "resetSave"} /\ uHeight' \in Heights
      /\ uBlock' \in Answer /\ calls' \in 0 .. MaxCalls
  BY <1>2, ScannerAssumption DEF Inv, TypeOK, ResetHash, UserGoesOn, Answer
<1> QED
  BY <1>1, <1>3
  DEF Inv, TypeOK, Located, Linked, Scanned, NodeTypeOK, ResetHash, store, task, history,
      Answer

\* SetRescanBlockHeight saves the scan point.
LEMMA ResetSaveInv == Inv /\ ResetSave => Inv'
  BY HeightArithmetic
  DEF Inv, TypeOK, Located, Linked, Scanned, NodeTypeOK, ResetSave, Alive,
      SaveLocalNewBlock, UserReturn, Real, task

\* ScanBlock asks for the hash.
LEMMA UserScanHashInv == Inv /\ UserScanHash => Inv'
<1> SUFFICES ASSUME Inv, UserScanHash PROVE Inv'
  OBVIOUS
<1>1. faults' \in 0 .. MaxFaults
  BY FaultType DEF Inv, TypeOK, UserScanHash, HashFails, UserGoesOn, HashIs
<1>2. /\ uPc' \in {"idle", "scanBlock"} /\ uHeight' \in Heights
      /\ uBlock' \in Answer /\ calls' \in 0 .. MaxCalls
  BY ScannerAssumption DEF Inv, TypeOK, UserScanHash, UserGoesOn, Answer, Heights
<1> QED
  BY <1>1, <1>2
  DEF Inv, TypeOK, Located, Linked, Scanned, NodeTypeOK, UserScanHash, store, task,
      history, Answer

\* ScanBlock asks for the block.
LEMMA UserScanBlockInv == Inv /\ UserScanBlock => Inv'
  BY HeightArithmetic, ScannerAssumption
  DEF Inv, TypeOK, Located, Linked, Scanned, NodeTypeOK, UserScanBlock, Alive, UserReturn,
      ScanFails, ScanGives, BlockFails, BlockIs, SaveUnscanRecord, BatchExtract, Given, task,
      Fault, NoFault, Answer, Real

\* ScanBlock tells observers of the block.
LEMMA UserScanNotifyInv == Inv /\ UserScanNotify => Inv'
  BY HeightArithmetic
  DEF Inv, TypeOK, Located, Linked, Scanned, NodeTypeOK, UserScanNotify, Alive,
      UserReturn, Real, store, task

\* The application pauses the task.
LEMMA PauseInv == Inv /\ Pause => Inv'
<1> SUFFICES ASSUME Inv, Pause PROVE Inv'
  OBVIOUS
<1>1. faults' \in 0 .. MaxFaults
  BY FaultType DEF Inv, TypeOK, Pause
<1>2. scanning' \in BOOLEAN
  BY DEF Pause
<1>3. UNCHANGED <<main, store, task, user, history>>
  BY DEF Pause
<1> QED
  BY <1>1, <1>2, <1>3
  DEF Inv, TypeOK, Located, Linked, Scanned, NodeTypeOK, store, task, user, history

\* The application lets the task go on.
LEMMA RunInv == Inv /\ Run => Inv'
  BY DEF Inv, TypeOK, Located, Linked, Scanned, NodeTypeOK, Run, Alive, store, task,
      user, history

\* The process is started again after a panic.
LEMMA RestartInv == Inv /\ Restart => Inv'
  BY HeightArithmetic
  DEF Inv, TypeOK, Located, Linked, Scanned, NodeTypeOK, Restart, Alive, Reboot,
      Return, UserReturn, history

\* The process stops and what it keeps in memory is gone.
LEMMA CrashInv == Inv /\ Crash => Inv'
  BY HeightArithmetic, ScannerAssumption
  DEF Inv, TypeOK, Located, Linked, Scanned, NodeTypeOK, Crash, Alive, Fault,
      Reboot, Return, UserReturn, history

\* The process stops between the two writes of a save.
LEMMA CrashInSaveInv == Inv /\ CrashInSave => Inv'
  BY HeightArithmetic, ScannerAssumption
  DEF Inv, TypeOK, Located, Linked, Scanned, NodeTypeOK, CrashInSave, Alive,
      Fault, Reboot, Return, UserReturn, history

\* The node changes its chain.
LEMMA NodeStepInv == Inv /\ NodeStep => Inv'
  BY DEF Inv, TypeOK, Located, Linked, Scanned, NodeTypeOK, NodeStep, NodeAdvances,
      store, task, user, history

\* Every step keeps the invariant.
LEMMA NextInv == Inv /\ [Next]_vars => Inv'
<1> SUFFICES ASSUME Inv, [Next]_vars PROVE Inv'
  OBVIOUS
<1>1. CASE NodeStep
  BY <1>1, NodeStepInv
<1>2. CASE TaskStep
  <2>1. CASE TaskLoop
    BY <2>1, LoopHeadInv, NextHashInv, NextBlockInv, ForkDeleteInv, ForkLocalInv,
       ForkHashInv, SaveForkInv, NotifyForkInv, SaveNewInv, SaveBlockInv, NotifyNewInv
    DEF TaskLoop
  <2>2. CASE TaskRescans
    BY <2>2, LastHashInv, LastBlockInv, FailedHashInv, FailedBlockInv, FailedDeleteInv
    DEF TaskRescans
  <2> QED
    BY <1>2, <2>1, <2>2, TaskStartInv, StartHashInv DEF TaskStep
<1>3. CASE UserStep
  BY <1>3, ResetHashInv, ResetSaveInv, UserScanHashInv, UserScanBlockInv,
     UserScanNotifyInv, PauseInv, RunInv
  DEF UserStep
<1>4. CASE CrashStep
  BY <1>4, RestartInv, CrashInv, CrashInSaveInv DEF CrashStep
<1>5. CASE UNCHANGED vars
  BY <1>5 DEF Inv, TypeOK, Located, Linked, Scanned, NodeTypeOK, vars, store, task,
              user, history
<1> QED
  BY <1>1, <1>2, <1>3, <1>4, <1>5 DEF Next

\* The inductive invariant holds in every state of every behaviour.
LEMMA SpecInv == Spec => []Inv
  BY InitInv, NextInv, PTL DEF Spec

\* Heights stay 64-bit heights, hashes are blocks or the empty hash, no record is
\* kept for height 0, whatever fails and whenever the process stops.
THEOREM TypeCorrect == Spec => []TypeOK
<1>1. Inv => TypeOK
  BY DEF Inv
<1> QED
  BY <1>1, SpecInv, PTL

\* No gap behind the scan point: for every block tree, every number of failures,
\* crashes and calls of the application.
THEOREM NoGap == Spec => []ScannedChainHasNoGap
<1>1. Inv => ScannedChainHasNoGap
  BY DEF Inv, TypeOK, Linked, Scanned, ScannedChainHasNoGap
<1> QED
  BY <1>1, SpecInv, PTL

-----------------------------------------------------------------------------
(* The scan point and the branch of the node. *)

\* The node does not return to a branch it has left.
NoReturn ==
    \A s, t, u \in Branches :
        TipHeightOf(s) < TipHeightOf(t) /\ TipHeightOf(t) < TipHeightOf(u)
            => s \cap u \subseteq t

\* Only the task moves the scan point, and it saves it whole.
OnlyTaskSaves == ResetHeights = {} /\ "torn" \notin Faults

\* On branch s the node has left block b: b is not on s, nor on a branch it may go to.
LeftOn(s, b) ==
    /\ b \notin s
    /\ \A t \in Branches : TipHeightOf(t) > TipHeightOf(s) => b \notin t

Left(b)  == LeftOn(main, b)
Known(b) == b \in main \/ Left(b)

\* Every hash the task has in hand or has saved was the node's when it was read.
AllKnown ==
    /\ \A b \in localBlocks \cup followed : Known(b)
    /\ Known(localHash) /\ Known(curHash) /\ Known(fetched)

\* The saved scan point and the saved blocks: what is saved at or above the scan
\* point is of a branch the node has left, but for the block scanned last.
Saved ==
    /\ localHash = NoBlock <=> localHeight = 0
    /\ localHash = NoBlock => localBlocks = {}
    /\ localHash # NoBlock => Height[localHash] = localHeight
    /\ \A a, b \in localBlocks : Height[a] = Height[b] => a = b
    /\ \A b \in localBlocks : Height[b] >= localHeight /\ b # localHash => Left(b)
    /\ uPc # "resetSave"

\* What the task relies on while it looks for new blocks.
Following ==
    /\ pc = "startHash" => localHash = NoBlock
    /\ pc \in {"loop", "hash", "block", "fork"} =>
        \/ curHash = localHash
        \/ localHash = NoBlock /\ curHash \in starts
    /\ pc = "loop" => cur >= localHeight
    /\ pc \in {"hash", "block", "fork", "saveNew"} => cur > localHeight
    /\ pc \in {"fork", "saveNew", "saveBlock", "notifyNew"} => fetched # NoBlock
    /\ pc \in {"block", "fork", "saveNew", "saveBlock", "notifyNew"}
        /\ fetched # NoBlock => fetched \in Block /\ Height[fetched] = cur
    /\ pc \in {"block", "fork"} /\ fetched # NoBlock /\ localHash # NoBlock
        /\ cur = localHeight + 1 /\ localHash # Parent[fetched] => Left(localHash)
    /\ pc = "saveNew" =>
        /\ curHash = fetched
        /\ \/ Parent[fetched] = localHash
           \/ localHash = NoBlock /\ Parent[fetched] \in starts
    /\ pc \in {"saveBlock", "notifyNew"} => fetched = localHash
    /\ pc \in {"saveBlock", "notifyNew", "notifyFork"} => curHash = localHash /\ cur = localHeight

\* And while it steps back: it goes below the scan point only when the node has
\* left the block scanned last, and then by one.
Stepping ==
    /\ pc = "fork" => curHash # Parent[fetched]
    /\ SteppingBack /\ localHash # NoBlock =>
        cur >= localHeight \/ (cur = localHeight - 1 /\ Left(localHash))
    /\ SteppingBack => cur # 0
    /\ pc = "saveFork" => curHash \in localBlocks /\ Height[curHash] = cur
    /\ SteppingBack \/ pc = "notifyFork" => Left(forkBlock)

PointInv == AllKnown /\ Saved /\ Following /\ Stepping

-----------------------------------------------------------------------------
(* Branches. *)

\* The height of a tip is a number.
LEMMA TipHeightOfType == ASSUME NEW s \in Branches PROVE TipHeightOf(s) \in Nat
  BY BlockAssumption, BranchAssumption DEF TipHeightOf, IsTip

\* A block that has been left stays left, and a block of a branch is left when the
\* node goes on without it.
LEMMA LeftStays ==
  ASSUME NoReturn, NEW s \in Branches, NEW t \in Branches,
         TipHeightOf(t) > TipHeightOf(s), NEW b
  PROVE  /\ LeftOn(s, b) => LeftOn(t, b)
         /\ b \in s => b \in t \/ LeftOn(t, b)
<1>1. \A u \in Branches : TipHeightOf(u) \in Nat
  BY TipHeightOfType
<1> QED
  BY <1>1 DEF LeftOn, NoReturn

\* Of two blocks of one height a branch holds at most one.
LEMMA OtherIsLeft ==
  ASSUME NodeTypeOK, NEW a \in main, NEW b, Known(b), b # a, Height[b] = Height[a]
  PROVE  Left(b)
  BY BranchAssumption DEF NodeTypeOK, IsBranch, Known

\* A branch holds the parent of each of its blocks.
LEMMA ParentIsOnBranch ==
  ASSUME NodeTypeOK, NEW b \in main
  PROVE  b \in Block /\ Parent[b] \in main
  BY BranchAssumption DEF NodeTypeOK, IsBranch

\* No block counts as one that was left.
LEMMA NoBlockIsLeft == NodeTypeOK => Left(NoBlock)
  BY BlockAssumption, BranchAssumption DEF NodeTypeOK, Left, LeftOn

\* The store finds a block at a height whenever it has one there.
LEMMA LocalBlockAt ==
  ASSUME localBlocks \subseteq Block, NEW h
  PROVE  /\ LocalBlock(h) # NoBlock => LocalBlock(h) \in localBlocks /\ Height[LocalBlock(h)] = h
         /\ \A b \in localBlocks : Height[b] = h => LocalBlock(h) # NoBlock
  BY BlockAssumption DEF LocalBlock

\* The saved blocks the node has not left are not above the scan point.
LEMMA SavedIsBehind ==
  ASSUME Inv, PointInv, NEW m \in localBlocks \cup {localHash}, ~Left(m)
  PROVE  /\ m \in Block /\ localHash # NoBlock /\ localHeight \in Nat /\ Height[m] \in Nat
         /\ Height[m] <= localHeight
         /\ Height[m] = localHeight => m = localHash
<1>1. m \in Block /\ localHash # NoBlock
  BY NoBlockIsLeft DEF Inv, TypeOK, PointInv, Saved
<1>2. localHeight \in Nat /\ Height[m] \in Nat
  BY <1>1, BlockAssumption DEF Inv, TypeOK, Heights
<1> QED
  BY <1>1, <1>2 DEF PointInv, Saved

-----------------------------------------------------------------------------
(* PointInv: steps that leave the scan point and the saved blocks alone. *)

Quiet == {"idle", "last", "lastBlock", "failed", "failedBlock", "failedDelete", "panic"}

\* The task is not, or no longer, looking for new blocks.
LEMMA QuietPoint ==
  ASSUME Inv, PointInv, pc' \in Quiet, curHash' \in {curHash, NoBlock},
         fetched' \in main \cup {fetched, NoBlock}, uPc' \in {uPc, "idle"},
         UNCHANGED <<main, localHeight, localHash, localBlocks, followed>>
  PROVE  PointInv'
<1>1. NodeTypeOK
  BY DEF Inv, TypeOK
<1>2. AllKnown'
  BY <1>1, NoBlockIsLeft DEF PointInv, AllKnown, Known, Left
<1>3. Saved'
  BY DEF PointInv, Saved, Left
<1>4. Following' /\ Stepping'
  BY DEF Following, Stepping, SteppingBack, Quiet
<1> QED
  BY <1>2, <1>3, <1>4 DEF PointInv

\* A call of the application runs, or the flag is set.
LEMMA AsidePoint ==
  ASSUME PointInv, uPc' # "resetSave",
         UNCHANGED <<main, localHeight, localHash, localBlocks, task, starts, followed>>
  PROVE  PointInv'
<1> USE DEF task
<1>1. AllKnown'
  BY DEF PointInv, AllKnown, Known, Left
<1>2. Saved'
  BY DEF PointInv, Saved, Left
<1>3. Following'
  BY DEF PointInv, Following, Left
<1>4. Stepping'
  BY DEF PointInv, Stepping, SteppingBack, Left
<1> QED
  BY <1>1, <1>2, <1>3, <1>4 DEF PointInv

\* The node leaves its branch.
LEMMA NodeStepPoint ==
  ASSUME NoReturn, Inv, PointInv, NodeStep
  PROVE  PointInv'
<1> USE DEF NodeStep, store, task, user, history
<1>1. main \in Branches /\ main' \in Branches /\ TipHeightOf(main') > TipHeightOf(main)
  BY DEF Inv, TypeOK, NodeTypeOK, NodeAdvances, TipHeight
<1>2. \A b : /\ LeftOn(main, b) => LeftOn(main', b)
             /\ b \in main => b \in main' \/ LeftOn(main', b)
  BY <1>1, LeftStays
<1>3. AllKnown'
  BY <1>2 DEF PointInv, AllKnown, Known, Left
<1>4. Saved'
  BY <1>2 DEF PointInv, Saved, Left
<1>5. Following'
  BY <1>2 DEF PointInv, Following, Left
<1>6. Stepping'
  BY <1>2 DEF PointInv, Stepping, SteppingBack, Left
<1> QED
  BY <1>3, <1>4, <1>5, <1>6 DEF PointInv

-----------------------------------------------------------------------------
(* PointInv: the steps of the loop over the new blocks. *)

\* A round of the task begins with the scan point of the store.
LEMMA TaskStartPoint ==
  ASSUME Inv, PointInv, TaskStart
  PROVE  PointInv'
<1> USE DEF store, user, history
<1>1. AllKnown' /\ Saved' /\ Stepping'
  BY DEF PointInv, AllKnown, Saved, Stepping, SteppingBack, Known, Left, TaskStart
<1>2. Following'
  BY DEF Inv, TypeOK, Heights, PointInv, Saved, Following, TaskStart
<1> QED
  BY <1>1, <1>2 DEF PointInv

\* The task reads the hash it starts from.
LEMMA StartHashPoint ==
  ASSUME Inv, PointInv, StartHash
  PROVE  PointInv'
<1> USE DEF store, user
<1>1. CASE Return
  BY <1>1, QuietPoint DEF StartHash, Return, Quiet
<1>2. CASE \E b \in Answer :
             /\ HashIs(cur, b)
             /\ curHash' = b /\ pc' = "loop"
             /\ starts' = starts \cup Real(b)
             /\ UNCHANGED <<cur, fetched, forkBlock, i, todo>>
  <2>1. AllKnown' /\ Saved' /\ Stepping'
    BY <1>2, NoBlockIsLeft
    DEF Inv, TypeOK, PointInv, AllKnown, Saved, Stepping, SteppingBack, Known, Left,
        StartHash, HashIs, BlockAt
  <2>2. Following'
    BY <1>2 DEF Inv, TypeOK, Heights, PointInv, Saved, Following, StartHash, Answer, Real
  <2> QED
    BY <2>1, <2>2 DEF PointInv
<1> QED
  BY <1>1, <1>2 DEF StartHash

\* The next height is a height: the tip is above the current one.
LEMMA NextHeight ==
  ASSUME Inv, cur < TipHeight
  PROVE  (cur + 1) % Modulus = cur + 1
<1>1. PICK b \in Block : TipHeight = Height[b]
  BY BranchAssumption DEF Inv, TypeOK, NodeTypeOK, TipHeight, TipHeightOf, IsTip
<1>2. Modulus \in Nat \ {0} /\ Height[b] \in Nat /\ Height[b] < Modulus
  BY BlockAssumption, ScannerAssumption
<1>3. cur \in Nat /\ cur + 1 \in 0 .. Modulus - 1
  BY <1>1, <1>2 DEF Inv, TypeOK, Heights
<1> QED
  BY <1>2, <1>3

\* The task asks for the height of the tip.
LEMMA LoopHeadPoint ==
  ASSUME Inv, PointInv, LoopHead
  PROVE  PointInv'
<1> USE DEF store, user, history
<1>1. CASE Return \/ Break(cur)
  BY <1>1, QuietPoint DEF LoopHead, Return, Break, Quiet
<1>2. CASE /\ cur < TipHeight
           /\ cur' = (cur + 1) % Modulus /\ pc' = "hash"
           /\ UNCHANGED <<curHash, fetched, forkBlock, i, todo>>
  <2>1. cur' = cur + 1 /\ cur \in Nat /\ localHeight \in Nat
    BY <1>2, NextHeight DEF Inv, TypeOK, Heights
  <2>2. AllKnown' /\ Saved' /\ Stepping'
    BY <1>2 DEF PointInv, AllKnown, Saved, Stepping, SteppingBack, Known, Left, LoopHead
  <2>3. Following'
    BY <1>2, <2>1 DEF PointInv, Following, LoopHead
  <2> QED
    BY <2>2, <2>3 DEF PointInv
<1> QED
  BY <1>1, <1>2 DEF LoopHead

\* The task asks for the hash of the next height.
LEMMA NextHashPoint ==
  ASSUME Inv, PointInv, NextHash
  PROVE  PointInv'
<1> USE DEF store, user, history
<1>1. CASE Break(cur) /\ UNCHANGED fetched
  BY <1>1, QuietPoint DEF NextHash, Break, Quiet
<1>2. ASSUME NEW b \in Answer, HashIs(cur, b), fetched' = b, pc' = "block", UNCHANGED i
      PROVE  PointInv'
  <2>1. NodeTypeOK /\ (b # NoBlock => b \in main /\ b \in Block /\ Height[b] = cur)
    BY <1>2 DEF HashIs, BlockAt, Inv, TypeOK, Answer
  <2>2. AllKnown' /\ Saved' /\ Stepping'
    BY <1>2, <2>1, NoBlockIsLeft
    DEF PointInv, AllKnown, Saved, Stepping, SteppingBack, Known, Left, NextHash
  <2>3. b # NoBlock /\ localHash # NoBlock /\ cur = localHeight + 1 /\ localHash # Parent[b]
          => Left(localHash)
    <3> SUFFICES ASSUME b # NoBlock, localHash # NoBlock, cur = localHeight + 1,
                        localHash # Parent[b]
                 PROVE  Left(localHash)
      OBVIOUS
    <3>1. Parent[b] \in main /\ Parent[b] \in Block
      BY <2>1, ParentIsOnBranch, BlockAssumption
    <3>2. localHeight \in Nat /\ Height[localHash] = localHeight
      BY DEF Inv, TypeOK, Heights, PointInv, Saved
    <3>3. Height[Parent[b]] = localHeight
      BY <2>1, <3>1, <3>2, BlockAssumption
    <3> QED
      BY <2>1, <3>1, <3>2, <3>3, OtherIsLeft DEF PointInv, AllKnown
  <2>4. Following'
    BY <1>2, <2>1, <2>3 DEF PointInv, Following, NextHash, Left
  <2> QED
    BY <2>2, <2>4 DEF PointInv
<1> QED
  BY <1>1, <1>2 DEF NextHash

\* The next block follows the scan point, or a fork is begun.
LEMMA NextBlockPoint ==
  ASSUME Inv, PointInv, NextBlock, ~misled'
  PROVE  PointInv'
<1> USE DEF user
<1>1. CASE pc' = "loop" /\ UNCHANGED <<fetched, curHash, followed, misled, delivered>>
  <2>1. AllKnown' /\ Saved' /\ Stepping'
    BY <1>1 DEF PointInv, AllKnown, Saved, Stepping, SteppingBack, Known, Left, NextBlock
  <2>2. Following'
    BY <1>1 DEF Inv, TypeOK, Heights, PointInv, Following, NextBlock
  <2> QED
    BY <2>1, <2>2 DEF PointInv
<1>2. CASE fetched # NoBlock /\ fetched' = fetched /\ IsFork(fetched) /\ pc' = "fork"
           /\ UNCHANGED <<unscan, curHash, followed, delivered>>
  <2>1. curHash # Parent[fetched]
    BY <1>2 DEF IsFork, PreHash
  <2>2. AllKnown' /\ Saved' /\ Stepping'
    BY <1>2, <2>1 DEF PointInv, AllKnown, Saved, Stepping, SteppingBack, Known, Left, NextBlock
  <2>3. Following'
    BY <1>2 DEF PointInv, Following, NextBlock, Left
  <2> QED
    BY <2>2, <2>3 DEF PointInv
<1>3. CASE fetched # NoBlock /\ fetched' = fetched /\ ~IsFork(fetched) /\ curHash' = fetched
           /\ followed' = followed \cup Real(fetched) /\ pc' = "saveNew"
  <2>1. curHash = Parent[fetched]
    BY <1>3 DEF IsFork, PreHash
  <2>2. AllKnown' /\ Saved' /\ Stepping'
    BY <1>3 DEF PointInv, AllKnown, Saved, Stepping, SteppingBack, Known, Left, NextBlock, Real
  <2>3. Following'
    BY <1>3, <2>1 DEF PointInv, Following, NextBlock
  <2> QED
    BY <2>2, <2>3 DEF PointInv
<1>4. ASSUME NEW block, BlockIs(fetched, block), misled' = (misled \/ block = NoBlock)
      PROVE  block = fetched /\ fetched # NoBlock
  BY <1>4 DEF BlockIs
<1> QED
  BY <1>1, <1>2, <1>3, <1>4 DEF NextBlock

\* The fork block is of a branch the node has left.
LEMMA ForkBlockIsLeft ==
  ASSUME Inv, PointInv, pc = "fork"
  PROVE  Left(LocalBlock(cur - 1))
<1> DEFINE f == LocalBlock(cur - 1)
<1>1. CASE f = NoBlock
  BY <1>1, NoBlockIsLeft DEF Inv, TypeOK
<1>2. CASE f # NoBlock
  <2>1. f \in localBlocks /\ Height[f] = cur - 1
    BY <1>2, LocalBlockAt DEF Inv, TypeOK
  <2>2. localHash # NoBlock /\ localHeight \in Nat /\ cur \in Nat /\ cur > localHeight
    BY <2>1 DEF Inv, TypeOK, Heights, PointInv, Saved, Following
  <2>3. CASE f = localHash
    <3>1. cur = localHeight + 1 /\ localHash # Parent[fetched]
      BY <2>1, <2>2, <2>3 DEF PointInv, Saved, Following, Stepping
    <3> QED
      BY <2>2, <2>3, <3>1 DEF PointInv, Following
  <2>4. CASE f # localHash
    BY <2>1, <2>2, <2>4 DEF PointInv, Saved
  <2> QED
    BY <2>3, <2>4
<1> QED
  BY <1>1, <1>2

\* Two heights back from above a scan point is at most one below it, and below it only
\* from the next height.
LEMMA TwoBackFrom ==
  ASSUME NEW h \in Heights, NEW l \in Nat \ {0}, h > l
  PROVE  TwoBack(h) >= l \/ (TwoBack(h) = l - 1 /\ h = l + 1)
<1>1. Modulus \in Nat \ {0, 1} /\ h \in Nat /\ h - 2 \in 0 .. Modulus - 1
  BY ScannerAssumption DEF Heights
<1>2. (h - 2) % Modulus = h - 2
  BY <1>1
<1> QED
  BY <1>1, <1>2 DEF TwoBack

\* Two heights back is never taken for no record: below 2 the height wraps.
LEMMA TwoBackIsNotZero == ASSUME NEW h \in Heights PROVE TwoBack(h) # 0
<1>1. Modulus \in Nat \ {0, 1} /\ h - 2 \in Int
  BY ScannerAssumption DEF Heights
<1>2. (h - 2) % Modulus \in Nat
  BY <1>1
<1> QED
  BY <1>2 DEF TwoBack

\* A fork forgets the unscanned records of its block.
LEMMA ForkDeletePoint ==
  ASSUME Inv, PointInv, ForkDelete
  PROVE  PointInv'
<1> USE DEF user, history
<1>1. AllKnown' /\ Saved'
  BY DEF PointInv, AllKnown, Saved, Known, Left, ForkDelete
<1>2. Following'
  BY DEF Following, ForkDelete
<1>3. localHash # NoBlock =>
        cur' >= localHeight \/ (cur' = localHeight - 1 /\ Left(localHash))
  <2> SUFFICES ASSUME localHash # NoBlock
               PROVE  cur' >= localHeight \/ (cur' = localHeight - 1 /\ Left(localHash))
    OBVIOUS
  <2>1. cur \in Heights /\ localHeight \in Nat \ {0} /\ cur > localHeight
    BY DEF Inv, TypeOK, Heights, PointInv, Saved, Following, ForkDelete
  <2>2. cur' >= localHeight \/ (cur' = localHeight - 1 /\ cur = localHeight + 1)
    BY <2>1, TwoBackFrom DEF ForkDelete
  <2>3. localHash # Parent[fetched]
    BY DEF PointInv, Following, Stepping, ForkDelete
  <2> QED
    BY <2>2, <2>3 DEF PointInv, Following, ForkDelete
<1>4. Left(forkBlock)'
  BY ForkBlockIsLeft DEF ForkDelete, Left
<1>5. cur' # 0
  BY TwoBackIsNotZero DEF Inv, TypeOK, ForkDelete
<1>6. Stepping'
  BY <1>3, <1>4, <1>5 DEF Stepping, SteppingBack, ForkDelete, Left
<1> QED
  BY <1>1, <1>2, <1>6 DEF PointInv

\* A fork reads the block two heights back: it was scanned before.
LEMMA ForkLocalPoint ==
  ASSUME Inv, PointInv, ForkLocal
  PROVE  PointInv'
<1> USE DEF store, user, history
<1>1. CASE LocalBlock(cur) # NoBlock /\ curHash' = LocalBlock(cur) /\ pc' = "saveFork"
  <2>1. curHash' \in localBlocks /\ Height[curHash'] = cur
    BY <1>1, LocalBlockAt DEF Inv, TypeOK
  <2>2. AllKnown' /\ Saved' /\ Following'
    BY <1>1, <2>1 DEF PointInv, AllKnown, Saved, Following, Known, Left, ForkLocal
  <2>3. Stepping'
    BY <1>1, <2>1 DEF PointInv, Stepping, SteppingBack, Left, ForkLocal
  <2> QED
    BY <2>2, <2>3 DEF PointInv
<1>2. CASE pc' = "forkHash" /\ UNCHANGED curHash
  BY <1>2 DEF PointInv, AllKnown, Saved, Following, Stepping, SteppingBack, Known, Left,
              ForkLocal
<1> QED
  BY <1>1, <1>2 DEF ForkLocal

\* A fork asks the node for the block it has not found.
LEMMA ForkHashPoint ==
  ASSUME Inv, PointInv, ForkHash
  PROVE  PointInv'
  BY QuietPoint DEF ForkHash, Break, Quiet, store, user, history

\* The step back is saved.
LEMMA SaveForkPoint ==
  ASSUME Inv, PointInv, SaveFork
  PROVE  PointInv'
<1> USE DEF user, history, SaveLocalNewBlock
<1>1. /\ curHash \in localBlocks /\ Height[curHash] = cur /\ cur # 0
      /\ localHash' = curHash /\ localHeight' = cur
      /\ curHash # NoBlock /\ localHash # NoBlock
  BY BlockAssumption DEF Inv, TypeOK, PointInv, Stepping, SteppingBack, Saved, SaveFork
<1>2. localHeight \in Nat /\ cur \in Nat /\ \A b \in localBlocks : Height[b] \in Nat
  BY BlockAssumption DEF Inv, TypeOK, Heights
<1>3. AllKnown'
  BY <1>1 DEF PointInv, AllKnown, Known, Left, SaveFork
<1>4. ASSUME NEW b \in localBlocks, Height[b] >= cur, b # curHash
      PROVE  Left(b)
  <2>1. Height[b] > cur
    BY <1>1, <1>2, <1>4 DEF PointInv, Saved
  <2>2. cur >= localHeight \/ (cur = localHeight - 1 /\ Left(localHash))
    BY <1>1 DEF PointInv, Stepping, SteppingBack, SaveFork
  <2>3. Height[b] >= localHeight
    BY <1>2, <2>1, <2>2
  <2>4. CASE b = localHash
    <3>1. cur = localHeight - 1 /\ Left(localHash)
      BY <1>2, <2>1, <2>2, <2>4, <1>1 DEF PointInv, Saved
    <3> QED
      BY <2>4, <3>1
  <2> QED
    BY <2>3, <2>4 DEF PointInv, Saved
<1>5. Saved'
  BY <1>1, <1>4 DEF PointInv, Saved, Left, SaveFork
<1>6. Following' /\ Stepping'
  BY <1>1, <1>2 DEF PointInv, Following, Stepping, SteppingBack, Left, SaveFork
<1> QED
  BY <1>3, <1>5, <1>6 DEF PointInv

\* Observers are told of the fork: the block told of has been left.
LEMMA NotifyForkPoint ==
  ASSUME Inv, PointInv, NotifyFork
  PROVE  PointInv'
<1> USE DEF store, user
<1>1. AllKnown' /\ Saved' /\ Stepping'
  BY DEF PointInv, AllKnown, Saved, Stepping, SteppingBack, Known, Left, NotifyFork
<1>2. Following'
  BY DEF Inv, TypeOK, Heights, PointInv, Following, NotifyFork
<1> QED
  BY <1>1, <1>2 DEF PointInv

\* The block to save is the next one of the scan point.
LEMMA SaveNewIsNext ==
  ASSUME Inv, PointInv, pc = "saveNew", localHash # NoBlock
  PROVE  Parent[fetched] = localHash /\ cur = localHeight + 1
<1>1. Parent[fetched] = localHash /\ fetched \in Block /\ Height[fetched] = cur
  BY DEF PointInv, Following
<1>2. cur # 0
  BY DEF Inv, TypeOK, Heights, PointInv, Following
<1> QED
  BY <1>1, <1>2, BlockAssumption DEF PointInv, Saved

\* The next block becomes the scan point.
LEMMA SaveNewPoint ==
  ASSUME Inv, PointInv, SaveNew
  PROVE  PointInv'
<1> USE DEF user, history, SaveLocalNewBlock
<1>1. /\ localHash' = fetched /\ localHeight' = cur /\ fetched # NoBlock /\ Height[fetched] = cur
      /\ cur > localHeight /\ curHash = fetched
  BY BlockAssumption DEF PointInv, Following, SaveNew
<1>2. localHeight \in Nat /\ cur \in Nat /\ \A b \in localBlocks : Height[b] \in Nat
  BY BlockAssumption DEF Inv, TypeOK, Heights
<1>3. AllKnown'
  BY <1>1 DEF PointInv, AllKnown, Known, Left, SaveNew
<1>4. ASSUME NEW b \in localBlocks, Height[b] >= cur
      PROVE  Left(b)
  <2>1. Height[b] > localHeight /\ localHash # NoBlock
    BY <1>1, <1>2, <1>4 DEF PointInv, Saved
  <2> QED
    BY <1>2, <2>1 DEF PointInv, Saved
<1>5. Saved'
  BY <1>1, <1>2, <1>4 DEF PointInv, Saved, Left, SaveNew
<1>6. Following' /\ Stepping'
  BY <1>1 DEF PointInv, Following, Stepping, SteppingBack, Left, SaveNew
<1> QED
  BY <1>3, <1>5, <1>6 DEF PointInv

\* The block is saved.
LEMMA SaveBlockPoint ==
  ASSUME Inv, PointInv, SaveBlock
  PROVE  PointInv'
<1> USE DEF user, history, SaveLocalBlock
<1>1. fetched = localHash /\ fetched \in Block
  BY DEF PointInv, Following, SaveBlock
<1>2. localBlocks' = {b \in localBlocks : Height[b] # Height[fetched]} \cup {fetched}
  BY <1>1, BlockAssumption DEF SaveBlock, Real
<1>3. AllKnown'
  BY <1>1, <1>2 DEF PointInv, AllKnown, Known, Left, SaveBlock
<1>4. Saved'
  BY <1>1, <1>2, BlockAssumption DEF PointInv, Saved, Left, SaveBlock
<1>5. Following' /\ Stepping'
  BY DEF PointInv, Following, Stepping, SteppingBack, Left, SaveBlock
<1> QED
  BY <1>3, <1>4, <1>5 DEF PointInv

\* Observers are told of the block.
LEMMA NotifyNewPoint ==
  ASSUME Inv, PointInv, NotifyNew
  PROVE  PointInv'
<1> USE DEF store, user
<1>1. AllKnown' /\ Saved' /\ Stepping'
  BY DEF PointInv, AllKnown, Saved, Stepping, SteppingBack, Known, Left, NotifyNew
<1>2. Following'
  BY DEF Inv, TypeOK, Heights, PointInv, Following, NotifyNew
<1> QED
  BY <1>1, <1>2 DEF PointInv

-----------------------------------------------------------------------------
(* PointInv: every step. *)

\* Reading old heights again leaves the scan point alone.
LEMMA RescanPoint ==
  ASSUME Inv, PointInv, TaskRescans
  PROVE  PointInv'
<1> USE DEF store, user, history
<1>1. CASE LastHash
  BY <1>1, QuietPoint DEF LastHash, HashIs, BlockAt, Answer, Quiet
<1>2. CASE LastBlock
  BY <1>2, QuietPoint DEF LastBlock, Quiet
<1>3. CASE FailedHash
  BY <1>3, QuietPoint DEF FailedHash, HashIs, BlockAt, Answer, Return, Quiet
<1>4. CASE FailedBlock
  BY <1>4, QuietPoint DEF FailedBlock, Quiet
<1>5. CASE FailedDelete
  BY <1>5, QuietPoint DEF FailedDelete, Quiet
<1> QED
  BY <1>1, <1>2, <1>3, <1>4, <1>5 DEF TaskRescans

\* The application, which does not move the scan point here, leaves it alone.
LEMMA UserPoint ==
  ASSUME OnlyTaskSaves, PointInv, UserStep
  PROVE  PointInv'
<1> USE DEF store, history
<1>1. CASE ResetHash
  BY <1>1, AsidePoint DEF ResetHash, OnlyTaskSaves
<1>2. CASE ResetSave
  BY <1>2 DEF ResetSave, PointInv, Saved
<1>3. CASE UserScanHash
  BY <1>3, AsidePoint DEF UserScanHash, UserGoesOn, PointInv, Saved
<1>4. CASE UserScanBlock
  BY <1>4, AsidePoint DEF UserScanBlock, UserReturn
<1>5. CASE UserScanNotify
  BY <1>5, AsidePoint DEF UserScanNotify, UserReturn
<1>6. CASE Pause \/ Run
  BY <1>6, AsidePoint DEF Pause, Run, user, PointInv, Saved
<1> QED
  BY <1>1, <1>2, <1>3, <1>4, <1>5, <1>6 DEF UserStep

\* A restart reads the scan point from the store.
LEMMA CrashPoint ==
  ASSUME OnlyTaskSaves, Inv, PointInv, CrashStep
  PROVE  PointInv'
<1>1. ~CrashInSave
  BY DEF CrashInSave, Fault, OnlyTaskSaves
<1> QED
  BY <1>1, QuietPoint DEF CrashStep, Restart, Crash, Reboot, Return, UserReturn, Quiet,
                          history

\* The loop that went by an empty block stays known as such.
LEMMA MisledStays == [Next]_vars /\ misled => misled'
  BY DEF Next, NodeStep, TaskStep, TaskStart, StartHash, TaskLoop, LoopHead, NextHash,
         NextBlock, ForkDelete, ForkLocal, ForkHash, SaveFork, NotifyFork, SaveNew, SaveBlock,
         NotifyNew, TaskRescans, LastHash, LastBlock, FailedHash, FailedBlock, FailedDelete,
         UserStep, ResetHash, ResetSave, UserScanHash, UserScanBlock, UserScanNotify, Pause,
         Run, CrashStep, Restart, Crash, CrashInSave, Reboot, vars, history

\* Every step keeps the invariant, as long as the loop goes by no empty block.
LEMMA PointNext ==
  ASSUME NoReturn, OnlyTaskSaves, Inv, PointInv, [Next]_vars, ~misled'
  PROVE  PointInv'
<1>1. CASE TaskLoop
  BY <1>1, LoopHeadPoint, NextHashPoint, NextBlockPoint, ForkDeletePoint, ForkLocalPoint,
     ForkHashPoint, SaveForkPoint, NotifyForkPoint, SaveNewPoint, SaveBlockPoint,
     NotifyNewPoint
  DEF TaskLoop
<1>2. CASE TaskStep
  BY <1>1, <1>2, TaskStartPoint, StartHashPoint, RescanPoint DEF TaskStep
<1>3. CASE UNCHANGED vars
  BY <1>3, AsidePoint DEF vars, store, user, history, PointInv, Saved
<1> QED
  BY <1>2, <1>3, NodeStepPoint, UserPoint, CrashPoint DEF Next

\* The invariant holds in the states the program starts in.
LEMMA PointInit == Init => PointInv
<1> SUFFICES ASSUME Init PROVE PointInv
  OBVIOUS
<1>1. Inv /\ Left(NoBlock)
  BY InitInv, NoBlockIsLeft DEF Inv, TypeOK
<1> QED
  BY <1>1 DEF Init, PointInv, AllKnown, Saved, Following, Stepping, SteppingBack, Known

\* The invariant holds in every behaviour, until the loop goes by an empty block.
LEMMA PointHolds ==
  ASSUME NoReturn, OnlyTaskSaves
  PROVE  Spec => [](~misled => PointInv)
<1>1. Inv /\ (~misled => PointInv) /\ [Next]_vars => (~misled => PointInv)'
  BY PointNext, MisledStays
<1> QED
  BY <1>1, PointInit, SpecInv, PTL DEF Spec

-----------------------------------------------------------------------------
(* The theorems on the scan point and on forks. *)

\* A step to a block of the branch goes up by one height at most.
LEMMA StepSkipsNoBlock ==
  ASSUME OnlyTaskSaves, Inv, PointInv, [Next]_vars, localHash # NoBlock, localHash' \in main
  PROVE  localHeight' <= localHeight + 1
<1>1. localHeight \in Nat
  BY DEF Inv, TypeOK, Heights
<1>2. CASE SaveNew
  BY <1>1, <1>2, SaveNewIsNext DEF SaveNew, SaveLocalNewBlock
<1>3. CASE SaveFork
  <2>1. curHash \in localBlocks /\ Height[curHash] = cur /\ ~Left(curHash)
        /\ localHeight' = cur /\ cur \in Nat
    BY <1>3 DEF Inv, TypeOK, Heights, PointInv, Stepping, SaveFork, SaveLocalNewBlock, Left,
                LeftOn
  <2>2. ~(cur > localHeight)
    BY <1>1, <2>1 DEF PointInv, Saved
  <2> QED
    BY <1>1, <2>1, <2>2
<1>4. CASE UNCHANGED localHeight
  BY <1>1, <1>4
<1>5. SaveNew \/ SaveFork \/ UNCHANGED localHeight
  <2>1. ~ResetSave /\ ~CrashInSave
    BY DEF PointInv, Saved, ResetSave, CrashInSave, Fault, OnlyTaskSaves
  <2> QED
    BY <2>1
    DEF Next, NodeStep, TaskStep, TaskStart, StartHash, TaskLoop, LoopHead, NextHash,
        NextBlock, ForkDelete, ForkLocal, ForkHash, NotifyFork, SaveBlock, NotifyNew,
        TaskRescans, LastHash, LastBlock, FailedHash, FailedBlock, FailedDelete, UserStep,
        ResetHash, UserScanHash, UserScanBlock, UserScanNotify, Pause, Run, CrashStep,
        Restart, Crash, vars, store
<1> QED
  BY <1>2, <1>3, <1>4, <1>5

\* The scan point goes to a block of the node's branch by at most one height up,
\* through any failures, forks and crashes, as long as the loop goes by no empty block:
\* lines 101-108, 175-200 and 215-219 of blockscanner.go.
THEOREM SkipsNoBlock ==
  ASSUME NoReturn, OnlyTaskSaves
  PROVE  Spec => ScanPointSkipsNoBlock
<1>1. Inv /\ (~misled => PointInv) /\ [Next]_vars
        => [~misled' /\ localHash # NoBlock /\ localHash' \in main
              => localHeight' <= localHeight + 1]_vars
  BY StepSkipsNoBlock, MisledStays
<1> QED
  BY <1>1, SpecInv, PointHolds, PTL DEF Spec, ScanPointSkipsNoBlock

\* Observers are told of a fork only for a block the node has left, also after a
\* crash, as long as the loop goes by no empty block: lines 157-173 and 202-206 of
\* blockscanner.go.
THEOREM NoticeIsOrphan ==
  ASSUME NoReturn, OnlyTaskSaves
  PROVE  Spec => []ForkNoticeIsOrphan
<1>1. (~misled => PointInv) => ForkNoticeIsOrphan
  BY DEF PointInv, Stepping, ForkNoticeIsOrphan, ForkNoticeMeansFork, Left, LeftOn
<1> QED
  BY <1>1, PointHolds, PTL
===============================================================================
