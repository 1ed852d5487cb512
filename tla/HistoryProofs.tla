----------------------------- MODULE HistoryProofs -----------------------------
(***************************************************************************)
(* Two facts about the history of BlockScanner, for every block tree the   *)
(* node walks without coming back to a branch it has left.  No block of    *)
(* the node's branch that the scan point has passed is forgotten.  And,    *)
(* when the process does not crash and the application scans no block on   *)
(* its own, the blocks announced and not called back are on one branch.    *)
(* Both are shown until the loop goes by an empty block.                   *)
(***************************************************************************)
EXTENDS BlockScannerProofs, FoldProofs

(* Passed blocks. *)

\* All blocks of the node's branch that the loop has extracted are covered, from a
\* starting point on this branch up to block m.
CoveredUpTo(m) ==
    \E s \in starts \cap main :
        /\ Height[s] < Height[m]
        /\ \A b \in followed \cap main :
            Height[s] < Height[b] /\ Height[b] <= Height[m] => IsCovered(b)

\* It is so for every block the scan point is at or may step back to.  A record is
\* deleted for the data of the one block of its height that the node has not left.
CoverInv ==
    /\ \A m \in (localBlocks \cup {localHash}) \cap main : CoveredUpTo(m)
    /\ pc = "saveNew" => IsCovered(fetched)
    /\ pc \in {"failedBlock", "failedDelete"} /\ fetched # NoBlock =>
        \A b \in followed : Height[b] = Height[fetched] /\ b # fetched => Left(b)
    /\ pc = "failedDelete" => fetched # NoBlock /\ fetched \in delivered

-----------------------------------------------------------------------------
(* Ancestors. *)

\* Two branches that share a block share all that one of them has below it.
LEMMA CommonPast ==
  ASSUME NEW s \in Branches, NEW t \in Branches, NEW m \in s \cap t,
         NEW x \in s, Height[x] <= Height[m]
  PROVE  x \in t
<1> SUFFICES ASSUME x \notin t PROVE FALSE
  OBVIOUS
<1> DEFINE Above == {n \in Nat : \E y \in s \cap t : Height[y] = n /\ Height[x] <= n}
<1>1. s \subseteq Block /\ t \subseteq Block /\ IsBranch(s) /\ IsBranch(t)
  BY BranchAssumption
<1>2. Height[m] \in Above
  BY <1>1, BlockAssumption
<1>3. PICK n \in Above : \A k \in Above : n <= k
  <2> HIDE DEF Above
  <2>1. Above \in SUBSET Nat
    BY DEF Above
  <2> QED
    BY <1>2, <2>1, SmallestNumber
<1>4. PICK y \in s \cap t : Height[y] = n /\ Height[x] <= n
  OBVIOUS
<1>5. Height[y] # Height[x]
  BY <1>1, <1>4 DEF IsBranch
<1>6. /\ n \in Nat /\ Height[x] \in Nat /\ y \in Block /\ y # Genesis
      /\ Height[y] = Height[Parent[y]] + 1 /\ Parent[y] \in s \cap t
      /\ Height[Parent[y]] \in Nat
  BY <1>1, <1>4, <1>5, BlockAssumption DEF IsBranch
<1>7. Height[Parent[y]] \in Above /\ Height[Parent[y]] < n
  BY <1>4, <1>5, <1>6
<1> QED
  BY <1>3, <1>6, <1>7

-----------------------------------------------------------------------------
(* CoverInv: every step. *)

\* The data of the block is delivered or a record is kept, and no error means that it
\* is delivered.
LEMMA ExtractionCovers ==
  ASSUME "notify" \notin Faults, NEW b, b # NoBlock, Height[b] # 0, NEW err,
         BatchExtract(b, err)
  PROVE  /\ unscan \subseteq unscan' /\ delivered \subseteq delivered'
         /\ b \in delivered' \/ Height[b] \in unscan'
         /\ err = FALSE => b \in delivered'
  BY DEF BatchExtract, Fault, SaveUnscanRecord, Real

\* Extracting a block forgets neither a record nor a delivery.
LEMMA ExtractionGrows ==
  ASSUME NEW b, NEW err, BatchExtract(b, err)
  PROVE  unscan \subseteq unscan' /\ delivered \subseteq delivered'
  BY DEF BatchExtract, SaveUnscanRecord

\* A step that deletes no record and saves no block.
LEMMA GrowingCover ==
  ASSUME CoverInv, UNCHANGED <<main, localHash, localBlocks, followed>>,
         starts \subseteq starts', unscan \subseteq unscan', delivered \subseteq delivered',
         \/ pc' \notin {"saveNew", "failedBlock", "failedDelete"}
         \/ pc' = pc /\ fetched' = fetched
  PROVE  CoverInv'
<1>1. ASSUME NEW m \in (localBlocks \cup {localHash}) \cap main
      PROVE  CoveredUpTo(m)'
  <2>1. PICK s \in starts \cap main :
          /\ Height[s] < Height[m]
          /\ \A b \in followed \cap main :
              Height[s] < Height[b] /\ Height[b] <= Height[m] => IsCovered(b)
    BY DEF CoverInv, CoveredUpTo
  <2> QED
    BY <2>1 DEF CoveredUpTo, IsCovered
<1> QED
  BY <1>1 DEF CoverInv, IsCovered, Left

\* The node leaves its branch: the blocks it comes to were not passed.
LEMMA NodeStepCover ==
  ASSUME NoReturn, Inv, PointInv, CoverInv, NodeStep
  PROVE  CoverInv'
<1> USE DEF NodeStep, store, task, user, history
<1>1. main \in Branches /\ main' \in Branches /\ TipHeightOf(main') > TipHeightOf(main)
  BY DEF Inv, TypeOK, NodeTypeOK, NodeAdvances, TipHeight
<1>2. \A b : LeftOn(main, b) => LeftOn(main', b)
  BY <1>1, LeftStays
<1>3. \A b : Known(b) /\ b \in main' => b \in main
  BY <1>2 DEF Known, Left, LeftOn
<1>4. ASSUME NEW m \in (localBlocks \cup {localHash}) \cap main'
      PROVE  CoveredUpTo(m)'
  <2>1. m \in main
    BY <1>3 DEF PointInv, AllKnown
  <2>2. PICK s \in starts \cap main :
          /\ Height[s] < Height[m]
          /\ \A b \in followed \cap main :
              Height[s] < Height[b] /\ Height[b] <= Height[m] => IsCovered(b)
    BY <2>1 DEF CoverInv, CoveredUpTo
  <2>3. s \in main'
    <3>1. m \in Block /\ s \in Block
      BY <1>1, <2>1, BranchAssumption
    <3>2. Height[s] <= Height[m]
      BY <2>2, <3>1, BlockAssumption
    <3> QED
      BY <1>1, <2>1, <3>2, CommonPast
  <2>4. \A b \in followed \cap main' : b \in main
    BY <1>3 DEF PointInv, AllKnown
  <2> QED
    BY <2>2, <2>3, <2>4 DEF CoveredUpTo, IsCovered
<1> QED
  BY <1>2, <1>4 DEF CoverInv, IsCovered, Left

\* The next block: it is extracted, or recorded as unscanned, before it is passed.
LEMMA NextBlockCover ==
  ASSUME "notify" \notin Faults, Inv, PointInv, CoverInv, NextBlock, ~misled'
  PROVE  CoverInv'
<1>1. CASE pc' # "saveNew" /\ UNCHANGED <<followed, delivered>> /\ unscan \subseteq unscan'
  BY <1>1, GrowingCover DEF NextBlock
<1>2. ASSUME NEW err \in BOOLEAN, BatchExtract(fetched, err), fetched # NoBlock,
             fetched' = fetched, followed' = followed \cup Real(fetched), pc' = "saveNew"
      PROVE  CoverInv'
  <2>1. fetched \in Block /\ Height[fetched] = cur /\ cur > localHeight
    BY <1>2 DEF PointInv, Following, NextBlock
  <2>2. Height[fetched] # 0 /\ followed' = followed \cup {fetched}
    BY <1>2, <2>1 DEF Inv, TypeOK, Heights, Real
  <2>3. unscan \subseteq unscan' /\ delivered \subseteq delivered'
        /\ (fetched \in delivered' \/ Height[fetched] \in unscan')
    BY <1>2, <2>2, ExtractionCovers
  <2>4. ASSUME NEW m \in (localBlocks \cup {localHash}) \cap main
        PROVE  CoveredUpTo(m)'
    <3>1. PICK s \in starts \cap main :
            /\ Height[s] < Height[m]
            /\ \A b \in followed \cap main :
                Height[s] < Height[b] /\ Height[b] <= Height[m] => IsCovered(b)
      BY DEF CoverInv, CoveredUpTo
    <3>2. UNCHANGED <<starts, main>>
      BY DEF NextBlock
    <3> QED
      BY <2>2, <2>3, <3>1, <3>2 DEF CoveredUpTo, IsCovered
  <2> QED
    BY <1>2, <2>2, <2>3, <2>4 DEF CoverInv, IsCovered, NextBlock
<1>3. ASSUME NEW block, BlockIs(fetched, block), misled' = (misled \/ block = NoBlock)
      PROVE  block = fetched /\ fetched # NoBlock
  BY <1>3 DEF BlockIs
<1> QED
  BY <1>1, <1>2, <1>3 DEF NextBlock, SaveUnscanRecord

\* A fork deletes records only of the block the node has left.
LEMMA ForkDeleteCover ==
  ASSUME Inv, PointInv, CoverInv, ForkDelete
  PROVE  CoverInv'
<1> USE DEF user, history
<1>1. ASSUME NEW m \in (localBlocks \cup {localHash}) \cap main
      PROVE  CoveredUpTo(m)'
  <2>1. PICK s \in starts \cap main :
          /\ Height[s] < Height[m]
          /\ \A b \in followed \cap main :
              Height[s] < Height[b] /\ Height[b] <= Height[m] => IsCovered(b)
    BY DEF CoverInv, CoveredUpTo
  <2>2. /\ localHash # NoBlock /\ localHeight \in Nat /\ Height[m] \in Nat
        /\ Height[m] <= localHeight /\ (Height[m] = localHeight => m = localHash)
    BY SavedIsBehind DEF Left, LeftOn
  <2>3. cur \in Nat /\ cur > localHeight /\ curHash = localHash /\ curHash # Parent[fetched]
    BY <2>2 DEF Inv, TypeOK, Heights, PointInv, Following, Stepping, ForkDelete
  <2>4. Height[m] < cur - 1
    <3> SUFFICES ASSUME Height[m] = cur - 1 PROVE FALSE
      BY <2>2, <2>3
    <3>1. m = localHash /\ cur = localHeight + 1
      BY <2>2, <2>3
    <3>2. Left(localHash)
      BY <2>2, <2>3, <3>1 DEF PointInv, Following, ForkDelete
    <3> QED
      BY <3>1, <3>2 DEF Left, LeftOn
  <2>5. \A b \in followed \cap main : Height[b] \in Nat
    BY BlockAssumption DEF Inv, TypeOK
  <2>6. unscan' = unscan \ {cur - 1} /\ UNCHANGED <<delivered, starts, followed, main>>
    BY DEF ForkDelete, DeleteUnscanRecord
  <2>7. ASSUME NEW b \in followed \cap main, Height[s] < Height[b], Height[b] <= Height[m]
        PROVE  IsCovered(b)'
    <3>1. IsCovered(b) /\ Height[b] # cur - 1
      BY <2>1, <2>2, <2>3, <2>4, <2>5, <2>7
    <3> QED
      BY <2>6, <3>1 DEF IsCovered
  <2> QED
    BY <2>1, <2>6, <2>7 DEF CoveredUpTo
<1> QED
  BY <1>1 DEF CoverInv, ForkDelete

\* The step back is saved: no block is passed by it.
LEMMA SaveForkCover ==
  ASSUME PointInv, CoverInv, SaveFork
  PROVE  CoverInv'
<1> USE DEF user, history, SaveLocalNewBlock
<1>1. localHash' \in localBlocks /\ UNCHANGED <<main, starts, followed, unscan, delivered>>
  BY DEF PointInv, Stepping, SaveFork
<1>2. ASSUME NEW m \in (localBlocks \cup {localHash'}) \cap main
      PROVE  CoveredUpTo(m)'
  BY <1>1 DEF CoverInv, CoveredUpTo, IsCovered
<1> QED
  BY <1>1, <1>2 DEF CoverInv, SaveFork

\* The next block becomes the scan point: it has been extracted or recorded.
LEMMA SaveNewCover ==
  ASSUME Inv, PointInv, CoverInv, SaveNew
  PROVE  CoverInv'
<1> USE DEF user, history, SaveLocalNewBlock
<1>1. /\ localHash' = fetched /\ fetched \in Block /\ Height[fetched] = cur /\ cur > localHeight
      /\ IsCovered(fetched)
      /\ UNCHANGED <<main, localBlocks, starts, followed, unscan, delivered>>
  BY DEF PointInv, Following, CoverInv, SaveNew
<1>2. /\ localHeight \in Nat /\ cur \in Nat /\ NodeTypeOK
      /\ \A b \in Block : Height[b] \in Nat
      /\ Height[fetched] = Height[Parent[fetched]] + 1
  BY <1>1, BlockAssumption DEF Inv, TypeOK, Heights
<1>3. ASSUME fetched \in main
      PROVE  CoveredUpTo(fetched)
  <2>1. Parent[fetched] \in main /\ Parent[fetched] \in Block
    BY <1>2, <1>3, ParentIsOnBranch, BlockAssumption
  <2>2. \A b \in followed \cap main : b \in Block /\ (Height[b] = Height[fetched] => b = fetched)
    BY <1>2, <1>3, BranchAssumption DEF Inv, TypeOK, NodeTypeOK, IsBranch
  <2>3. CASE Parent[fetched] = localHash
    <3>1. PICK s \in starts \cap main :
            /\ Height[s] < Height[localHash]
            /\ \A b \in followed \cap main :
                Height[s] < Height[b] /\ Height[b] <= Height[localHash] => IsCovered(b)
      BY <2>1, <2>3 DEF CoverInv, CoveredUpTo
    <3>2. s \in Block
      BY DEF Inv, TypeOK
    <3>3. Height[s] < Height[fetched]
      BY <1>2, <2>1, <2>3, <3>1, <3>2
    <3>4. ASSUME NEW b \in followed \cap main, Height[s] < Height[b],
                 Height[b] <= Height[fetched]
          PROVE  IsCovered(b)
      <4>1. CASE Height[b] = Height[fetched]
        BY <1>1, <2>2, <4>1
      <4>2. CASE Height[b] # Height[fetched]
        <5>1. Height[b] \in Nat /\ Height[localHash] \in Nat
          BY <1>2, <2>1, <2>2, <2>3
        <5> QED
          BY <1>1, <1>2, <2>3, <3>1, <3>4, <4>2, <5>1
      <4> QED
        BY <4>1, <4>2
    <3> QED
      BY <3>3, <3>4 DEF CoveredUpTo
  <2>4. CASE Parent[fetched] \in starts
    <3>1. ASSUME NEW b \in followed \cap main, Height[Parent[fetched]] < Height[b],
                 Height[b] <= Height[fetched]
          PROVE  IsCovered(b)
      <4>1. Height[b] \in Nat /\ Height[Parent[fetched]] \in Nat
        BY <1>2, <2>1, <2>2
      <4>2. Height[b] = Height[fetched]
        BY <1>2, <3>1, <4>1
      <4> QED
        BY <1>1, <2>2, <4>2
    <3>2. Height[Parent[fetched]] < Height[fetched]
      BY <1>2, <2>1
    <3> QED
      BY <2>1, <2>4, <3>1, <3>2 DEF CoveredUpTo
  <2> QED
    BY <2>3, <2>4 DEF PointInv, Following, SaveNew
<1>4. ASSUME NEW m \in (localBlocks \cup {fetched}) \cap main
      PROVE  CoveredUpTo(m)'
  <2>1. CoveredUpTo(m)
    BY <1>3 DEF CoverInv
  <2> QED
    BY <1>1, <2>1 DEF CoveredUpTo, IsCovered
<1> QED
  BY <1>1, <1>4 DEF CoverInv, SaveNew

\* The block is saved.
LEMMA SaveBlockCover ==
  ASSUME PointInv, CoverInv, SaveBlock
  PROVE  CoverInv'
<1> USE DEF user, history, SaveLocalBlock
<1>1. /\ localBlocks' \subseteq localBlocks \cup {localHash}
      /\ UNCHANGED <<main, localHash, starts, followed, unscan, delivered>>
  BY DEF PointInv, Following, SaveBlock, Real
<1>2. ASSUME NEW m \in (localBlocks' \cup {localHash}) \cap main
      PROVE  CoveredUpTo(m)'
  BY <1>1 DEF CoverInv, CoveredUpTo, IsCovered
<1> QED
  BY <1>1, <1>2 DEF CoverInv, SaveBlock

\* The hash of a failed height: the records of the height are still there.
LEMMA FailedHashCover ==
  ASSUME Inv, PointInv, CoverInv, FailedHash
  PROVE  CoverInv'
<1> USE DEF store, user, history
<1>1. CASE pc' # "failedBlock"
  BY <1>1, GrowingCover DEF FailedHash, Return
<1>2. CASE pc' = "failedBlock"
  <2>1. (fetched' # NoBlock => fetched' \in main) /\ NodeTypeOK
    BY <1>2 DEF FailedHash, HashIs, BlockAt, Return, Inv, TypeOK
  <2>2. ASSUME fetched' # NoBlock, NEW b \in followed, Height[b] = Height[fetched'],
               b # fetched'
        PROVE  LeftOn(main, b)
    BY <2>1, <2>2, OtherIsLeft DEF PointInv, AllKnown, Left
  <2>3. UNCHANGED <<main, localHash, localBlocks, starts, followed, unscan, delivered>>
    BY DEF FailedHash
  <2>4. ASSUME NEW m \in (localBlocks \cup {localHash}) \cap main
        PROVE  CoveredUpTo(m)'
    BY <2>3 DEF CoverInv, CoveredUpTo, IsCovered
  <2> QED
    BY <1>2, <2>2, <2>3, <2>4 DEF CoverInv, Left
<1> QED
  BY <1>1, <1>2

\* The block of a failed height is extracted before its records go.
LEMMA FailedBlockCover ==
  ASSUME "notify" \notin Faults, Inv, PointInv, CoverInv, FailedBlock
  PROVE  CoverInv'
<1> USE DEF user
<1>1. CASE pc' = "failed" /\ unscan \subseteq unscan' /\ delivered \subseteq delivered'
  BY <1>1, GrowingCover DEF FailedBlock
<1>2. ASSUME NEW block, NEW err \in BOOLEAN, BatchExtract(block, err)
      PROVE  unscan \subseteq unscan' /\ delivered \subseteq delivered'
  BY <1>2, ExtractionGrows
<1>3. ASSUME NEW block, BlockIs(fetched, block), BatchExtract(block, FALSE),
             pc' = "failedDelete"
      PROVE  CoverInv'
  <2>1. block = fetched /\ fetched # NoBlock /\ fetched \in delivered'
    BY <1>3 DEF BlockIs, BatchExtract, Fault, Real
  <2>2. UNCHANGED <<main, localHash, localBlocks, starts, followed, fetched>>
    BY DEF FailedBlock
  <2>3. unscan \subseteq unscan' /\ delivered \subseteq delivered'
    BY <1>2, <1>3
  <2>4. ASSUME NEW m \in (localBlocks \cup {localHash}) \cap main
        PROVE  CoveredUpTo(m)'
    <3>1. PICK s \in starts \cap main :
            /\ Height[s] < Height[m]
            /\ \A b \in followed \cap main :
                Height[s] < Height[b] /\ Height[b] <= Height[m] => IsCovered(b)
      BY DEF CoverInv, CoveredUpTo
    <3> QED
      BY <2>2, <2>3, <3>1 DEF CoveredUpTo, IsCovered
  <2> QED
    BY <1>3, <2>1, <2>2, <2>4 DEF CoverInv, FailedBlock, Left
<1> QED
  BY <1>1, <1>2, <1>3 DEF FailedBlock

\* The records of a failed height are deleted: its block has been delivered, or
\* recorded anew.
LEMMA FailedDeleteCover ==
  ASSUME CoverInv, FailedDelete
  PROVE  CoverInv'
<1> USE DEF user, history
<1>1. UNCHANGED <<main, localHash, localBlocks, starts, followed, delivered>>
      /\ unscan' = unscan \ {Height[fetched]}
  BY DEF FailedDelete, DeleteUnscanRecord
<1>2. ASSUME NEW b \in followed \cap main, IsCovered(b)
      PROVE  IsCovered(b)'
  BY <1>1, <1>2 DEF CoverInv, FailedDelete, IsCovered, Left, LeftOn
<1>3. ASSUME NEW m \in (localBlocks \cup {localHash}) \cap main
      PROVE  CoveredUpTo(m)'
  BY <1>1, <1>2 DEF CoverInv, CoveredUpTo
<1> QED
  BY <1>1, <1>3 DEF CoverInv, FailedDelete

\* The steps that delete no record, extract no new block and save none.
LEMMA OtherTaskCover ==
  ASSUME CoverInv,
         \/ TaskStart \/ StartHash \/ LoopHead \/ NextHash \/ ForkLocal \/ ForkHash
         \/ NotifyFork \/ NotifyNew \/ LastHash \/ LastBlock
  PROVE  CoverInv'
<1> USE DEF store, user, history
<1>1. CASE TaskStart \/ StartHash
  BY <1>1, GrowingCover DEF TaskStart, StartHash, Return
<1>2. CASE LoopHead \/ NextHash
  BY <1>2, GrowingCover DEF LoopHead, NextHash, Break, Return
<1>3. CASE ForkLocal \/ ForkHash \/ NotifyFork \/ NotifyNew
  BY <1>3, GrowingCover DEF ForkLocal, ForkHash, NotifyFork, NotifyNew, Break
<1>4. CASE LastHash
  <2>1. pc' \in {"last", "lastBlock", "failed"}
    BY <1>4 DEF LastHash
  <2> QED
    BY <1>4, <2>1, GrowingCover DEF LastHash
<1>5. CASE LastBlock
  <2>1. unscan \subseteq unscan' /\ delivered \subseteq delivered'
    BY <1>5, ExtractionGrows DEF LastBlock, ScanFails, ScanGives, SaveUnscanRecord
  <2> QED
    BY <1>5, <2>1, GrowingCover DEF LastBlock
<1> QED
  BY <1>1, <1>2, <1>3, <1>4, <1>5

\* The calls of the application delete no record.
LEMMA UserCover ==
  ASSUME OnlyTaskSaves, PointInv, CoverInv, UserStep
  PROVE  CoverInv'
<1> USE DEF store, history, task
<1>1. CASE ResetHash \/ UserScanHash \/ UserScanNotify \/ Pause \/ Run
  BY <1>1, GrowingCover DEF ResetHash, UserScanHash, UserScanNotify, Pause, Run
<1>2. CASE UserScanBlock
  <2>1. unscan \subseteq unscan' /\ delivered \subseteq delivered'
    BY <1>2, ExtractionGrows DEF UserScanBlock, ScanFails, ScanGives, SaveUnscanRecord
  <2> QED
    BY <1>2, <2>1, GrowingCover DEF UserScanBlock
<1>3. ~ResetSave
  BY DEF ResetSave, PointInv, Saved
<1> QED
  BY <1>1, <1>2, <1>3 DEF UserStep

\* A restart keeps records and deliveries.
LEMMA CrashCover ==
  ASSUME OnlyTaskSaves, CoverInv, CrashStep
  PROVE  CoverInv'
<1>1. ~CrashInSave
  BY DEF CrashInSave, Fault, OnlyTaskSaves
<1> QED
  BY <1>1, GrowingCover DEF CrashStep, Restart, Crash, Reboot, Return, history

\* Every step keeps the invariant.
LEMMA CoverNext ==
  ASSUME NoReturn, OnlyTaskSaves, "notify" \notin Faults, Inv, PointInv, CoverInv,
         [Next]_vars, ~misled'
  PROVE  CoverInv'
<1>1. CASE TaskStep
  BY <1>1, OtherTaskCover, NextBlockCover, ForkDeleteCover, SaveForkCover, SaveNewCover,
     SaveBlockCover, FailedHashCover, FailedBlockCover, FailedDeleteCover
  DEF TaskStep, TaskLoop, TaskRescans
<1>2. CASE UNCHANGED vars
  BY <1>2, GrowingCover DEF vars, store, task, history
<1> QED
  BY <1>1, <1>2, NodeStepCover, UserCover, CrashCover DEF Next

\* The invariant holds in every behaviour.
LEMMA CoverHolds ==
  ASSUME NoReturn, OnlyTaskSaves, "notify" \notin Faults
  PROVE  Spec => [](~misled => CoverInv)
<1>1. Init => CoverInv
  BY BlockAssumption, BranchAssumption DEF Init, CoverInv
<1>2. Inv /\ (~misled => PointInv) /\ (~misled => CoverInv) /\ [Next]_vars
        => (~misled => CoverInv)'
  BY CoverNext, MisledStays
<1> QED
  BY <1>1, <1>2, SpecInv, PointHolds, PTL DEF Spec

-----------------------------------------------------------------------------
(* The theorem on the blocks the scan point has passed. *)

\* When no observer fails, only the task moves the scan point and the loop goes by no
\* empty block, a block the scan point has passed on the node's branch is with the
\* observers or has a record that will have it scanned again: lines 143-152, 290-347
\* and 405-411 of blockscanner.go.
THEOREM PassedIsCovered ==
  ASSUME NoReturn, OnlyTaskSaves, "notify" \notin Faults
  PROVE  Spec => []PassedBlockIsCovered
<1>1. ASSUME Inv, CoverInv, NEW b \in PassedBlocks
      PROVE  IsCovered(b)
  <2>1. PICK s \in starts \cap main :
          /\ Height[s] < Height[localHash]
          /\ \A x \in followed \cap main :
              Height[s] < Height[x] /\ Height[x] <= Height[localHash] => IsCovered(x)
    BY <1>1 DEF CoverInv, CoveredUpTo, PassedBlocks
  <2> QED
    BY <1>1, <2>1 DEF PassedBlocks
<1>2. Inv /\ (~misled => CoverInv) => PassedBlockIsCovered
  BY <1>1 DEF PassedBlockIsCovered
<1> QED
  BY <1>2, SpecInv, CoverHolds, PTL

-----------------------------------------------------------------------------
(* Announced blocks. *)

\* Nobody but the task tells the observers of a block, and nothing stops it between
\* two steps but a panic.
OnlyTaskAnnounces == OnlyTaskSaves /\ "crash" \notin Faults /\ ScanHeights = {}

\* A branch that has block m has the announced blocks up to its height.
Behind(m) ==
    \A s \in Branches : m \in s =>
        \A a \in announced : Height[a] <= Height[m] => a \in s

\* The announced blocks are saved ones up to the scan point, and on every branch of
\* a saved block above them that the node has not left.
AnnouncedIsBehind ==
    /\ announced \subseteq localBlocks
    /\ \A a \in announced :
        \/ Height[a] <= localHeight
        \/ pc = "notifyFork" /\ a = forkBlock
    /\ \A m \in localBlocks \cup {localHash} : ~Left(m) => Behind(m)

\* What the task relies on until it announces the block it has read or calls one back.
ToAnnounce ==
    /\ pc = "block" /\ fetched # NoBlock /\ curHash = Parent[fetched] => Behind(fetched)
    /\ pc \in {"saveNew", "saveBlock", "notifyNew"} => Behind(fetched)
    /\ pc \in {"block", "saveNew", "saveBlock", "notifyNew"} /\ fetched # NoBlock =>
        \E s \in Branches : fetched \in s
    /\ pc = "saveBlock" => \A a \in announced : Height[a] < localHeight
    /\ pc = "notifyNew" => fetched \in localBlocks
    /\ SteppingBack => cur >= localHeight \/ forkBlock = LocalBlock(localHeight)
    /\ uPc \notin {"scanBlock", "scanNotify"}

AnnounceInv == AnnouncedIsOneBranch /\ AnnouncedIsBehind /\ ToAnnounce

-----------------------------------------------------------------------------
(* AnnounceInv: every step. *)

\* A step of the task that leaves the scan point alone and has no fork to announce.
LEMMA QuietAnnounce ==
  ASSUME AnnounceInv, pc # "notifyFork",
         UNCHANGED <<main, localHeight, localHash, localBlocks, announced>>,
         pc' \in Quiet \cup {"startHash", "loop", "hash", "fork"}, uPc' \in {uPc, "idle"}
  PROVE  AnnounceInv'
  BY DEF AnnounceInv, AnnouncedIsOneBranch, AnnouncedIsBehind, ToAnnounce, Behind, Left,
         Quiet, SteppingBack

\* A step of somebody else that leaves the task and the scan point alone.
LEMMA AsideAnnounce ==
  ASSUME AnnounceInv, uPc' \in {uPc, "idle"},
         UNCHANGED <<main, localHeight, localHash, localBlocks, announced, task>>
  PROVE  AnnounceInv'
<1> USE DEF task
<1>1. AnnouncedIsOneBranch' /\ AnnouncedIsBehind'
  BY DEF AnnounceInv, AnnouncedIsOneBranch, AnnouncedIsBehind, Behind, Left
<1>2. ToAnnounce'
  BY DEF AnnounceInv, ToAnnounce, Behind, SteppingBack, LocalBlock
<1> QED
  BY <1>1, <1>2 DEF AnnounceInv

\* The node leaves its branch: no block that was announced comes back.
LEMMA NodeStepAnnounce ==
  ASSUME NoReturn, Inv, AnnounceInv, NodeStep
  PROVE  AnnounceInv'
<1> USE DEF NodeStep, store, task, user, history
<1>1. \A b : LeftOn(main, b) => LeftOn(main', b)
  BY LeftStays DEF Inv, TypeOK, NodeTypeOK, NodeAdvances, TipHeight
<1>2. AnnouncedIsOneBranch' /\ AnnouncedIsBehind'
  BY <1>1 DEF AnnounceInv, AnnouncedIsOneBranch, AnnouncedIsBehind, Behind, Left
<1>3. ToAnnounce'
  BY DEF AnnounceInv, ToAnnounce, Behind, SteppingBack, LocalBlock
<1> QED
  BY <1>2, <1>3 DEF AnnounceInv

\* What has been announced is below the block the node has given.
LEMMA AnnouncedBelow ==
  ASSUME Inv, PointInv, AnnounceInv, pc \in {"hash", "block", "saveNew"}, NEW a \in announced
  PROVE  /\ a \in Block /\ Height[a] \in Nat /\ Height[a] <= localHeight
         /\ localHeight \in Nat /\ cur \in Nat /\ Height[a] < cur
<1>1. a \in Block /\ Height[a] \in Nat /\ localHeight \in Nat /\ cur \in Nat
  BY BlockAssumption DEF Inv, TypeOK, Heights
<1>2. Height[a] <= localHeight /\ cur > localHeight
  BY DEF AnnounceInv, AnnouncedIsBehind, PointInv, Following
<1> QED
  BY <1>1, <1>2

\* The hash of the next height: the scan point is still the last block announced.
LEMMA NextHashAnnounce ==
  ASSUME Inv, PointInv, AnnounceInv, NextHash
  PROVE  AnnounceInv'
<1> USE DEF store, user, history
<1>1. CASE pc' = "last"
  BY <1>1, QuietAnnounce DEF NextHash, Break, Quiet
<1>2. CASE pc' = "block"
  <2>1. /\ main \in Branches
        /\ fetched' # NoBlock => fetched' \in main /\ Height[fetched'] = cur
    BY <1>2 DEF NextHash, HashIs, BlockAt, Break, Inv, TypeOK, NodeTypeOK
  <2>2. ASSUME fetched' # NoBlock, curHash = Parent[fetched'], NEW s \in Branches, fetched' \in s,
               NEW a \in announced
        PROVE  a \in s
    <3>1. localHash # NoBlock
      BY DEF AnnounceInv, AnnouncedIsBehind, PointInv, Saved
    <3>2. localHash = Parent[fetched'] /\ Height[localHash] = localHeight
      BY <2>2, <3>1 DEF PointInv, Following, Saved, NextHash
    <3>3. localHash \in main /\ localHash \in s
      BY <2>1, <2>2, <3>2, BranchAssumption DEF IsBranch
    <3>4. Behind(localHash)
      BY <3>3 DEF AnnounceInv, AnnouncedIsBehind, Left, LeftOn
    <3> QED
      BY <3>2, <3>3, <3>4, AnnouncedBelow DEF Behind, NextHash
  <2>3. ToAnnounce'
    BY <1>2, <2>1, <2>2 DEF AnnounceInv, ToAnnounce, Behind, SteppingBack, NextHash
  <2>4. AnnouncedIsOneBranch' /\ AnnouncedIsBehind'
    BY <1>2 DEF AnnounceInv, AnnouncedIsOneBranch, AnnouncedIsBehind, Behind, Left, NextHash
  <2> QED
    BY <2>3, <2>4 DEF AnnounceInv
<1> QED
  BY <1>1, <1>2 DEF NextHash, Break

\* The next block: a fork is begun from the scan point, which is the last block
\* announced.
LEMMA NextBlockAnnounce ==
  ASSUME AnnounceInv, NextBlock, ~misled'
  PROVE  AnnounceInv'
<1> USE DEF user
<1>1. CASE pc' # "saveNew"
  BY <1>1, QuietAnnounce DEF NextBlock
<1>2. CASE pc' = "saveNew"
  <2>0. fetched' = fetched /\ fetched # NoBlock /\ curHash = Parent[fetched]
    BY <1>2 DEF NextBlock, BlockIs, IsFork, PreHash
  <2>1. ToAnnounce'
    BY <1>2, <2>0 DEF AnnounceInv, ToAnnounce, Behind, SteppingBack, NextBlock
  <2>2. AnnouncedIsOneBranch' /\ AnnouncedIsBehind'
    BY <1>2 DEF AnnounceInv, AnnouncedIsOneBranch, AnnouncedIsBehind, Behind, Left, NextBlock
  <2> QED
    BY <2>1, <2>2 DEF AnnounceInv
<1> QED
  BY <1>1, <1>2

\* A fork forgets its block: the block is kept in memory, to be announced as left.
LEMMA ForkDeleteAnnounce ==
  ASSUME Inv, PointInv, AnnounceInv, ForkDelete
  PROVE  AnnounceInv'
<1> USE DEF user, history
<1>1. cur' >= localHeight \/ forkBlock' = LocalBlock(localHeight)
  <2>1. cur \in Heights /\ cur > localHeight /\ localHeight \in Nat /\ cur' \in Nat
    BY HeightArithmetic DEF Inv, TypeOK, Heights, PointInv, Following, ForkDelete
  <2>2. CASE localHeight = 0
    BY <2>1, <2>2
  <2>3. CASE localHeight # 0
    <3>1. cur' >= localHeight \/ cur = localHeight + 1
      BY <2>1, <2>3, TwoBackFrom DEF ForkDelete
    <3> QED
      BY <2>1, <3>1 DEF ForkDelete
  <2> QED
    BY <2>2, <2>3
<1>2. ToAnnounce'
  BY <1>1 DEF AnnounceInv, ToAnnounce, SteppingBack, ForkDelete, LocalBlock
<1>3. AnnouncedIsOneBranch' /\ AnnouncedIsBehind'
  BY DEF AnnounceInv, AnnouncedIsOneBranch, AnnouncedIsBehind, Behind, Left, ForkDelete
<1> QED
  BY <1>2, <1>3 DEF AnnounceInv

\* A fork reads the block two heights back: a saved block is one that was announced.
LEMMA ForkLocalAnnounce ==
  ASSUME AnnounceInv, ForkLocal
  PROVE  AnnounceInv'
<1> USE DEF store, user, history
<1>1. ToAnnounce'
  BY DEF AnnounceInv, ToAnnounce, SteppingBack, ForkLocal, LocalBlock
<1>2. AnnouncedIsOneBranch' /\ AnnouncedIsBehind'
  BY DEF AnnounceInv, AnnouncedIsOneBranch, AnnouncedIsBehind, Behind, Left, ForkLocal
<1> QED
  BY <1>1, <1>2 DEF AnnounceInv

\* The step back goes below an announced block only to call it back.
\* The step back is saved: the block it left is still to be announced as left.
LEMMA SaveForkAnnounce ==
  ASSUME Inv, PointInv, AnnounceInv, SaveFork
  PROVE  AnnounceInv'
<1> USE DEF user, history, SaveLocalNewBlock
<1>1. /\ curHash \in localBlocks /\ Height[curHash] = cur /\ localHash # NoBlock
      /\ localHash' = curHash /\ localHeight' = cur
      /\ UNCHANGED <<main, localBlocks, announced, forkBlock>>
      /\ pc' = IF forkBlock = NoBlock THEN "loop" ELSE "notifyFork"
  BY DEF PointInv, Stepping, Saved, SaveFork
<1>2. localHeight \in Nat /\ cur \in Nat /\ \A b \in localBlocks : Height[b] \in Nat
  BY BlockAssumption DEF Inv, TypeOK, Heights
<1>3. ASSUME NEW a \in announced, ~(Height[a] <= cur)
      PROVE  pc' = "notifyFork" /\ a = forkBlock
  <2>1. a \in localBlocks /\ Height[a] <= localHeight /\ Height[a] \in Nat
    BY <1>2 DEF AnnounceInv, AnnouncedIsBehind, SaveFork
  <2>2. cur = localHeight - 1
    BY <1>1, <1>2, <1>3, <2>1 DEF PointInv, Stepping, SteppingBack, SaveFork
  <2>3. Height[a] = localHeight /\ forkBlock = LocalBlock(localHeight)
    BY <1>2, <1>3, <2>1, <2>2 DEF AnnounceInv, ToAnnounce, SteppingBack, SaveFork
  <2>4. forkBlock # NoBlock /\ forkBlock \in localBlocks /\ Height[forkBlock] = localHeight
    BY <2>1, <2>3, LocalBlockAt DEF Inv, TypeOK
  <2> QED
    BY <1>1, <2>1, <2>3, <2>4 DEF PointInv, Saved
<1>4. AnnouncedIsBehind'
  BY <1>1, <1>3 DEF AnnounceInv, AnnouncedIsBehind, Behind, Left
<1>5. AnnouncedIsOneBranch' /\ ToAnnounce'
  BY <1>1 DEF AnnounceInv, AnnouncedIsOneBranch, ToAnnounce, SteppingBack, SaveFork
<1> QED
  BY <1>4, <1>5 DEF AnnounceInv

\* Observers are told of the fork: the block is no longer announced.
LEMMA NotifyForkAnnounce ==
  ASSUME AnnounceInv, NotifyFork
  PROVE  AnnounceInv'
<1> USE DEF store, user
<1>1. AnnouncedIsBehind'
  BY DEF AnnounceInv, AnnouncedIsBehind, Behind, Left, NotifyFork
<1>2. AnnouncedIsOneBranch' /\ ToAnnounce'
  BY DEF AnnounceInv, AnnouncedIsOneBranch, ToAnnounce, SteppingBack, NotifyFork
<1> QED
  BY <1>1, <1>2 DEF AnnounceInv

\* The next block becomes the scan point: its parent is the last block announced.
LEMMA SaveNewAnnounce ==
  ASSUME Inv, PointInv, AnnounceInv, SaveNew
  PROVE  AnnounceInv'
<1> USE DEF user, history, SaveLocalNewBlock
<1>1. /\ localHash' = fetched /\ localHeight' = cur /\ Behind(fetched) /\ pc' = "saveBlock"
      /\ UNCHANGED <<main, localBlocks, announced, fetched>>
  BY DEF PointInv, Following, AnnounceInv, ToAnnounce, SaveNew
<1>2. \A a \in announced : Height[a] < cur /\ Height[a] <= cur
  BY AnnouncedBelow DEF SaveNew
<1>3. AnnouncedIsBehind'
  BY <1>1, <1>2 DEF AnnounceInv, AnnouncedIsBehind, Behind, Left
<1>4. AnnouncedIsOneBranch' /\ ToAnnounce'
  BY <1>1, <1>2 DEF AnnounceInv, AnnouncedIsOneBranch, ToAnnounce, Behind, SteppingBack, SaveNew
<1> QED
  BY <1>3, <1>4 DEF AnnounceInv

\* The block is saved: it is the one to be announced next.
LEMMA SaveBlockAnnounce ==
  ASSUME Inv, PointInv, AnnounceInv, SaveBlock
  PROVE  AnnounceInv'
<1> USE DEF user, history, SaveLocalBlock
<1>1. /\ localBlocks' = {b \in localBlocks : Height[b] # Height[fetched]} \cup {fetched}
      /\ fetched = localHash /\ Height[fetched] = localHeight /\ pc' = "notifyNew"
      /\ UNCHANGED <<main, localHeight, localHash, announced, fetched>>
  BY DEF PointInv, Following, SaveBlock, Real
<1>2. \A a \in announced : Height[a] # localHeight
  BY BlockAssumption DEF AnnounceInv, ToAnnounce, SaveBlock, Inv, TypeOK, Heights
<1>3. AnnouncedIsBehind'
  BY <1>1, <1>2 DEF AnnounceInv, AnnouncedIsBehind, Behind, Left, SaveBlock
<1>4. AnnouncedIsOneBranch' /\ ToAnnounce'
  BY <1>1 DEF AnnounceInv, AnnouncedIsOneBranch, ToAnnounce, Behind, SteppingBack, SaveBlock
<1> QED
  BY <1>3, <1>4 DEF AnnounceInv

\* Observers are told of the block: it follows all that were announced.
LEMMA NotifyNewAnnounce ==
  ASSUME Inv, PointInv, AnnounceInv, NotifyNew
  PROVE  AnnounceInv'
<1> USE DEF store, user
<1>1. /\ fetched = localHash /\ Height[fetched] = localHeight /\ localHeight \in Nat
      /\ fetched \in localBlocks /\ Behind(fetched) /\ pc' = "loop"
      /\ announced' = announced \cup {fetched}
      /\ UNCHANGED <<main, localHeight, localHash, localBlocks, fetched>>
  BY DEF Inv, TypeOK, Heights, PointInv, Following, AnnounceInv, ToAnnounce, NotifyNew, Real
<1>2. \A a \in announced : Height[a] <= Height[fetched]
  BY <1>1 DEF AnnounceInv, AnnouncedIsBehind, NotifyNew
<1>3. AnnouncedIsOneBranch'
  <2>1. PICK s \in Branches : fetched \in s
    BY DEF AnnounceInv, ToAnnounce, PointInv, Following, NotifyNew
  <2> QED
    BY <1>1, <1>2, <2>1 DEF Behind, AnnouncedIsOneBranch
<1>4. ASSUME NEW m \in localBlocks \cup {localHash}, ~Left(m)
      PROVE  Behind(m)'
  <2>1. Height[m] <= localHeight /\ Height[m] \in Nat /\ (Height[m] = localHeight => m = fetched)
    BY <1>1, <1>4, SavedIsBehind
  <2>2. Behind(m)
    BY <1>4 DEF AnnounceInv, AnnouncedIsBehind
  <2> QED
    BY <1>1, <2>1, <2>2 DEF Behind
<1>5. AnnouncedIsBehind'
  <2>1. \A a \in announced' : a \in localBlocks /\ Height[a] <= localHeight
    BY <1>1, <1>2 DEF AnnounceInv, AnnouncedIsBehind
  <2> QED
    BY <1>1, <1>4, <2>1 DEF AnnouncedIsBehind, Left
<1>6. ToAnnounce'
  BY <1>1 DEF AnnounceInv, ToAnnounce, SteppingBack, NotifyNew
<1> QED
  BY <1>3, <1>5, <1>6 DEF AnnounceInv

\* The other steps of the task announce nothing.
LEMMA OtherTaskAnnounce ==
  ASSUME AnnounceInv,
         \/ TaskStart \/ StartHash \/ LoopHead \/ ForkHash
         \/ LastHash \/ LastBlock \/ FailedHash \/ FailedBlock \/ FailedDelete
  PROVE  AnnounceInv'
<1> USE DEF store, user, history, Quiet
<1>1. CASE TaskStart \/ StartHash \/ LoopHead \/ ForkHash
  BY <1>1, QuietAnnounce DEF TaskStart, StartHash, LoopHead, ForkHash, Break, Return
<1>2. CASE LastHash \/ FailedHash
  <2>1. pc' \in {"last", "lastBlock", "failed", "failedBlock", "idle"}
    BY <1>2 DEF LastHash, FailedHash, Return
  <2> QED
    BY <1>2, <2>1, QuietAnnounce DEF LastHash, FailedHash
<1>3. CASE LastBlock \/ FailedBlock \/ FailedDelete
  <2>1. pc' \in {"last", "failed", "failedDelete"}
    BY <1>3 DEF LastBlock, FailedBlock, FailedDelete
  <2> QED
    BY <1>3, <2>1, QuietAnnounce DEF LastBlock, FailedBlock, FailedDelete
<1> QED
  BY <1>1, <1>2, <1>3

\* The application, which only pauses and resumes the task here, announces nothing.
LEMMA UserAnnounce ==
  ASSUME OnlyTaskAnnounces, PointInv, AnnounceInv, UserStep
  PROVE  AnnounceInv'
<1> USE DEF store, user, history
<1>1. CASE Pause \/ Run
  BY <1>1, AsideAnnounce DEF Pause, Run
<1>2. ~ResetSave /\ ~UserScanBlock /\ ~UserScanNotify /\ ~ResetHash /\ ~UserScanHash
  BY DEF ResetSave, UserScanBlock, UserScanNotify, ResetHash, UserScanHash, PointInv, Saved,
         AnnounceInv, ToAnnounce, OnlyTaskAnnounces, OnlyTaskSaves
<1> QED
  BY <1>1, <1>2 DEF UserStep

\* A restart does not come between a step back and its announcement.
LEMMA CrashAnnounce ==
  ASSUME OnlyTaskAnnounces, AnnounceInv, CrashStep
  PROVE  AnnounceInv'
<1>1. ~CrashInSave /\ ~Crash
  BY DEF CrashInSave, Crash, Fault, OnlyTaskAnnounces, OnlyTaskSaves
<1> QED
  BY <1>1, QuietAnnounce DEF CrashStep, Restart, Alive, Reboot, Return, UserReturn, Quiet, history

\* Every step keeps the invariant.
LEMMA AnnounceNext ==
  ASSUME NoReturn, OnlyTaskAnnounces, Inv, PointInv, AnnounceInv, [Next]_vars, ~misled'
  PROVE  AnnounceInv'
<1>1. CASE TaskStep
  BY <1>1, OtherTaskAnnounce, NextHashAnnounce, NextBlockAnnounce, ForkDeleteAnnounce,
     ForkLocalAnnounce, SaveForkAnnounce, NotifyForkAnnounce, SaveNewAnnounce,
     SaveBlockAnnounce, NotifyNewAnnounce
  DEF TaskStep, TaskLoop, TaskRescans
<1>2. CASE UNCHANGED vars
  BY <1>2, AsideAnnounce DEF vars, store, user, history
<1> QED
  BY <1>1, <1>2, NodeStepAnnounce, UserAnnounce, CrashAnnounce DEF Next

\* The blocks the observers hold as scanned and not forked off are on one branch, with
\* failures of the node and of observers, forks, panics and pauses, until the loop goes by
\* an empty block: lines 202-206 and 224-225 of blockscanner.go.
THEOREM AnnouncedOnOneBranch ==
  ASSUME NoReturn, OnlyTaskAnnounces
  PROVE  Spec => [](misled \/ AnnouncedIsOneBranch)
<1>1. Init => AnnounceInv
  BY DEF Init, AnnounceInv, AnnouncedIsOneBranch, AnnouncedIsBehind, ToAnnounce, Behind,
         SteppingBack
<1>2. Inv /\ (~misled => PointInv) /\ (~misled => AnnounceInv) /\ [Next]_vars
        => (~misled => AnnounceInv)'
  BY AnnounceNext, MisledStays
<1>3. (~misled => AnnounceInv) => misled \/ AnnouncedIsOneBranch
  BY DEF AnnounceInv
<1>4. Spec => [](~misled => PointInv)
  BY PointHolds DEF OnlyTaskAnnounces
<1> QED
  BY <1>1, <1>2, <1>3, <1>4, SpecInv, PTL DEF Spec
===============================================================================
