------------------------------ MODULE NulsNode ------------------------------
(***************************************************************************)
(* The NULS node the adapter talks to, seen through the calls of           *)
(* nulsio/api.go.  The node is not part of the repository: it is modelled  *)
(* from how the scanner uses it.  A block is a member of Block; what the   *)
(* scanner reads of it is its height and the hash of its parent.           *)
(*                                                                         *)
(* The node follows one branch of the block tree at a time and leaves it   *)
(* only for a longer one, which may extend it or fork from it (a reorg).   *)
(***************************************************************************)
EXTENDS Integers, FiniteSets

CONSTANTS
    Block,      \* every block that ever exists; a block is named by its hash
    NoBlock,    \* stands for a nil block and for the empty hash
    Genesis,
    Parent,     \* Parent[b]: the block that preHash of b names
    Height,     \* Height[b]: the height of b
    Branches    \* the branches the node may follow, each a set of blocks

ASSUME BlockAssumption ==
    /\ NoBlock \notin Block
    /\ Genesis \in Block
    /\ Parent \in [Block -> Block]
    /\ Height \in [Block -> Nat]
    /\ Height[Genesis] = 0
    /\ \A b \in Block \ {Genesis} : Height[b] = Height[Parent[b]] + 1

\* A branch holds the genesis block and, with a block, its parent; it has one
\* block per height.
IsBranch(s) ==
    /\ Genesis \in s
    /\ \A b \in s : Parent[b] \in s
    /\ \A a, b \in s : Height[a] = Height[b] => a = b

\* The newest block of a branch.
IsTip(b, s) == b \in s /\ \A a \in s : Height[a] <= Height[b]

ASSUME BranchAssumption ==
    /\ Branches \subseteq SUBSET Block
    /\ \A s \in Branches : IsBranch(s) /\ \E b \in s : IsTip(b, s)

VARIABLE main   \* the branch the node follows now

TipHeightOf(s) == Height[CHOOSE b \in s : IsTip(b, s)]

NodeTypeOK == main \in Branches

\* The height of the node's newest block: GetNewHeight of the API.
TipHeight == TipHeightOf(main)

\* The block the node returns for a height: none above the tip.
BlockAt(h) == {b \in main : Height[b] = h}

\* What the node knows of a hash: it keeps a block of its own branch, and may
\* have discarded or still serve one it has rolled back.
MayServe(b)   == b \in Block
MayNotKnow(b) == b \notin main

\* The node adopts a longer branch.
NodeAdvances ==
    \E s \in Branches :
        /\ TipHeightOf(s) > TipHeight
        /\ main' = s
=============================================================================
