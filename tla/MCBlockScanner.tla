--------------------------- MODULE MCBlockScanner ---------------------------
(* Small block trees for BlockScanner. *)
EXTENDS BlockScanner

\* A trunk of heights 0 to 2 and two branches from there, of heights 3 to 4 and
\* 3 to 5: the node may start on any of them and moves to longer ones.
ForkBlocks == {"g", "t1", "t2", "a3", "a4", "b3", "b4", "b5"}
ForkParent == [b \in ForkBlocks |->
    CASE b = "g"  -> "g"  [] b = "t1" -> "g"  [] b = "t2" -> "t1"
      [] b = "a3" -> "t2" [] b = "a4" -> "a3"
      [] b = "b3" -> "t2" [] b = "b4" -> "b3" [] b = "b5" -> "b4"]
ForkHeight == [b \in ForkBlocks |->
    CASE b = "g"  -> 0 [] b = "t1" -> 1 [] b = "t2" -> 2
      [] b \in {"a3", "b3"} -> 3 [] b \in {"a4", "b4"} -> 4 [] b = "b5" -> 5]
ForkBranches ==
    {{"g", "t1", "t2"}, {"g", "t1", "t2", "a3", "a4"},
     {"g", "t1", "t2", "b3", "b4", "b5"}}

\* A fork three blocks deep.
DeepBlocks == {"g", "t1", "t2", "a3", "a4", "a5", "b3", "b4", "b5", "b6"}
DeepParent == [b \in DeepBlocks |->
    CASE b = "g"  -> "g"  [] b = "t1" -> "g"  [] b = "t2" -> "t1"
      [] b \in {"a3", "b3"} -> "t2" [] b = "a4" -> "a3" [] b = "b4" -> "b3"
      [] b = "a5" -> "a4" [] b = "b5" -> "b4" [] b = "b6" -> "b5"]
DeepHeight == [b \in DeepBlocks |->
    CASE b = "g"  -> 0 [] b = "t1" -> 1 [] b = "t2" -> 2
      [] b \in {"a3", "b3"} -> 3 [] b \in {"a4", "b4"} -> 4
      [] b \in {"a5", "b5"} -> 5 [] b = "b6" -> 6]
DeepBranches ==
    {{"g", "t1", "t2"}, {"g", "t1", "t2", "a3", "a4", "a5"},
     {"g", "t1", "t2", "b3", "b4", "b5", "b6"}}
=============================================================================
