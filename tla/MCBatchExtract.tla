--------------------------- MODULE MCBatchExtract ---------------------------
(* Two calls of two transactions and one of none, with two tokens between *)
(* them: each call alone can take all the tokens.                         *)
EXTENDS BatchExtract

MCBatch == {"task", "user", "empty"}
MCTxCount == [b \in MCBatch |-> IF b = "empty" THEN 0 ELSE 2]
=============================================================================
