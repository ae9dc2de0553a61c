---------------------------- MODULE MCTxPipeline ----------------------------
EXTENDS TxPipeline, TLC

Symmetry == Permutations(SrcTask) \cup Permutations(TaskId \ SrcTask)

=============================================================================
