---------------------------- MODULE MCQueueLocks ----------------------------
EXTENDS QueueLocks, TLC

HandlerSymmetry == Permutations(Handlers)
=============================================================================
