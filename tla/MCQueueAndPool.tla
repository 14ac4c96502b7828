--------------------------- MODULE MCQueueAndPool ---------------------------
(***************************************************************************)
(* The instances of MCThreadSafeQueue and MCStealThreadPool for TLC, in    *)
(* one.                                                                    *)
(***************************************************************************)
EXTENDS QueueAndPool, MCThreadSafeQueue, MCStealThreadPool
=============================================================================
