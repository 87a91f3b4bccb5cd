---------------------------- MODULE MCWorkerPool ----------------------------
(* TLC instances of WorkerPool: two worker threads, two tasks.               *)
EXTENDS WorkerPool, TLC

CONSTANTS w1, w2
=============================================================================
