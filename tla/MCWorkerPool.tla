---------------------------- MODULE MCWorkerPool ----------------------------
(* Finite instances of WorkerPool: sizes come from the .cfg files.         *)
EXTENDS WorkerPool
============================================================================
