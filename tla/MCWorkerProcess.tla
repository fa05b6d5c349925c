-------------------------- MODULE MCWorkerProcess --------------------------
(* One worker process with a few jobs and threads.                         *)
EXTENDS WorkerProcess

CONSTANTS a, b, t1, t2
=============================================================================
