------------------------------ MODULE MCWorker ------------------------------
(* Small instances of the queue and its workers.                           *)
EXTENDS WorkerContract, TLC

CONSTANTS j1, j2, w1, w2

\* Workers run the same program and no operator tells them apart.
WorkerSymmetry == Permutations(Workers)
=============================================================================
