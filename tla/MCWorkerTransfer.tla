-------------------------- MODULE MCWorkerTransfer --------------------------
(* Small instances of WorkerTransfer.                                      *)
EXTENDS WorkerTransfer
=============================================================================
