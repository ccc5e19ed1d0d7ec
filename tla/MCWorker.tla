------------------------------ MODULE MCWorker ------------------------------
(* A small instance of Worker: the timing run has a tick of 5/3 s. *)
EXTENDS Worker
=============================================================================
