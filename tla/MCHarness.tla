----------------------------- MODULE MCHarness -----------------------------
(* A small instance of Harness: three readers, two writers, two batches,  *)
(* two children of a check.                                                *)
EXTENDS Harness
=============================================================================
