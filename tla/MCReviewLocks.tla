--------------------------- MODULE MCReviewLocks ---------------------------
(* A small instance of ReviewLocks: three items, three checks. *)
EXTENDS ReviewLocks
=============================================================================
