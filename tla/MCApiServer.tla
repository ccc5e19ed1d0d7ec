---------------------------- MODULE MCApiServer ----------------------------
(* A small instance of ApiServer: a tick of 5 s, two clients and the check. *)
EXTENDS ApiServer
=============================================================================
