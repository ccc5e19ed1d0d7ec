---------------------------- MODULE MCIngestion ----------------------------
(* Small instances of Ingestion. *)
EXTENDS Ingestion

MCWriterKind ==
  [p \in Procs |->
     CASE p = "daily" -> "daily" [] p = "bench" -> "bench"
       [] p = "loop" -> "loop" [] p = "reparse" -> "reparse"
       [] OTHER -> "probe"]

MCWriterId ==
  [p \in Procs |->
     CASE p = "daily" -> 1 [] p = "bench" -> 2 [] p = "loop" -> 3
       [] p = "reparse" -> 4 [] p = "probe1" -> 5 [] OTHER -> 6]
=============================================================================
