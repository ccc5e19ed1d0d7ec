------------------------------ MODULE MCBackup ------------------------------
(* A small instance of Backup: two stored batches and a reparsed one. *)
EXTENDS Backup
=============================================================================
