---------------------------- MODULE MCMigrations ----------------------------
(* A small instance of Migrations: two grants given by hand. *)
EXTENDS Migrations

MCDrifts ==
  {Grant("cp_backup", "insert", "review_item"),
   Grant("cp_worker", "update", "price_observation")}
=============================================================================
