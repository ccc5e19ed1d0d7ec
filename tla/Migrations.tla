----------------------------- MODULE Migrations -----------------------------
(***************************************************************************)
(* The operator's commands on a database: dbpoc.bootstrap (reset, roles,   *)
(* grants, seed), dbpoc.migrate (initial, compat, failing, downgrade) and  *)
(* dbpoc.roles.  Each is a list of statements sent one after the other and *)
(* may be killed between any two.  PostgreSQL runs all of one alembic      *)
(* command in one transaction; on MariaDB every DDL statement commits.     *)
(***************************************************************************)
EXTENDS Schema, FiniteSets

CONSTANTS
  Engines,  \* the products to check
  Drifts    \* grants that somebody may have given by hand

Grant(role, right, table) == [role |-> role, right |-> right, table |-> table]

RuntimeRoles == {"cp_api", "cp_worker", "cp_backup"}
Rights == {"select", "insert", "update", "delete"}

ASSUME MigrationsAssumption ==
  /\ Engines \subseteq {"postgres", "mariadb"}
  /\ Drifts \subseteq [role : RuntimeRoles, right : Rights, table : Tables]

VARIABLES
  engine,    \* the product
  database,  \* the database exists
  roles,     \* the roles that exist
  grants,    \* the grants on tables, or on "*" for the database
  schema,    \* what is committed: the objects and the revision
  rows,      \* what the tables hold, as far as a statement can tell
  probe,     \* the row the role check inserts is there
  job,       \* the command that runs
  reader,    \* the thread that keeps on asking the old query
  outcome,   \* the last command, if it ran to its end
  before     \* history: the objects, and the probe row, when the command began

vars == <<engine, database, roles, grants, schema, rows, probe, job, reader, outcome, before>>

NoSchema == [objects |-> {}, revision |-> "none"]
Job(step, plan, view, ok) == [step |-> step, plan |-> plan, view |-> view, ok |-> ok]
Idle == Job("idle", <<>>, NoSchema, TRUE)
Found(objects, row) == [objects |-> objects, probe |-> row]

Alembic == {"initial", "compat", "failing", "downgrade", "reupgrade"}
Admin == {"reset", "roles", "grants"}

(* A slip: the connection commits every statement. *)
TransactionalNever == FALSE

(* run_migrations_online: PostgreSQL sees its own transaction.              *)
Transactional == engine = "postgres" /\ job.step \in Alembic
Seen == IF Transactional THEN job.view ELSE schema

(* A role may do something to a table.  A PostgreSQL database belongs to    *)
(* cp_migration.                                                            *)
May(role, right, table) ==
  /\ database /\ role \in roles
  /\ \/ \E g \in grants : g.role = role /\ g.right = right /\ g.table \in {table, "*"}
     \/ engine = "postgres" /\ role = "cp_migration"

CanMigrate == May("cp_migration", "all", "*")
CanRead == "price_observation" \in schema.objects /\ May("cp_api", "select", "price_observation")

CardsRepeat == rows = "repeated"
HasArtifacts == rows \in {"unique", "repeated"}

SchemaTables(s) == s.objects \cap Tables
----------------------------------------------------------------------------
(* WORKER_UPDATABLE *)
WorkerUpdatable == <<"review_item", "ingest_run", "processing_run", "source">>

ResetPlan ==
  <<[do |-> "dropdb"], [do |-> "createdb"]>> \o
  (IF engine = "mariadb" THEN <<[do |-> "grant", of |-> {Grant("cp_migration", "all", "*")}]>>
   ELSE <<>>)

(* On PostgreSQL cp_backup becomes a member of pg_read_all_data, which no    *)
(* grant on a table touches.                                                *)
RolesPlan ==
  [i \in 1 .. 4 |-> [do |-> "role", of |-> <<"cp_api", "cp_worker", "cp_migration", "cp_backup">>[i]]]
  \o (IF engine = "postgres"
      THEN <<[do |-> "grant", of |-> {Grant("cp_backup", "select", "*")}]>> ELSE <<>>)

UpdateGrants == [i \in 1 .. 4 |->
  [do |-> "grant", of |-> {Grant("cp_worker", "update", WorkerUpdatable[i])}]]

(* A slip: what was granted before is not taken back. *)
GrantsPlanWithoutRevoke ==
  <<[do |-> "grantall", of |-> {<<"cp_api", "select">>}],
    [do |-> "grantall", of |-> {<<"cp_worker", "select">>, <<"cp_worker", "insert">>}]>>
  \o UpdateGrants

(* apply_grants; "ALL TABLES" are those of the moment.                      *)
GrantsPlan ==
  IF engine = "postgres"
  THEN <<[do |-> "revoke"],
         [do |-> "grantall", of |-> {<<"cp_api", "select">>}],
         [do |-> "grantall", of |-> {<<"cp_worker", "select">>, <<"cp_worker", "insert">>}]>>
       \o UpdateGrants
  ELSE <<[do |-> "grant", of |-> {Grant("cp_api", "select", "*")}],
         [do |-> "grant", of |-> {Grant("cp_worker", "select", "*"), Grant("cp_worker", "insert", "*")}],
         [do |-> "grant", of |-> {Grant("cp_migration", "all", "*")}],
         [do |-> "grant", of |-> {Grant("cp_backup", "select", "*")}]>>
       \o UpdateGrants

(* The grants a complete run of apply_grants leaves on PostgreSQL.          *)
Intended(tables) ==
  [role : {"cp_api"}, right : {"select"}, table : tables] \cup
  [role : {"cp_worker"}, right : {"select", "insert"}, table : tables] \cup
  [role : {"cp_worker"}, right : {"update"}, table : ToSet(WorkerUpdatable)]

(* A slip: a grant to an account that does not exist is not refused. *)
AdminAcceptedForAnyone(s) ==
  CASE s.do = "grant" -> \A g \in s.of : g.table \in schema.objects \cup {"*"}
    [] OTHER -> TRUE

(* A statement of bootstrap can be executed: the database and the roles and *)
(* the tables it names exist.                                               *)
AdminAccepted(s) ==
  CASE s.do = "createdb" -> engine = "postgres" => "cp_migration" \in roles
    [] s.do = "grant" ->
         /\ \A g \in s.of : g.role \in roles /\ g.table \in schema.objects \cup {"*"}
    [] s.do = "revoke" -> RuntimeRoles \subseteq roles
    [] s.do = "grantall" -> \A p \in s.of : p[1] \in roles
    [] OTHER -> TRUE

(* On PostgreSQL the grants on a table go with it.                          *)
GrantsLeft(objects) ==
  IF engine = "postgres" THEN {g \in grants : g.table \in objects \cup {"*"}} ELSE grants

(* The grants a statement of bootstrap gives.                               *)
Gives(s) ==
  IF s.do = "grant" THEN s.of
  ELSE IF s.do = "grantall" THEN {Grant(p[1], p[2], t) : p \in s.of, t \in SchemaTables(schema)}
  ELSE {}

AdminEffect(s) ==
  /\ database' = CASE s.do = "dropdb" -> FALSE [] s.do = "createdb" -> TRUE [] OTHER -> database
  /\ schema' = IF s.do = "dropdb" THEN NoSchema ELSE schema
  /\ rows' = IF s.do = "dropdb" THEN "none" ELSE rows
  /\ probe' = (probe /\ s.do # "dropdb")
  /\ roles' = IF s.do = "role" THEN roles \cup {s.of} ELSE roles
  /\ grants' = IF s.do = "dropdb" THEN GrantsLeft({})
               ELSE IF s.do = "revoke" THEN {g \in grants : g.table = "*"}
               ELSE grants \cup Gives(s)
----------------------------------------------------------------------------
(* check_roles: who tries what, and whether it should be allowed.           *)
Try(role, right, table, expected) ==
  [role |-> role, right |-> right, table |-> table, expected |-> expected]

Expectations ==
  <<Try("cp_api", "select", "price_observation", TRUE),
    Try("cp_api", "insert", "review_item", FALSE),
    Try("cp_api", "update", "price_observation", FALSE),
    Try("cp_api", "create", "poc_role_probe", FALSE),
    Try("cp_worker", "select", "price_observation", TRUE),
    Try("cp_worker", "insert", "review_item", TRUE),
    Try("cp_worker", "update", "review_item", TRUE),
    Try("cp_worker", "update", "price_observation", FALSE),
    Try("cp_worker", "delete", "price_observation", FALSE),
    Try("cp_worker", "create", "poc_role_probe", FALSE),
    Try("cp_backup", "select", "price_observation", TRUE),
    Try("cp_backup", "insert", "review_item", FALSE),
    Try("cp_migration", "create", "poc_role_probe", TRUE),
    Try("cp_migration", "drop", "poc_role_probe", TRUE)>>

(* The role has the privileges the statement needs, and the statement finds *)
(* what it needs.  _attempt takes any error for a denial.                   *)
Entitled(t) ==
  IF t.right \in {"create", "drop"} THEN May(t.role, "all", "*")
  ELSE /\ May(t.role, t.right, t.table)
       /\ t.right = "insert" => May(t.role, "select", "raw_artifact")
       /\ t.right \in {"update", "delete"} => May(t.role, "select", t.table)

Allowed(t) ==
  /\ Entitled(t)
  /\ (t.right = "create") <=> (t.table \notin schema.objects)
  /\ t.right = "insert" => "raw_artifact" \in schema.objects /\ ~(probe /\ HasArtifacts)
----------------------------------------------------------------------------
Init ==
  /\ engine \in Engines
  /\ database = FALSE
  /\ roles = {}
  /\ grants = {}
  /\ schema = NoSchema
  /\ rows = "none"
  /\ probe = FALSE
  /\ job = Idle
  /\ reader = "off"
  /\ outcome = "none"
  /\ before = Found({}, FALSE)

Begin(step, plan) ==
  /\ job = Idle
  /\ job' = Job(step, plan, schema, TRUE)
  /\ outcome' = "none"
  /\ before' = Found(schema.objects, probe)
  /\ UNCHANGED <<engine, database, roles, grants, schema, rows, probe>>

Reset == Begin("reset", ResetPlan) /\ UNCHANGED reader
CreateRoles == Begin("roles", RolesPlan) /\ UNCHANGED reader
ApplyGrants == database /\ Begin("grants", GrantsPlan) /\ UNCHANGED reader

(* migrate --step initial, failing and downgrade.  alembic refuses to go    *)
(* down to a revision it is not above.                                      *)
Initial ==
  /\ CanMigrate /\ Begin("initial", PathUp(schema.revision, "0001"))
  /\ UNCHANGED reader

Failing ==
  /\ CanMigrate /\ Begin("failing", PathUp(schema.revision, "0003"))
  /\ UNCHANGED reader

DowngradeStep ==
  /\ CanMigrate /\ Begin("downgrade", PathDown(schema.revision, "0001"))
  /\ UNCHANGED reader

(* compat_migration: the reader has a second's start.                       *)
Compat ==
  /\ CanMigrate /\ Begin("compat", PathUp(schema.revision, "0002"))
  /\ reader' = IF CanRead THEN "reading" ELSE "refused"

(* dbpoc.roles *)
CheckRoles == Begin("check", Expectations) /\ UNCHANGED reader

(* seed_dimensions is one transaction; its DELETE is refused once an        *)
(* observation refers to a shop.                                            *)
SeedDimensions ==
  /\ job = Idle /\ {"shop", "source"} \subseteq schema.objects /\ ~HasArtifacts
  /\ rows' = "seeded"
  /\ UNCHANGED <<engine, database, roles, grants, schema, probe, job, reader, outcome, before>>

(* Observations are stored, by the loader and the writers.                  *)
Store ==
  /\ rows' \in {"unique", "repeated"} /\ (CardsRepeat => rows' = "repeated")
  /\ UNCHANGED <<engine, database, roles, grants, schema, probe, job, reader, outcome, before>>

LoadData ==
  /\ job = Idle /\ rows # "none" /\ ToSet(Objects0001) \subseteq schema.objects
  /\ Store

(* _insert_loop: cp_worker inserts while the migration runs, unless the     *)
(* migration's transaction has locked the table.                            *)
InsertLoop ==
  /\ job.step = "compat" /\ HasArtifacts /\ Seen = schema
  /\ May("cp_worker", "insert", "price_observation")
  /\ Store

(* Somebody grants a role more than apply_grants does.                      *)
GrantByHand ==
  /\ job = Idle /\ database
  /\ \E g \in Drifts :
       /\ g.role \in roles /\ g.table \in schema.objects
       /\ grants' = grants \cup {g}
  /\ outcome' = "none"
  /\ UNCHANGED <<engine, database, roles, schema, rows, probe, job, reader, before>>
----------------------------------------------------------------------------
(* A slip: the repair is left out when the migration did not come to its table. *)
RepairsAfterTable(objects) ==
  IF "migration_probe" \notin objects THEN <<>>
  ELSE Drops(SelectSeq(<<"ix_observation_card_unique", "migration_probe", "review_item.triage_note">>,
                       LAMBDA o : o \in objects))

(* object_state, repair_partial *)
Repair(o, objects) == IF o \in objects THEN <<Drop(o)>> ELSE <<>>

Repairs(objects) ==
  Repair("ix_observation_card_unique", objects) \o Repair("migration_probe", objects)
  \o Repair("review_item.triage_note", objects)

(* What main() does when alembic has ended, whatever its return code.  It   *)
(* raises when a table it looks into is missing.                            *)
Continuation(s) ==
  CASE job.step = "downgrade" /\ "price_observation" \in s.objects ->
         Job("reupgrade", PathUp(s.revision, "0002"), s, TRUE)
    [] job.step = "failing" /\ {"price_observation", "review_item"} \subseteq s.objects ->
         Job("repair", Repairs(s.objects), s, TRUE)
    [] OTHER -> Idle

AlembicEnds(s) ==
  /\ schema' = s
  /\ grants' = GrantsLeft(s.objects)
  /\ job' = Continuation(s)
  /\ reader' = "off"
  /\ outcome' = IF job' = Idle /\ job.step \notin {"failing", "downgrade"}
                THEN job.step ELSE "none"
  /\ UNCHANGED <<engine, database, roles, rows, probe, before>>

(* One statement of a migration or of the repair.                           *)
Statement ==
  /\ job.step \in Alembic \cup {"repair"} /\ job.plan # <<>>
  /\ Accepted(Head(job.plan), Seen.objects, engine, CardsRepeat)
  /\ LET s == After(Head(job.plan), Seen)
     IN IF Transactional
        THEN /\ job' = [job EXCEPT !.plan = Tail(@), !.view = s]
             /\ UNCHANGED <<schema, grants>>
        ELSE /\ job' = [job EXCEPT !.plan = Tail(@)]
             /\ schema' = s
             /\ grants' = GrantsLeft(s.objects)
  /\ UNCHANGED <<engine, database, roles, rows, probe, reader, outcome, before>>

(* alembic ends well and commits, or a statement fails, because the         *)
(* database refuses it, its wait for a lock is over (run_alembic) or the    *)
(* connection is lost: PostgreSQL then rolls everything back, MariaDB keeps *)
(* what it has.                                                             *)
RunEnds ==
  /\ job.step \in Alembic /\ job.plan = <<>>
  /\ AlembicEnds(Seen)

RunFails ==
  /\ job.step \in Alembic /\ job.plan # <<>>
  /\ AlembicEnds(schema)

RepairEnds ==
  /\ job.step = "repair" /\ job.plan = <<>>
  /\ job' = Idle
  /\ outcome' = "failing"
  /\ UNCHANGED <<engine, database, roles, grants, schema, rows, probe, reader, before>>

(* A statement of bootstrap, each committed at once; the first error ends   *)
(* the command.                                                             *)
AdminStatement ==
  /\ job.step \in Admin /\ job.plan # <<>>
  /\ LET s == Head(job.plan)
     IN IF AdminAccepted(s)
        THEN AdminEffect(s) /\ job' = [job EXCEPT !.plan = Tail(@)]
        ELSE job' = Idle /\ UNCHANGED <<database, roles, grants, schema, rows, probe>>
  /\ UNCHANGED <<engine, reader, outcome, before>>

AdminEnds ==
  /\ job.step \in Admin /\ job.plan = <<>>
  /\ job' = Idle
  /\ outcome' = job.step
  /\ UNCHANGED <<engine, database, roles, grants, schema, rows, probe, reader, before>>

(* A slip: the result of the last attempt stands for all. *)
AttemptLastCounts ==
  /\ job.step = "check" /\ job.plan # <<>>
  /\ LET t == Head(job.plan)
     IN /\ job' = [job EXCEPT !.plan = Tail(@), !.ok = Allowed(t) = t.expected]
        /\ probe' = (probe \/ (Allowed(t) /\ t.right = "insert" /\ HasArtifacts))
        /\ schema' =
             IF ~Allowed(t) \/ t.table # "poc_role_probe" THEN schema
             ELSE After(IF t.right = "create" THEN Create(t.table) ELSE Drop(t.table), schema)
        /\ grants' = GrantsLeft(schema'.objects)
  /\ UNCHANGED <<engine, database, roles, rows, reader, outcome, before>>

(* _attempt: the statement is executed and committed when it is allowed.    *)
Attempt ==
  /\ job.step = "check" /\ job.plan # <<>>
  /\ LET t == Head(job.plan)
     IN /\ job' = [job EXCEPT !.plan = Tail(@), !.ok = @ /\ Allowed(t) = t.expected]
        /\ probe' = (probe \/ (Allowed(t) /\ t.right = "insert" /\ HasArtifacts))
        /\ schema' =
             IF ~Allowed(t) \/ t.table # "poc_role_probe" THEN schema
             ELSE After(IF t.right = "create" THEN Create(t.table) ELSE Drop(t.table), schema)
        /\ grants' = GrantsLeft(schema'.objects)
  /\ UNCHANGED <<engine, database, roles, rows, reader, outcome, before>>

(* The admin removes the probe row and the probe table; without review_item *)
(* the command ends with an error instead.                                  *)
CheckEnds ==
  /\ job.step = "check" /\ job.plan = <<>>
  /\ job' = Idle
  /\ IF "review_item" \in schema.objects
     THEN /\ probe' = FALSE
          /\ schema' = After(Drop("poc_role_probe"), schema)
          /\ outcome' = IF job.ok THEN "check passed" ELSE "check failed"
     ELSE UNCHANGED <<probe, schema, outcome>>
  /\ grants' = GrantsLeft(schema'.objects)
  /\ UNCHANGED <<engine, database, roles, rows, reader, before>>

(* The command is killed; the server rolls an open transaction back.        *)
Killed ==
  /\ job # Idle
  /\ job' = Idle
  /\ reader' = "off"
  /\ UNCHANGED <<engine, database, roles, grants, schema, rows, probe, outcome, before>>
----------------------------------------------------------------------------
Next ==
  \/ Reset \/ CreateRoles \/ ApplyGrants \/ SeedDimensions
  \/ Initial \/ Compat \/ Failing \/ DowngradeStep \/ CheckRoles
  \/ LoadData \/ InsertLoop \/ GrantByHand
  \/ Statement \/ RunEnds \/ RunFails \/ RepairEnds
  \/ AdminStatement \/ AdminEnds \/ Attempt \/ CheckEnds
  \/ Killed

Spec == Init /\ [][Next]_vars
----------------------------------------------------------------------------
Objects ==
  ToSet(Objects0001) \cup ToSet(Objects0002) \cup ToSet(Objects0003) \cup {"poc_role_probe"}

Schemas == [objects : SUBSET Objects, revision : ToSet(Revisions)]

(* Types of the database and of the command that runs (migrate.py,          *)
(* bootstrap.py, roles.py).                                                 *)
TypeOK ==
  /\ engine \in Engines
  /\ database \in BOOLEAN /\ probe \in BOOLEAN
  /\ roles \subseteq RuntimeRoles \cup {"cp_migration"}
  /\ \A g \in grants : g.role \in roles /\ g.table \in Tables \cup {"*"}
  /\ schema.objects \subseteq Objects /\ schema.revision \in ToSet(Revisions)
  /\ rows \in {"none", "seeded", "unique", "repeated"}
  /\ job.step \in Alembic \cup Admin \cup {"idle", "repair", "check"}
  /\ job.view.objects \subseteq Objects /\ job.ok \in BOOLEAN
  /\ reader \in {"off", "reading", "refused"}

(* On PostgreSQL the recorded revision says what the schema is, whenever    *)
(* and wherever a command is killed or fails (env.py, one transaction); the *)
(* repair after 0003 succeeded on cards seen once is the only exception.    *)
RevisionTellsSchema ==
  engine = "postgres" =>
    IF schema.revision = "0003"
    THEN ObjectsAt("0002") \subseteq schema.objects
    ELSE schema.objects \ {"poc_role_probe"} = ObjectsAt(schema.revision)

(* The failing step, run to its end, leaves nothing of 0003 and takes       *)
(* nothing else away, whatever killed attempts before it left               *)
(* (repair_partial).                                                        *)
FailingStepCleansUp ==
  outcome = "failing" =>
    /\ schema.objects \cap ToSet(Objects0003) = {}
    /\ before.objects \ ToSet(Objects0003) \subseteq schema.objects

(* "a change that old queries can survive" (0002): a reader that was        *)
(* answered before the migration began is answered all along.               *)
OldQueriesSurvive == job.step = "compat" /\ reader = "reading" => CanRead

(* On PostgreSQL apply_grants, run to its end, leaves exactly the grants it *)
(* names, whatever was granted by hand or left by a killed run before.      *)
GrantsExact ==
  engine = "postgres" /\ outcome = "grants" => 
    {g \in grants : g.table # "*"} = Intended(SchemaTables(schema))

(* A role check that passes found the privileges as they should be, except  *)
(* that its row keeps it from seeing a backup role that may insert; one     *)
(* that fails found a privilege wrong, or the remains of a killed check     *)
(* (check_roles).                                                           *)
RoleCheckHonest ==
  LET Right(t) == t.table \in schema.objects \cup {"poc_role_probe"} /\ Entitled(t) = t.expected
      Masked(t) == HasArtifacts /\ t.role = "cp_backup" /\ t.right = "insert"
      tries == ToSet(Expectations)
  IN /\ outcome = "check passed" => \A t \in tries : Right(t) \/ Masked(t)
     /\ outcome = "check failed" =>
          \/ \E t \in tries : ~Right(t)
          \/ before.probe \/ "poc_role_probe" \in before.objects
=============================================================================
