-------------------------- MODULE MigrationsProofs --------------------------
(***************************************************************************)
(* What a schema's revision tells, what the failing step leaves, what a    *)
(* reader sees of the compatible step, what apply_grants grants and what   *)
(* the role check's verdict is worth, for both products and for any grants *)
(* given by hand.  A running command is a list of statements, so each      *)
(* invariant says what the statements that are left will do to what is     *)
(* there.                                                                  *)
(***************************************************************************)
EXTENDS Migrations, SequenceTheorems, TLAPS

(* Every object a migration names.                                         *)
Names ==
  {"card_identity", "ix_card_identity_normalized_name", "shop", "source",
   "card_external_reference", "ingest_run", "ix_ingest_run_source_started", "raw_artifact",
   "ix_raw_artifact_fetched_at", "processing_run", "extracted_record",
   "ix_extracted_record_artifact", "ix_extracted_record_processing_run",
   "observation_candidate", "identity_resolution_attempt", "ix_attempt_candidate",
   "price_observation", "ix_observation_candidate", "ix_observation_card_observed",
   "ix_observation_card_shop_observed", "ix_observation_collected_at",
   "price_observation_correction", "ix_correction_observation", "review_item",
   "ix_review_state_priority", "price_observation.freshness_note",
   "ix_observation_shop_observed", "price_alert_rule", "review_item.triage_note",
   "migration_probe", "ix_observation_card_unique"}

(* The objects that statements of one kind name in a plan.                 *)
Named(kind, plan) == {s.of : s \in {t \in ToSet(plan) : t.do = kind}}

(* The plan only creates.                                                  *)
Upward(plan) == \A s \in ToSet(plan) : s.do \in {"create", "stamp"}
(* The plan only drops.                                                    *)
Downward(plan) == \A s \in ToSet(plan) : s.do \in {"drop", "stamp"}

(* What a schema is that its revision tells (RevisionTellsSchema).         *)
Good(s) ==
  IF s.revision = "0003" THEN ObjectsAt("0002") \subseteq s.objects
  ELSE s.objects \ {"poc_role_probe"} = ObjectsAt(s.revision)

(* A plan, executed to its end from a schema, leaves such a schema.        *)
EndsGood(plan, s) ==
  IF plan = <<>> THEN Good(s)
  ELSE LET last == plan[Len(plan)]
       IN /\ last.do = "stamp"
          /\ \/ Upward(plan) /\ Good([objects |-> s.objects \cup Named("create", plan),
                                      revision |-> last.of])
             \/ Downward(plan) /\ Good([objects |-> s.objects \ Named("drop", plan),
                                        revision |-> last.of])

(* The statements of the migrations and of the repair.                     *)
Statements == [do : {"create", "drop"}, of : Objects] \cup [do : {"stamp"}, of : ToSet(Revisions)]
(* What a statement of bootstrap may grant.                                *)
Grants == [role : RuntimeRoles \cup {"cp_migration"}, right : Rights \cup {"all"},
           table : Tables \cup {"*"}]
(* The statements of bootstrap.                                            *)
AdminStatements ==
  [do : {"dropdb", "createdb", "revoke"}]
  \cup [do : {"role"}, of : RuntimeRoles \cup {"cp_migration"}]
  \cup [do : {"grant"}, of : SUBSET Grants]
  \cup [do : {"grantall"}, of : SUBSET (RuntimeRoles \X Rights)]
(* What the role check tries.                                              *)
Attempts ==
  [role : RuntimeRoles \cup {"cp_migration"}, right : Rights \cup {"create", "drop"},
   table : Tables, expected : BOOLEAN]

(* The job that runs, and its plan, are of one kind.                       *)
Planned ==
  /\ schema \in Schemas
  /\ job = Job(job.step, job.plan, job.view, job.ok)
  /\ job.view \in Schemas
  /\ job.step \in Alembic \cup {"repair"} => job.plan \in Seq(Statements)
  /\ job.step \in Admin => job.plan \in Seq(AdminStatements)
  /\ job.step = "check" => job.plan \in Seq(Attempts)
  /\ job.step = "idle" => job = Idle
  /\ outcome # "none" => job = Idle

(* On PostgreSQL the revision tells the committed schema, and what         *)
(* alembic still has to do ends at such a schema. A repair has nothing to  *)
(* do unless 0003 is committed.                                            *)
Told ==
  engine = "postgres" =>
    /\ Good(schema)
    /\ job.step \in Alembic => EndsGood(job.plan, job.view)
    /\ job.step = "repair" /\ schema.revision # "0003" => job.plan = <<>>

(* The failing step has lost nothing and only creates; the repair still    *)
(* drops whatever is left of 0003, and nothing else.                       *)
Repaired ==
  /\ job.step = "failing" =>
       /\ Upward(job.plan)
       /\ before.objects \subseteq schema.objects \cap Seen.objects
  /\ job.step = "repair" =>
       /\ \A s \in ToSet(job.plan) : s.do = "drop" /\ s.of \in ToSet(Objects0003)
       /\ schema.objects \cap ToSet(Objects0003) \subseteq Named("drop", job.plan)
       /\ before.objects \ ToSet(Objects0003) \subseteq schema.objects
  /\ FailingStepCleansUp

(* The compatible step only creates.                                       *)
Answered ==
  /\ job.step = "compat" => Upward(job.plan)
  /\ OldQueriesSurvive

(* What the statements of apply_grants still add.                          *)
ToGive == UNION {Gives(s) : s \in ToSet(job.plan)}
(* The grants on tables, not on the database.                              *)
OnTables(gs) == {g \in gs : g.table # "*"}

(* While apply_grants runs on PostgreSQL, what is granted and what its     *)
(* statements still add make up the grants it names; before its REVOKE     *)
(* its statements alone do.                                                *)
Granted ==
  engine = "postgres" =>
    /\ job.step = "grants" =>
         /\ job.plan # <<>> =>
              /\ Head(job.plan).do \in {"revoke", "grant", "grantall"}
              /\ \A s \in ToSet(Tail(job.plan)) : s.do \in {"grant", "grantall"}
         /\ \A g \in ToGive : g.table # "*"
         /\ IF job.plan # <<>> /\ Head(job.plan).do = "revoke"
            THEN ToGive = Intended(SchemaTables(schema))
            ELSE OnTables(grants) \cup ToGive = Intended(SchemaTables(schema))
    /\ outcome = "grants" => OnTables(grants) = Intended(SchemaTables(schema))

(* No statement of a plan drops the artifacts, and none creates the        *)
(* observations before the artifacts are there.                            *)
ArtifactsFirst(plan, objects) ==
  /\ \A j \in DOMAIN plan : plan[j] # Drop("raw_artifact")
  /\ \A j \in DOMAIN plan : plan[j] = Create("price_observation") =>
       "raw_artifact" \in objects \/ \E i \in 1 .. j - 1 : plan[i] = Create("raw_artifact")

(* Where there are observations, there is a table of artifacts.            *)
Ordered ==
  /\ "price_observation" \in schema.objects => "raw_artifact" \in schema.objects
  /\ engine = "mariadb" /\ job.step \in Alembic \cup {"repair"} =>
       ArtifactsFirst(job.plan, schema.objects)

(* On PostgreSQL every grant is on a table that is there, or on all.       *)
GrantsPlaced ==
  engine = "postgres" => \A g \in grants : g.table \in schema.objects \cup {"*"}

(* How many of its attempts the role check has made.                       *)
Done == Len(Expectations) - Len(job.plan)

(* A privilege that is as it should be.                                    *)
Proper(t) == t.table \in schema.objects \cup {"poc_role_probe"} /\ (Entitled(t) <=> t.expected)
(* An attempt that the check's own row refuses.                            *)
Masked(t) == HasArtifacts /\ t.role = "cp_backup" /\ t.right = "insert"

(* The remains of a check that was killed.                                 *)
Remains == before.probe \/ "poc_role_probe" \in before.objects

(* An attempt finds what it needs, but for the check's own row and table.  *)
Finds(t) ==
  /\ t.right = "create" => "poc_role_probe" \notin before.objects
  /\ t.right \notin {"create", "drop"} => t.table \in schema.objects
  /\ t.right = "insert" => "raw_artifact" \in schema.objects /\ ~(before.probe /\ HasArtifacts)

(* It ended as it should.                                                  *)
AsExpected(t) ==
  /\ t.expected => Entitled(t) /\ Finds(t)
  /\ ~t.expected => ~(Entitled(t) /\ Finds(t))

(* As long as every attempt ended as it should, the check has left no more *)
(* than it should, and the privileges are the right ones; otherwise one is *)
(* wrong, or something remained of another check.                          *)
Checking ==
  job.step = "check" =>
    /\ Len(job.plan) <= Len(Expectations)
    /\ \A i \in 1 .. Len(job.plan) : job.plan[i] = Expectations[Done + i]
    /\ job.ok =>
         /\ Done < 6 => (probe <=> before.probe)
         /\ Done < 13 =>
              ("poc_role_probe" \in schema.objects <=> "poc_role_probe" \in before.objects)
         /\ Done = 13 => "poc_role_probe" \in schema.objects
         /\ \A i \in 1 .. Done : AsExpected(Expectations[i]) \/ Masked(Expectations[i])
    /\ ~job.ok => Remains \/ \E i \in 1 .. Len(Expectations) : ~Proper(Expectations[i])

(* The verdict of the last check.                                          *)
Verdict ==
  /\ outcome = "check passed" =>
       \A i \in 1 .. Len(Expectations) : Proper(Expectations[i]) \/ Masked(Expectations[i])
  /\ outcome = "check failed" =>
       Remains \/ \E i \in 1 .. Len(Expectations) : ~Proper(Expectations[i])

(* The inductive invariant.                                                *)
IInv ==
  /\ TypeOK
  /\ Planned
  /\ Told
  /\ Repaired
  /\ Answered
  /\ Granted
  /\ Ordered
  /\ GrantsPlaced
  /\ Checking
  /\ Verdict

(* A plan that goes up by some objects and ends at a revision.             *)
UpPlan(plan, objects, r) ==
  /\ plan \in Seq(Statements) /\ plan # <<>>
  /\ Upward(plan) /\ Named("create", plan) = objects
  /\ plan[Len(plan)] = Stamp(r)

(* A plan that goes down by some objects and ends at a revision.           *)
DownPlan(plan, objects, r) ==
  /\ plan \in Seq(Statements) /\ plan # <<>>
  /\ Downward(plan) /\ Named("drop", plan) = objects
  /\ plan[Len(plan)] = Stamp(r)
----------------------------------------------------------------------------
(* The elements and the last element of a concatenation.                   *)
LEMMA ToSetConcat ==
  ASSUME NEW S, NEW p \in Seq(S), NEW q \in Seq(S)
  PROVE  /\ p \o q \in Seq(S)
         /\ ToSet(p \o q) = ToSet(p) \cup ToSet(q)
         /\ Len(p \o q) = Len(p) + Len(q)
         /\ q # <<>> => p \o q # <<>> /\ (p \o q)[Len(p \o q)] = q[Len(q)]
<1>1. /\ p \o q \in Seq(S)
      /\ Len(p \o q) = Len(p) + Len(q)
      /\ \A i \in 1 .. Len(p) + Len(q) :
           (p \o q)[i] = IF i <= Len(p) THEN p[i] ELSE q[i - Len(p)]
  BY ConcatProperties
<1>2. ASSUME NEW x \in ToSet(p \o q) PROVE x \in ToSet(p) \cup ToSet(q)
  BY <1>1 DEF ToSet
<1>3. ASSUME NEW x \in ToSet(p) PROVE x \in ToSet(p \o q)
  BY <1>1 DEF ToSet
<1>4. ASSUME NEW x \in ToSet(q) PROVE x \in ToSet(p \o q)
  <2>1. PICK i \in 1 .. Len(q) : q[i] = x
    BY DEF ToSet
  <2>2. Len(p) + i \in 1 .. Len(p) + Len(q) /\ ~(Len(p) + i <= Len(p)) /\ (Len(p) + i) - Len(p) = i
    BY <2>1
  <2>3. (p \o q)[Len(p) + i] = x
    BY <1>1, <2>1, <2>2
  <2>4. Len(p) + i \in DOMAIN (p \o q)
    BY <1>1, <2>2
  <2> QED  BY <2>3, <2>4 DEF ToSet
<1>5. ASSUME q # <<>> PROVE p \o q # <<>> /\ (p \o q)[Len(p \o q)] = q[Len(q)]
  <2>1. Len(q) \in Nat \ {0} /\ Len(p) \in Nat
    BY <1>5, EmptySeq
  <2>2. Len(p \o q) \in 1 .. Len(p) + Len(q) /\ ~(Len(p \o q) <= Len(p))
        /\ Len(p \o q) - Len(p) = Len(q)
    BY <1>1, <2>1
  <2> QED  BY <1>1, <2>2
<1> QED  BY <1>1, <1>2, <1>3, <1>4, <1>5

(* The elements and the last element of a tail.                            *)
LEMMA ToSetTail ==
  ASSUME NEW S, NEW p \in Seq(S), p # <<>>
  PROVE  /\ Head(p) \in S /\ Tail(p) \in Seq(S)
         /\ ToSet(p) = {Head(p)} \cup ToSet(Tail(p))
         /\ Tail(p) # <<>> => Tail(p)[Len(Tail(p))] = p[Len(p)]
         /\ Tail(p) = <<>> => p[Len(p)] = Head(p) /\ ToSet(p) = {Head(p)}
<1>1. /\ Head(p) \in S /\ Tail(p) \in Seq(S) /\ Len(p) \in Nat \ {0}
      /\ Len(Tail(p)) = Len(p) - 1 /\ Head(p) = p[1]
      /\ \A i \in 1 .. Len(Tail(p)) : Tail(p)[i] = p[i + 1]
  BY HeadTailProperties, EmptySeq
<1>2. ASSUME NEW x \in ToSet(p) PROVE x \in {Head(p)} \cup ToSet(Tail(p))
  <2>1. PICK i \in 1 .. Len(p) : p[i] = x
    BY DEF ToSet
  <2>2. i = 1 \/ (i - 1 \in 1 .. Len(Tail(p)) /\ (i - 1) + 1 = i)
    BY <1>1
  <2>3. i # 1 => Tail(p)[i - 1] = x /\ i - 1 \in DOMAIN Tail(p)
    BY <1>1, <2>1, <2>2
  <2>4. i # 1 => x \in ToSet(Tail(p))
    BY <2>3 DEF ToSet
  <2> QED  BY <1>1, <2>1, <2>4
<1>3. ASSUME NEW x \in ToSet(Tail(p)) PROVE x \in ToSet(p)
  BY <1>1 DEF ToSet
<1>4. Head(p) \in ToSet(p)
  BY <1>1 DEF ToSet
<1>5. Tail(p) # <<>> => Tail(p)[Len(Tail(p))] = p[Len(p)]
  <2>1. Tail(p) # <<>> => Len(Tail(p)) \in 1 .. Len(Tail(p)) /\ Len(Tail(p)) + 1 = Len(p)
    BY <1>1, EmptySeq
  <2> QED  BY <1>1, <2>1
<1>6. Tail(p) = <<>> => Len(p) = 1 /\ ToSet(Tail(p)) = {}
  <2> SUFFICES ASSUME Tail(p) = <<>> PROVE Len(p) = 1 /\ ToSet(Tail(p)) = {}
    OBVIOUS
  <2>1. Len(Tail(p)) = 0
    BY EmptySeq
  <2>2. Len(p) = 1
    <3>1. PICK n \in Nat : n = Len(p)
      BY <1>1
    <3>2. Len(Tail(p)) = n - 1
      BY <1>1, <3>1
    <3> QED  BY <2>1, <3>1, <3>2
  <2>3. 1 .. Len(Tail(p)) = {}
    BY <2>1
  <2>4. DOMAIN Tail(p) = {}
    BY <1>1, <2>3
  <2> QED  BY <2>2, <2>4 DEF ToSet
<1> QED  BY <1>1, <1>2, <1>3, <1>4, <1>5, <1>6

(* The elements and the last element of an append.                         *)
LEMMA ToSetAppend ==
  ASSUME NEW S, NEW p \in Seq(S), NEW x \in S
  PROVE  /\ Append(p, x) \in Seq(S) /\ Append(p, x) # <<>>
         /\ ToSet(Append(p, x)) = ToSet(p) \cup {x}
         /\ Append(p, x)[Len(Append(p, x))] = x
<1>1. /\ Append(p, x) \in Seq(S) /\ Append(p, x) # <<>>
      /\ Len(Append(p, x)) = Len(p) + 1 /\ Len(p) \in Nat
      /\ \A i \in 1 .. Len(p) : Append(p, x)[i] = p[i]
      /\ Append(p, x)[Len(p) + 1] = x
  BY AppendProperties
<1>2. ASSUME NEW y \in ToSet(Append(p, x)) PROVE y \in ToSet(p) \cup {x}
  <2>1. PICK i \in 1 .. Len(p) + 1 : Append(p, x)[i] = y
    BY <1>1 DEF ToSet
  <2>2. i \in 1 .. Len(p) \/ i = Len(p) + 1
    BY <1>1
  <2> QED  BY <1>1, <2>1, <2>2 DEF ToSet
<1>3. ASSUME NEW y \in ToSet(p) PROVE y \in ToSet(Append(p, x))
  <2>1. PICK i \in 1 .. Len(p) : p[i] = y
    BY DEF ToSet
  <2>2. i \in DOMAIN Append(p, x) /\ Append(p, x)[i] = y
    BY <1>1, <2>1
  <2> QED  BY <2>2 DEF ToSet
<1>4. x \in ToSet(Append(p, x))
  <2>1. Len(p) + 1 \in DOMAIN Append(p, x)
    BY <1>1
  <2> QED  BY <1>1, <2>1 DEF ToSet
<1> QED  BY <1>1, <1>2, <1>3, <1>4

(* The migrations name different objects (0001, 0002, 0003).               *)
LEMMA ObjectsApart ==
  /\ Objects0001 \in Seq(Names) /\ Objects0002 \in Seq(Names) /\ Objects0003 \in Seq(Names)
  /\ ToSet(Objects0001) \cap ToSet(Objects0002) = {}
  /\ ToSet(Objects0001) \cap ToSet(Objects0003) = {}
  /\ ToSet(Objects0002) \cap ToSet(Objects0003) = {}
  /\ "poc_role_probe" \notin ToSet(Objects0001) \cup ToSet(Objects0002) \cup ToSet(Objects0003)
  /\ {"price_observation", "review_item", "raw_artifact"} \subseteq ToSet(Objects0001)
<1>1. CatalogObjects \in Seq(Names)
  BY DEF CatalogObjects, Names
<1>2. RunObjects \in Seq(Names)
  BY DEF RunObjects, Names
<1>3a. ProcessingObjects \in Seq(Names)
  BY DEF ProcessingObjects, Names
<1>3b. ObservationObjects \in Seq(Names)
  BY DEF ObservationObjects, Names
<1>3c. ReviewObjects \in Seq(Names) /\ Objects0002 \in Seq(Names) /\ Objects0003 \in Seq(Names)
  BY DEF ReviewObjects, Objects0002, Objects0003, Names
<1>3. /\ Objects0001 \in Seq(Names)
      /\ ToSet(Objects0001) = ToSet(CatalogObjects) \cup ToSet(RunObjects)
           \cup ToSet(ProcessingObjects) \cup ToSet(ObservationObjects) \cup ToSet(ReviewObjects)
  <2> DEFINE two == CatalogObjects \o RunObjects
             three == two \o ProcessingObjects
             four == three \o ObservationObjects
  <2>1. two \in Seq(Names) /\ ToSet(two) = ToSet(CatalogObjects) \cup ToSet(RunObjects)
    BY <1>1, <1>2, ToSetConcat
  <2> HIDE DEF two
  <2>2. three \in Seq(Names) /\ ToSet(three) = ToSet(two) \cup ToSet(ProcessingObjects)
    BY <2>1, <1>3a, ToSetConcat
  <2> HIDE DEF three
  <2>3. four \in Seq(Names) /\ ToSet(four) = ToSet(three) \cup ToSet(ObservationObjects)
    BY <2>2, <1>3b, ToSetConcat
  <2> HIDE DEF four
  <2>4. four \o ReviewObjects \in Seq(Names)
        /\ ToSet(four \o ReviewObjects) = ToSet(four) \cup ToSet(ReviewObjects)
    BY <2>3, <1>3c, ToSetConcat
  <2>5. Objects0001 = four \o ReviewObjects
    BY DEF Objects0001, four, three, two
  <2> QED  BY <2>1, <2>2, <2>3, <2>4, <2>5
<1>4. ToSet(CatalogObjects) =
        {"card_identity", "ix_card_identity_normalized_name", "shop", "source",
         "card_external_reference"}
  BY DEF CatalogObjects, ToSet
<1>5. ToSet(RunObjects) =
        {"ingest_run", "ix_ingest_run_source_started", "raw_artifact",
         "ix_raw_artifact_fetched_at"}
  BY DEF RunObjects, ToSet
<1>6. ToSet(ProcessingObjects) =
        {"processing_run", "extracted_record", "ix_extracted_record_artifact",
         "ix_extracted_record_processing_run", "observation_candidate",
         "identity_resolution_attempt", "ix_attempt_candidate"}
  BY DEF ProcessingObjects, ToSet
<1>7. ToSet(ObservationObjects) =
        {"price_observation", "ix_observation_candidate", "ix_observation_card_observed",
         "ix_observation_card_shop_observed", "ix_observation_collected_at",
         "price_observation_correction", "ix_correction_observation"}
  BY DEF ObservationObjects, ToSet
<1>8. /\ ToSet(ReviewObjects) = {"review_item", "ix_review_state_priority"}
      /\ ToSet(Objects0002) =
           {"price_observation.freshness_note", "ix_observation_shop_observed", "price_alert_rule"}
      /\ ToSet(Objects0003) =
           {"review_item.triage_note", "migration_probe", "ix_observation_card_unique"}
  BY DEF ReviewObjects, Objects0002, Objects0003, ToSet
<1> QED  BY <1>3c, <1>3, <1>4, <1>5, <1>6, <1>7, <1>8

(* The order of the revisions.                                             *)
LEMMA Levels ==
  /\ Level("none") = 1 /\ Level("0001") = 2 /\ Level("0002") = 3 /\ Level("0003") = 4
  /\ ToSet(Revisions) = {"none", "0001", "0002", "0003"}
  /\ Before("0002") = "0001" /\ Before("0003") = "0002"
<1>1. /\ DOMAIN Revisions = 1 .. 4 
      /\ Revisions[1] = "none" /\ Revisions[2] = "0001"
      /\ Revisions[3] = "0002" /\ Revisions[4] = "0003"
  BY DEF Revisions
<1>2. Level("none") = 1 /\ Level("0001") = 2 /\ Level("0002") = 3 /\ Level("0003") = 4
  <2>1. \A r, i : i \in 1 .. 4 /\ Revisions[i] = r => Level(r) \in 1 .. 4 /\ Revisions[Level(r)] = r
    BY <1>1 DEF Level
  <2> QED  BY <1>1, <2>1
<1> QED  BY <1>1, <1>2 DEF Before, ToSet

(* What a schema consists of at a revision, without the definition.        *)
LEMMA ObjectsAtLevels ==
  /\ ObjectsAt("none") = {}
  /\ ObjectsAt("0001") = ToSet(Objects0001)
  /\ ObjectsAt("0002") = ToSet(Objects0001) \cup ToSet(Objects0002)
BY Levels DEF ObjectsAt
----------------------------------------------------------------------------
(* What a statement leaves.                                                *)
LEMMA AfterStatement ==
  ASSUME NEW v \in Schemas, NEW s \in Statements
  PROVE  /\ After(s, v) \in Schemas
         /\ s.do \in {"create", "drop", "stamp"}
         /\ s.do = "create" => After(s, v) = [objects |-> v.objects \cup {s.of}, revision |-> v.revision]
         /\ s.do = "drop" => After(s, v) = [objects |-> v.objects \ {s.of}, revision |-> v.revision]
         /\ s.do = "stamp" => After(s, v) = [objects |-> v.objects, revision |-> s.of]
<1>1. s.do \in {"create", "drop", "stamp"}
  BY DEF Statements
<1>2. v.objects \subseteq Objects /\ v.revision \in ToSet(Revisions)
      /\ v = [objects |-> v.objects, revision |-> v.revision]
  BY DEF Schemas
<1>3. ASSUME s.do = "create" PROVE After(s, v) = [objects |-> v.objects \cup {s.of}, revision |-> v.revision]
  <2>1. After(s, v) = [v EXCEPT !.objects = @ \cup {s.of}]
    BY <1>3 DEF After
  <2> QED  BY <1>2, <2>1
<1>4. ASSUME s.do = "drop" PROVE After(s, v) = [objects |-> v.objects \ {s.of}, revision |-> v.revision]
  <2>1. After(s, v) = [v EXCEPT !.objects = @ \ {s.of}]
    BY <1>4 DEF After
  <2> QED  BY <1>2, <2>1
<1>5. ASSUME s.do = "stamp" PROVE After(s, v) = [objects |-> v.objects, revision |-> s.of]
  <2>1. After(s, v) = [v EXCEPT !.revision = s.of]
    BY <1>5 DEF After
  <2> QED  BY <1>2, <2>1
<1>6. /\ s.do \in {"create", "drop"} => s.of \in Objects
      /\ s.do = "stamp" => s.of \in ToSet(Revisions)
  BY DEF Statements
<1>7. After(s, v) \in Schemas
  BY <1>1, <1>2, <1>3, <1>4, <1>5, <1>6 DEF Schemas
<1> QED  BY <1>1, <1>3, <1>4, <1>5, <1>7

(* The statements for a list of objects.                                   *)
LEMMA StatementsOf ==
  ASSUME NEW os \in Seq(Names), ToSet(os) \subseteq Objects
  PROVE  /\ Creates(os) \in Seq(Statements) /\ Drops(os) \in Seq(Statements)
         /\ ToSet(Creates(os)) = {Create(o) : o \in ToSet(os)}
         /\ ToSet(Drops(os)) = {Drop(o) : o \in ToSet(os)}
<1>1. DOMAIN os = 1 .. Len(os) /\ Len(os) \in Nat
  OBVIOUS
<1>2. \A i \in 1 .. Len(os) : Create(os[i]) \in Statements /\ Drop(os[i]) \in Statements
  BY DEF ToSet, Create, Drop, Statements
<1>3. Creates(os) \in Seq(Statements) /\ Drops(os) \in Seq(Statements)
  BY <1>1, <1>2 DEF Creates, Drops
<1>4. ToSet(Creates(os)) = {Create(o) : o \in ToSet(os)}
  BY DEF ToSet, Creates
<1>5. ToSet(Drops(os)) = {Drop(o) : o \in ToSet(os)}
  BY DEF ToSet, Drops
<1> QED  BY <1>3, <1>4, <1>5

(* A reversed sequence has the same elements.                              *)
LEMMA ReverseKeeps ==
  ASSUME NEW S, NEW p \in Seq(S)
  PROVE  Reverse(p) \in Seq(S) /\ ToSet(Reverse(p)) = ToSet(p)
<1>1. DOMAIN p = 1 .. Len(p) /\ Len(p) \in Nat /\ DOMAIN Reverse(p) = 1 .. Len(p)
  BY DEF Reverse
<1>2. \A i \in 1 .. Len(p) : (Len(p) - i) + 1 \in 1 .. Len(p) /\ Reverse(p)[i] = p[(Len(p) - i) + 1]
  BY <1>1 DEF Reverse
<1>3. Reverse(p) \in Seq(S)
  BY <1>1, <1>2 DEF Reverse
<1>4. ASSUME NEW x \in ToSet(Reverse(p)) PROVE x \in ToSet(p)
  BY <1>1, <1>2 DEF ToSet
<1>5. ASSUME NEW x \in ToSet(p) PROVE x \in ToSet(Reverse(p))
  <2>1. PICK i \in 1 .. Len(p) : p[i] = x
    BY DEF ToSet
  <2>2. PICK j \in 1 .. Len(p) : j = (Len(p) - i) + 1
    BY <1>1
  <2>3. (Len(p) - j) + 1 = i
    BY <1>1, <2>2
  <2>4. Reverse(p)[j] = x
    BY <1>2, <2>1, <2>3
  <2> QED  BY <1>1, <2>4 DEF ToSet
<1> QED  BY <1>3, <1>4, <1>5

(* A stamp is a statement.                                                 *)
LEMMA Stamping == \A r \in ToSet(Revisions) : Stamp(r) \in Statements
BY DEF Stamp, Statements

(* One migration, upward, and its stamp.                                   *)
LEMMA UpwardBlock ==
  ASSUME NEW os \in Seq(Names), ToSet(os) \subseteq Objects, NEW r \in ToSet(Revisions)
  PROVE  UpPlan(Append(Creates(os), Stamp(r)), ToSet(os), r)
<1> DEFINE plan == Append(Creates(os), Stamp(r))
<1>1. /\ plan \in Seq(Statements) /\ plan # <<>>
      /\ ToSet(plan) = ToSet(Creates(os)) \cup {Stamp(r)}
      /\ plan[Len(plan)] = Stamp(r)
  BY StatementsOf, Stamping, ToSetAppend
<1>2. ToSet(Creates(os)) = {Create(o) : o \in ToSet(os)}
  BY StatementsOf
<1> HIDE DEF plan
<1>3. Upward(plan)
  BY <1>1, <1>2 DEF Upward, Create, Stamp
<1>4. Named("create", plan) = ToSet(os)
  <2>1. \A s \in ToSet(plan) : s.do = "create" => s.of \in ToSet(os)
    BY <1>1, <1>2 DEF Create, Stamp
  <2>2. \A o \in ToSet(os) : \E s \in ToSet(plan) : s.do = "create" /\ s.of = o
    <3> SUFFICES ASSUME NEW o \in ToSet(os)
                 PROVE  \E s \in ToSet(plan) : s.do = "create" /\ s.of = o
      OBVIOUS
    <3>1. Create(o) \in ToSet(plan)
      BY <1>1, <1>2
    <3>2. Create(o).do = "create" /\ Create(o).of = o
      BY DEF Create
    <3> QED  BY <3>1, <3>2
  <2> QED  BY <2>1, <2>2 DEF Named
<1>5. UpPlan(plan, ToSet(os), r)
  BY <1>1, <1>3, <1>4 DEF UpPlan
<1> QED  BY <1>5 DEF plan

(* One migration, downward, and its stamp.                                 *)
LEMMA DownwardBlock ==
  ASSUME NEW os \in Seq(Names), ToSet(os) \subseteq Objects, NEW r \in ToSet(Revisions)
  PROVE  DownPlan(Append(Drops(Reverse(os)), Stamp(r)), ToSet(os), r)
<1> DEFINE back == Reverse(os)
           plan == Append(Drops(back), Stamp(r))
<1>1. back \in Seq(Names) /\ ToSet(back) = ToSet(os)
  BY ReverseKeeps
<1> HIDE DEF back
<1>2. Drops(back) \in Seq(Statements) /\ ToSet(Drops(back)) = {Drop(o) : o \in ToSet(os)}
  BY <1>1, StatementsOf
<1>3. /\ plan \in Seq(Statements) /\ plan # <<>>
      /\ ToSet(plan) = ToSet(Drops(back)) \cup {Stamp(r)}
      /\ plan[Len(plan)] = Stamp(r)
  BY <1>2, Stamping, ToSetAppend
<1> HIDE DEF plan
<1>4. Downward(plan)
  BY <1>2, <1>3 DEF Downward, Drop, Stamp
<1>5. Named("drop", plan) = ToSet(os)
  <2>1. \A s \in ToSet(plan) : s.do = "drop" => s.of \in ToSet(os)
    BY <1>2, <1>3 DEF Drop, Stamp
  <2>2. \A o \in ToSet(os) : \E s \in ToSet(plan) : s.do = "drop" /\ s.of = o
    <3> SUFFICES ASSUME NEW o \in ToSet(os)
                 PROVE  \E s \in ToSet(plan) : s.do = "drop" /\ s.of = o
      OBVIOUS
    <3>1. Drop(o) \in ToSet(plan)
      BY <1>2, <1>3
    <3>2. Drop(o).do = "drop" /\ Drop(o).of = o
      BY DEF Drop
    <3> QED  BY <3>1, <3>2
  <2> QED  BY <2>1, <2>2 DEF Named
<1>6. DownPlan(plan, ToSet(os), r)
  BY <1>3, <1>4, <1>5 DEF DownPlan
<1> QED  BY <1>6 DEF plan, back

(* Two upward plans one after the other.                                   *)
LEMMA UpPlans ==
  ASSUME NEW p, NEW q, NEW O, NEW P, NEW r, NEW t, UpPlan(p, O, r), UpPlan(q, P, t)
  PROVE  UpPlan(p \o q, O \cup P, t)
<1>1. p \in Seq(Statements) /\ q \in Seq(Statements) /\ q # <<>>
  BY DEF UpPlan
<1>2. PICK pq : pq = p \o q
  OBVIOUS
<1>3. /\ pq \in Seq(Statements) /\ pq # <<>> /\ ToSet(pq) = ToSet(p) \cup ToSet(q)
      /\ pq[Len(pq)] = q[Len(q)]
  BY <1>1, <1>2, ToSetConcat
<1>4. Upward(pq) /\ Named("create", pq) = O \cup P
  BY <1>3 DEF UpPlan, Upward, Named
<1> QED  BY <1>2, <1>3, <1>4 DEF UpPlan

(* Two downward plans one after the other.                                 *)
LEMMA DownPlans ==
  ASSUME NEW p, NEW q, NEW O, NEW P, NEW r, NEW t, DownPlan(p, O, r), DownPlan(q, P, t)
  PROVE  DownPlan(p \o q, O \cup P, t)
<1>1. p \in Seq(Statements) /\ q \in Seq(Statements) /\ q # <<>>
  BY DEF DownPlan
<1>2. PICK pq : pq = p \o q
  OBVIOUS
<1>3. /\ pq \in Seq(Statements) /\ pq # <<>> /\ ToSet(pq) = ToSet(p) \cup ToSet(q)
      /\ pq[Len(pq)] = q[Len(q)]
  BY <1>1, <1>2, ToSetConcat
<1>4. Downward(pq) /\ Named("drop", pq) = O \cup P
  BY <1>3 DEF DownPlan, Downward, Named
<1> QED  BY <1>2, <1>3, <1>4 DEF DownPlan

----------------------------------------------------------------------------
(* Every object belongs to a migration or to the role check.               *)
LEMMA ObjectsAreNamed ==
  /\ Objects = ToSet(Objects0001) \cup ToSet(Objects0002) \cup ToSet(Objects0003) \cup {"poc_role_probe"}
  /\ ToSet(Objects0001) \subseteq Objects /\ ToSet(Objects0002) \subseteq Objects
  /\ ToSet(Objects0003) \subseteq Objects
BY DEF Objects

(* The migrations are such plans.                                          *)
LEMMA Blocks ==
  /\ UpPlan(Append(Upgrade["0001"], Stamp("0001")), ToSet(Objects0001), "0001")
  /\ UpPlan(Append(Upgrade["0002"], Stamp("0002")), ToSet(Objects0002), "0002")
  /\ UpPlan(Append(Upgrade["0003"], Stamp("0003")), ToSet(Objects0003), "0003")
  /\ DownPlan(Append(Downgrade["0002"], Stamp("0001")), ToSet(Objects0002), "0001")
  /\ DownPlan(Append(Downgrade["0003"], Stamp("0002")), ToSet(Objects0003), "0002")
<1>1. /\ Upgrade["0001"] = Creates(Objects0001) /\ Upgrade["0002"] = Creates(Objects0002)
      /\ Upgrade["0003"] = Creates(Objects0003)
  BY DEF Upgrade
<1>2. /\ Downgrade["0002"] = Drops(Reverse(Objects0002))
      /\ Downgrade["0003"] = Drops(Reverse(Objects0003))
  BY DEF Downgrade
<1>3. {"0001", "0002", "0003"} \subseteq ToSet(Revisions)
  BY Levels
<1> QED  BY <1>1, <1>2, <1>3, ObjectsApart, ObjectsAreNamed, UpwardBlock, DownwardBlock

(* alembic upgrade, from every revision to every other.                    *)
LEMMA PathsUp ==
  /\ \A from \in {"0001", "0002", "0003"} : PathUp(from, "0001") = <<>>
  /\ \A from \in {"0002", "0003"} : PathUp(from, "0002") = <<>>
  /\ PathUp("0003", "0003") = <<>>
  /\ UpPlan(PathUp("none", "0001"), ToSet(Objects0001), "0001")
  /\ UpPlan(PathUp("none", "0002"), ToSet(Objects0001) \cup ToSet(Objects0002), "0002")
  /\ UpPlan(PathUp("none", "0003"),
            (ToSet(Objects0001) \cup ToSet(Objects0002)) \cup ToSet(Objects0003), "0003")
  /\ UpPlan(PathUp("0001", "0002"), ToSet(Objects0002), "0002")
  /\ UpPlan(PathUp("0001", "0003"), ToSet(Objects0002) \cup ToSet(Objects0003), "0003")
  /\ UpPlan(PathUp("0002", "0003"), ToSet(Objects0003), "0003")
<1>1. PICK b1, b2, b3 : /\ b1 = Append(Upgrade["0001"], Stamp("0001"))
                        /\ b2 = Append(Upgrade["0002"], Stamp("0002"))
                        /\ b3 = Append(Upgrade["0003"], Stamp("0003"))
  OBVIOUS
<1>2. /\ UpPlan(b1, ToSet(Objects0001), "0001") /\ UpPlan(b2, ToSet(Objects0002), "0002")
      /\ UpPlan(b3, ToSet(Objects0003), "0003")
  BY <1>1, Blocks
<1>3. b1 \in Seq(Statements) /\ b2 \in Seq(Statements) /\ b3 \in Seq(Statements)
  BY <1>2 DEF UpPlan
<1>4. /\ UpPlan(b1 \o b2, ToSet(Objects0001) \cup ToSet(Objects0002), "0002")
      /\ UpPlan(b2 \o b3, ToSet(Objects0002) \cup ToSet(Objects0003), "0003")
  BY <1>2, UpPlans
<1>5. UpPlan((b1 \o b2) \o b3, (ToSet(Objects0001) \cup ToSet(Objects0002)) \cup ToSet(Objects0003), "0003")
  BY <1>2, <1>4, UpPlans
<1>6. \A from, to \in {"none", "0001", "0002", "0003"} :
        /\ Up("0001", from, to) = IF from = "none" /\ to # "none" THEN b1 ELSE <<>>
        /\ Up("0002", from, to) = IF from \in {"none", "0001"} /\ to \in {"0002", "0003"} THEN b2 ELSE <<>>
        /\ Up("0003", from, to) = IF from # "0003" /\ to = "0003" THEN b3 ELSE <<>>
  BY <1>1, Levels DEF Up
<1>7. \A p \in Seq(Statements) : p \o <<>> = p /\ <<>> \o p = p
  OBVIOUS
<1>8. <<>> \in Seq(Statements) /\ (b1 \o b2) \in Seq(Statements)
  BY <1>4 DEF UpPlan
<1>9. /\ \A from \in {"0001", "0002", "0003"} : PathUp(from, "0001") = <<>>
      /\ \A from \in {"0002", "0003"} : PathUp(from, "0002") = <<>>
      /\ PathUp("0003", "0003") = <<>>
  BY <1>6, <1>7, <1>8 DEF PathUp
<1>10. PathUp("none", "0001") = b1 /\ PathUp("none", "0002") = b1 \o b2
  <2>1. /\ PathUp("none", "0001") = (b1 \o <<>>) \o <<>>
        /\ PathUp("none", "0002") = (b1 \o b2) \o <<>>
    BY <1>6 DEF PathUp
  <2>2. b1 \o <<>> = b1 /\ (b1 \o b2) \o <<>> = b1 \o b2
    BY <1>3, <1>7, <1>8
  <2> QED  BY <2>1, <2>2
<1>11. PathUp("none", "0003") = (b1 \o b2) \o b3
  BY <1>6 DEF PathUp
<1>12. PathUp("0001", "0002") = b2
  BY <1>3, <1>6, <1>7, <1>8 DEF PathUp
<1>13. PathUp("0001", "0003") = b2 \o b3
  BY <1>3, <1>6, <1>7, <1>8 DEF PathUp
<1>14. PathUp("0002", "0003") = b3
  <2>1. PathUp("0002", "0003") = (<<>> \o <<>>) \o b3
    BY <1>6 DEF PathUp
  <2>2. <<>> \o <<>> = <<>>
    BY <1>7, <1>8
  <2> QED  BY <1>3, <1>7, <2>1, <2>2
<1> QED  BY <1>2, <1>4, <1>5, <1>9, <1>10, <1>11, <1>12, <1>13, <1>14

(* alembic downgrade, from every revision to 0001.                         *)
LEMMA PathsDown ==
  /\ \A from \in {"none", "0001"} : PathDown(from, "0001") = <<>>
  /\ DownPlan(PathDown("0002", "0001"), ToSet(Objects0002), "0001")
  /\ DownPlan(PathDown("0003", "0001"), ToSet(Objects0003) \cup ToSet(Objects0002), "0001")
<1>1. PICK b2, b3 : /\ b2 = Append(Downgrade["0002"], Stamp("0001"))
                    /\ b3 = Append(Downgrade["0003"], Stamp("0002"))
  OBVIOUS
<1>2. DownPlan(b2, ToSet(Objects0002), "0001") /\ DownPlan(b3, ToSet(Objects0003), "0002")
  BY <1>1, Blocks
<1>3. b2 \in Seq(Statements) /\ b3 \in Seq(Statements)
  BY <1>2 DEF DownPlan
<1>4. DownPlan(b3 \o b2, ToSet(Objects0003) \cup ToSet(Objects0002), "0001")
  BY <1>2, DownPlans
<1>5. \A from \in {"none", "0001", "0002", "0003"} :
        /\ Down("0003", from, "0001") = IF from = "0003" THEN b3 ELSE <<>>
        /\ Down("0002", from, "0001") = IF from \in {"0002", "0003"} THEN b2 ELSE <<>>
  BY <1>1, Levels DEF Down
<1>6. (\A p \in Seq(Statements) : p \o <<>> = p /\ <<>> \o p = p) /\ <<>> \in Seq(Statements)
  OBVIOUS
<1>7. /\ \A from \in {"none", "0001"} : PathDown(from, "0001") = <<>>
      /\ PathDown("0002", "0001") = b2 /\ PathDown("0003", "0001") = b3 \o b2
  BY <1>3, <1>5, <1>6 DEF PathDown
<1> QED  BY <1>2, <1>4, <1>7

(* Whatever alembic executes is made of statements, and an upgrade only    *)
(* creates.                                                                *)
LEMMA PathsArePlans ==
  \A from \in ToSet(Revisions) : \A to \in {"0001", "0002", "0003"} :
    /\ PathUp(from, to) \in Seq(Statements) /\ Upward(PathUp(from, to))
    /\ PathDown(from, "0001") \in Seq(Statements)
<1>1. Upward(<<>>) /\ <<>> \in Seq(Statements)
  BY DEF Upward, ToSet
<1>2. \A p, O, r : /\ UpPlan(p, O, r) => p \in Seq(Statements) /\ Upward(p)
                   /\ DownPlan(p, O, r) => p \in Seq(Statements)
  BY DEF UpPlan, DownPlan
<1>3. \A from \in ToSet(Revisions) : \A to \in {"0001", "0002", "0003"} :
        PathUp(from, to) = <<>> \/ \E O : UpPlan(PathUp(from, to), O, to)
  BY PathsUp, Levels
<1>4. \A from \in ToSet(Revisions) :
        PathDown(from, "0001") = <<>> \/ \E O : DownPlan(PathDown(from, "0001"), O, "0001")
  BY PathsDown, Levels
<1> QED  BY <1>1, <1>2, <1>3, <1>4

(* Which plans end at a schema that its revision tells.                    *)
LEMMA PlanEndsGood ==
  ASSUME NEW s \in Schemas, NEW p, NEW O, NEW r
  PROVE  /\ UpPlan(p, O, r) /\ Good([objects |-> s.objects \cup O, revision |-> r]) => EndsGood(p, s)
         /\ DownPlan(p, O, r) /\ Good([objects |-> s.objects \ O, revision |-> r]) => EndsGood(p, s)
<1>1. ASSUME UpPlan(p, O, r), Good([objects |-> s.objects \cup O, revision |-> r])
      PROVE  EndsGood(p, s)
  <2>1. /\ p # <<>> /\ p[Len(p)].do = "stamp" /\ p[Len(p)].of = r
        /\ Upward(p) /\ Named("create", p) = O
    BY <1>1 DEF UpPlan, Stamp
  <2> QED  BY <1>1, <2>1 DEF EndsGood
<1>2. ASSUME DownPlan(p, O, r), Good([objects |-> s.objects \ O, revision |-> r])
      PROVE  EndsGood(p, s)
  <2>1. /\ p # <<>> /\ p[Len(p)].do = "stamp" /\ p[Len(p)].of = r
        /\ Downward(p) /\ Named("drop", p) = O
    BY <1>2 DEF DownPlan, Stamp
  <2> QED  BY <1>2, <2>1 DEF EndsGood
<1> QED  BY <1>1, <1>2

(* An upgrade from a schema that its revision tells ends at such a         *)
(* schema.                                                                 *)
LEMMA UpEndsGood ==
  ASSUME NEW s \in Schemas, Good(s), NEW to \in {"0001", "0002", "0003"}
  PROVE  EndsGood(PathUp(s.revision, to), s)
<1> DEFINE from == s.revision
<1>1. from \in {"none", "0001", "0002", "0003"} /\ s.objects \subseteq Objects
  BY Levels DEF Schemas
<1>2. CASE PathUp(from, to) = <<>>
  BY <1>2 DEF EndsGood
<1>3. PICK o1, o2, o3 : o1 = ToSet(Objects0001) /\ o2 = ToSet(Objects0002) /\ o3 = ToSet(Objects0003)
  OBVIOUS
<1>4. "poc_role_probe" \notin o1 \cup o2 \cup o3
  BY <1>3, ObjectsApart
<1>5. /\ ObjectsAt("none") = {} /\ ObjectsAt("0001") = o1 /\ ObjectsAt("0002") = o1 \cup o2
  BY <1>3, ObjectsAtLevels
<1>6. /\ from # "0003" => s.objects \ {"poc_role_probe"} = ObjectsAt(from)
  BY DEF Good
<1>7. CASE from = "none" /\ to = "0001"
  <2>1. Good([objects |-> s.objects \cup o1, revision |-> to])
    BY <1>4, <1>5, <1>6, <1>7 DEF Good
  <2>2. UpPlan(PathUp(from, to), o1, to)
    BY <1>3, <1>7, PathsUp
  <2> QED  BY <2>1, <2>2, PlanEndsGood
<1>8. CASE from = "none" /\ to = "0002"
  <2>1. Good([objects |-> s.objects \cup (o1 \cup o2), revision |-> to])
    BY <1>4, <1>5, <1>6, <1>8 DEF Good
  <2>2. UpPlan(PathUp(from, to), o1 \cup o2, to)
    BY <1>3, <1>8, PathsUp
  <2> QED  BY <2>1, <2>2, PlanEndsGood
<1>9. CASE from = "none" /\ to = "0003"
  <2>1. Good([objects |-> s.objects \cup ((o1 \cup o2) \cup o3), revision |-> to])
    BY <1>5, <1>9 DEF Good
  <2>2. UpPlan(PathUp(from, to), (o1 \cup o2) \cup o3, to)
    BY <1>3, <1>9, PathsUp
  <2> QED  BY <2>1, <2>2, PlanEndsGood
<1>10. CASE from = "0001" /\ to = "0002"
  <2>1. Good([objects |-> s.objects \cup o2, revision |-> to])
    BY <1>4, <1>5, <1>6, <1>10 DEF Good
  <2>2. UpPlan(PathUp(from, to), o2, to)
    BY <1>3, <1>10, PathsUp
  <2> QED  BY <2>1, <2>2, PlanEndsGood
<1>11. CASE from = "0001" /\ to = "0003"
  <2>1. Good([objects |-> s.objects \cup (o2 \cup o3), revision |-> to])
    BY <1>5, <1>6, <1>11 DEF Good
  <2>2. UpPlan(PathUp(from, to), o2 \cup o3, to)
    BY <1>3, <1>11, PathsUp
  <2> QED  BY <2>1, <2>2, PlanEndsGood
<1>12. CASE from = "0002" /\ to = "0003"
  <2>1. Good([objects |-> s.objects \cup o3, revision |-> to])
    BY <1>5, <1>6, <1>12 DEF Good
  <2>2. UpPlan(PathUp(from, to), o3, to)
    BY <1>3, <1>12, PathsUp
  <2> QED  BY <2>1, <2>2, PlanEndsGood
<1> QED  BY <1>1, <1>2, <1>7, <1>8, <1>9, <1>10, <1>11, <1>12, PathsUp

(* So does the downgrade.                                                  *)
LEMMA DownEndsGood ==
  ASSUME NEW s \in Schemas, Good(s)
  PROVE  EndsGood(PathDown(s.revision, "0001"), s)
<1> DEFINE from == s.revision
<1>1. from \in {"none", "0001", "0002", "0003"} /\ s.objects \subseteq Objects
  BY Levels DEF Schemas
<1>2. CASE from \in {"none", "0001"}
  BY <1>2, PathsDown DEF EndsGood
<1>3. PICK o1, o2, o3 : o1 = ToSet(Objects0001) /\ o2 = ToSet(Objects0002) /\ o3 = ToSet(Objects0003)
  OBVIOUS
<1>4. /\ "poc_role_probe" \notin o1 \cup o2 \cup o3
      /\ o1 \cap o2 = {} /\ o1 \cap o3 = {} /\ o2 \cap o3 = {}
      /\ s.objects \subseteq o1 \cup o2 \cup o3 \cup {"poc_role_probe"}
  BY <1>1, <1>3, ObjectsApart, ObjectsAreNamed
<1>5. ObjectsAt("0001") = o1 /\ ObjectsAt("0002") = o1 \cup o2
  BY <1>3, ObjectsAtLevels
<1>6. CASE from = "0002"
  <2>1. s.objects \ {"poc_role_probe"} = o1 \cup o2
    BY <1>5, <1>6 DEF Good
  <2>2. Good([objects |-> s.objects \ o2, revision |-> "0001"])
    BY <1>4, <1>5, <2>1 DEF Good
  <2>3. DownPlan(PathDown(from, "0001"), o2, "0001")
    BY <1>3, <1>6, PathsDown
  <2> QED  BY <2>2, <2>3, PlanEndsGood
<1>7. CASE from = "0003"
  <2>1. o1 \cup o2 \subseteq s.objects
    BY <1>5, <1>7 DEF Good
  <2>2. Good([objects |-> s.objects \ (o3 \cup o2), revision |-> "0001"])
    BY <1>4, <1>5, <2>1 DEF Good
  <2>3. DownPlan(PathDown(from, "0001"), o3 \cup o2, "0001")
    BY <1>3, <1>7, PathsDown
  <2> QED  BY <2>2, <2>3, PlanEndsGood
<1> QED  BY <1>1, <1>2, <1>6, <1>7

(* A statement of a plan that ends so leaves a plan that ends so.          *)
LEMMA StepEndsGood ==
  ASSUME NEW v \in Schemas, NEW plan \in Seq(Statements), plan # <<>>, EndsGood(plan, v)
  PROVE  EndsGood(Tail(plan), After(Head(plan), v))
<1>1. PICK s, rest : s = Head(plan) /\ rest = Tail(plan)
  OBVIOUS
<1>2. /\ s \in Statements /\ rest \in Seq(Statements) /\ ToSet(plan) = {s} \cup ToSet(rest)
      /\ rest # <<>> => rest[Len(rest)] = plan[Len(plan)]
      /\ rest = <<>> => plan[Len(plan)] = s /\ ToSet(plan) = {s}
  BY <1>1, ToSetTail
<1>3. PICK last : last = plan[Len(plan)] /\ last.do = "stamp"
  BY DEF EndsGood
<1>4. \/ Upward(plan) /\ Good([objects |-> v.objects \cup Named("create", plan), revision |-> last.of])
      \/ Downward(plan) /\ Good([objects |-> v.objects \ Named("drop", plan), revision |-> last.of])
  BY <1>3 DEF EndsGood
<1>5. PICK w : w = After(s, v)
  OBVIOUS
<1>6. /\ s.do \in {"create", "drop", "stamp"}
      /\ s.do = "create" => w = [objects |-> v.objects \cup {s.of}, revision |-> v.revision]
      /\ s.do = "drop" => w = [objects |-> v.objects \ {s.of}, revision |-> v.revision]
      /\ s.do = "stamp" => w = [objects |-> v.objects, revision |-> s.of]
  BY <1>2, <1>5, AfterStatement
<1>7. ASSUME rest = <<>> PROVE Good(w)
  <2>1. last = s /\ s.do = "stamp"
    BY <1>2, <1>3, <1>7
  <2>2. Named("create", plan) = {} /\ Named("drop", plan) = {}
    BY <1>2, <1>7, <2>1 DEF Named
  <2>3. v.objects \cup {} = v.objects /\ v.objects \ {} = v.objects
    OBVIOUS
  <2> QED  BY <1>4, <1>6, <2>1, <2>2, <2>3
<1>8. ASSUME rest # <<>>, Upward(plan), Good([objects |-> v.objects \cup Named("create", plan), revision |-> last.of])
      PROVE  EndsGood(rest, w)
  <2>1. Upward(rest) /\ s.do \in {"create", "stamp"}
    BY <1>2, <1>8 DEF Upward
  <2>2. w.objects \cup Named("create", rest) = v.objects \cup Named("create", plan)
    BY <1>2, <1>6, <2>1 DEF Named
  <2> QED  BY <1>2, <1>3, <1>8, <2>1, <2>2 DEF EndsGood
<1>9. ASSUME rest # <<>>, Downward(plan), Good([objects |-> v.objects \ Named("drop", plan), revision |-> last.of])
      PROVE  EndsGood(rest, w)
  <2>1. Downward(rest) /\ s.do \in {"drop", "stamp"}
    BY <1>2, <1>9 DEF Downward
  <2>2. w.objects \ Named("drop", rest) = v.objects \ Named("drop", plan)
    BY <1>2, <1>6, <2>1 DEF Named
  <2> QED  BY <1>2, <1>3, <1>9, <2>1, <2>2 DEF EndsGood
<1>10. EndsGood(rest, w)
  BY <1>4, <1>7, <1>8, <1>9 DEF EndsGood
<1> QED  BY <1>1, <1>5, <1>10

----------------------------------------------------------------------------
(* A sequence of two.                                                      *)
LEMMA TwoOf == ASSUME NEW S, NEW a \in S, NEW b \in S PROVE <<a, b>> \in Seq(S)
OBVIOUS

(* The statements of bootstrap, one by one.                                *)
LEMMA AdminForms ==
  /\ [do |-> "dropdb"] \in AdminStatements /\ [do |-> "createdb"] \in AdminStatements
  /\ [do |-> "revoke"] \in AdminStatements
  /\ \A r \in RuntimeRoles \cup {"cp_migration"} : [do |-> "role", of |-> r] \in AdminStatements
  /\ \A gs \in SUBSET Grants : [do |-> "grant", of |-> gs] \in AdminStatements
  /\ \A ps \in SUBSET (RuntimeRoles \X Rights) : [do |-> "grantall", of |-> ps] \in AdminStatements
<1>1. /\ [do |-> "dropdb"] \in [do : {"dropdb", "createdb", "revoke"}]
      /\ [do |-> "createdb"] \in [do : {"dropdb", "createdb", "revoke"}]
      /\ [do |-> "revoke"] \in [do : {"dropdb", "createdb", "revoke"}]
  OBVIOUS
<1>2. \A r \in RuntimeRoles \cup {"cp_migration"} :
        [do |-> "role", of |-> r] \in [do : {"role"}, of : RuntimeRoles \cup {"cp_migration"}]
  OBVIOUS
<1>3. \A gs \in SUBSET Grants : [do |-> "grant", of |-> gs] \in [do : {"grant"}, of : SUBSET Grants]
  OBVIOUS
<1>4. \A ps \in SUBSET (RuntimeRoles \X Rights) :
        [do |-> "grantall", of |-> ps] \in [do : {"grantall"}, of : SUBSET (RuntimeRoles \X Rights)]
  OBVIOUS
<1> QED  BY <1>1, <1>2, <1>3, <1>4 DEF AdminStatements

(* A grant on a table, or on the database, has its type.                   *)
LEMMA GrantForms ==
  /\ \A role \in RuntimeRoles \cup {"cp_migration"}, right \in Rights \cup {"all"},
        table \in Tables \cup {"*"} : Grant(role, right, table) \in Grants
  /\ \A i \in 1 .. 4 : WorkerUpdatable[i] \in Tables
  /\ "*" \notin Tables
<1>1. \A role \in RuntimeRoles \cup {"cp_migration"}, right \in Rights \cup {"all"},
        table \in Tables \cup {"*"} : Grant(role, right, table) \in Grants
  BY DEF Grant, Grants
<1>2. \A i \in 1 .. 4 : WorkerUpdatable[i] \in Tables
  BY DEF WorkerUpdatable, Tables
<1>3. "*" \notin Tables
  BY DEF Tables
<1> QED  BY <1>1, <1>2, <1>3

(* The plans of reset, roles and grants are made of statements of          *)
(* bootstrap.                                                              *)
LEMMA AdminPlans ==
  /\ ResetPlan \in Seq(AdminStatements) /\ RolesPlan \in Seq(AdminStatements)
  /\ GrantsPlan \in Seq(AdminStatements)
<1> USE DEF RuntimeRoles, Rights
<1>1. <<[do |-> "dropdb"], [do |-> "createdb"]>> \in Seq(AdminStatements)
  BY AdminForms, TwoOf
<1>2. \A role \in RuntimeRoles \cup {"cp_migration"}, right \in Rights \cup {"all"},
        table \in Tables \cup {"*"} : [do |-> "grant", of |-> {Grant(role, right, table)}] \in AdminStatements
  BY AdminForms, GrantForms
<1>3. <<[do |-> "grant", of |-> {Grant("cp_migration", "all", "*")}]>> \in Seq(AdminStatements)
  BY <1>2
<1>4. <<>> \in Seq(AdminStatements)
  OBVIOUS
<1>5. ResetPlan \in Seq(AdminStatements)
  BY <1>1, <1>3, <1>4, ToSetConcat DEF ResetPlan
<1>6. [i \in 1 .. 4 |-> [do |-> "role", of |-> <<"cp_api", "cp_worker", "cp_migration", "cp_backup">>[i]]]
        \in Seq(AdminStatements)
  <2>1. \A i \in 1 .. 4 : <<"cp_api", "cp_worker", "cp_migration", "cp_backup">>[i]
                             \in RuntimeRoles \cup {"cp_migration"}
    OBVIOUS
  <2> QED  BY <2>1, AdminForms
<1>7. <<[do |-> "grant", of |-> {Grant("cp_backup", "select", "*")}]>> \in Seq(AdminStatements)
  BY <1>2
<1>8. RolesPlan \in Seq(AdminStatements)
  BY <1>4, <1>6, <1>7, ToSetConcat DEF RolesPlan
<1>9. UpdateGrants \in Seq(AdminStatements)
  BY <1>2, GrantForms DEF UpdateGrants
<1>10. <<[do |-> "revoke"],
         [do |-> "grantall", of |-> {<<"cp_api", "select">>}],
         [do |-> "grantall", of |-> {<<"cp_worker", "select">>, <<"cp_worker", "insert">>}]>>
         \in Seq(AdminStatements)
  <2>1. /\ [do |-> "grantall", of |-> {<<"cp_api", "select">>}] \in AdminStatements
        /\ [do |-> "grantall", of |-> {<<"cp_worker", "select">>, <<"cp_worker", "insert">>}]
             \in AdminStatements
    BY AdminForms
  <2> QED  BY <2>1, AdminForms
<1>11. <<[do |-> "grant", of |-> {Grant("cp_api", "select", "*")}],
         [do |-> "grant", of |-> {Grant("cp_worker", "select", "*"), Grant("cp_worker", "insert", "*")}],
         [do |-> "grant", of |-> {Grant("cp_migration", "all", "*")}],
         [do |-> "grant", of |-> {Grant("cp_backup", "select", "*")}]>>
         \in Seq(AdminStatements)
  <2>1. [do |-> "grant", of |-> {Grant("cp_worker", "select", "*"), Grant("cp_worker", "insert", "*")}]
          \in AdminStatements
    BY AdminForms, GrantForms
  <2>2. /\ [do |-> "grant", of |-> {Grant("cp_api", "select", "*")}] \in AdminStatements
        /\ [do |-> "grant", of |-> {Grant("cp_migration", "all", "*")}] \in AdminStatements
        /\ [do |-> "grant", of |-> {Grant("cp_backup", "select", "*")}] \in AdminStatements
    BY <1>2
  <2> QED  BY <2>1, <2>2
<1>12. GrantsPlan \in Seq(AdminStatements)
  <2>1. CASE engine = "postgres"
    BY <2>1, <1>9, <1>10, ToSetConcat DEF GrantsPlan
  <2>2. CASE engine # "postgres"
    BY <2>2, <1>9, <1>11, ToSetConcat DEF GrantsPlan
  <2> QED  BY <2>1, <2>2
<1> QED  BY <1>5, <1>8, <1>12

(* The role check tries what it may try.                                   *)
LEMMA CheckPlan ==
  /\ Len(Expectations) = 14
  /\ Expectations \in Seq(Attempts)
<1>1. Len(Expectations) = 14
  BY DEF Expectations
<1>2. \A role \in RuntimeRoles \cup {"cp_migration"}, right \in Rights \cup {"create", "drop"},
        table \in Tables :
          Try(role, right, table, TRUE) \in Attempts /\ Try(role, right, table, FALSE) \in Attempts
  BY DEF Try, Attempts
<1>3. /\ {"cp_api", "cp_worker", "cp_backup", "cp_migration"} \subseteq RuntimeRoles \cup {"cp_migration"}
      /\ {"select", "insert", "update", "delete", "create", "drop"} \subseteq Rights \cup {"create", "drop"}
      /\ {"price_observation", "review_item", "poc_role_probe"} \subseteq Tables
  BY DEF RuntimeRoles, Rights, Tables
<1> HIDE DEF Try, Attempts, RuntimeRoles, Rights, Tables
<1>4. Expectations \in Seq(Attempts)
  <2>1. /\ Try("cp_api", "select", "price_observation", TRUE) \in Attempts
        /\ Try("cp_api", "insert", "review_item", FALSE) \in Attempts
        /\ Try("cp_api", "update", "price_observation", FALSE) \in Attempts
        /\ Try("cp_api", "create", "poc_role_probe", FALSE) \in Attempts
        /\ Try("cp_worker", "select", "price_observation", TRUE) \in Attempts
        /\ Try("cp_worker", "insert", "review_item", TRUE) \in Attempts
        /\ Try("cp_worker", "update", "review_item", TRUE) \in Attempts
        /\ Try("cp_worker", "update", "price_observation", FALSE) \in Attempts
        /\ Try("cp_worker", "delete", "price_observation", FALSE) \in Attempts
        /\ Try("cp_worker", "create", "poc_role_probe", FALSE) \in Attempts
        /\ Try("cp_backup", "select", "price_observation", TRUE) \in Attempts
        /\ Try("cp_backup", "insert", "review_item", FALSE) \in Attempts
        /\ Try("cp_migration", "create", "poc_role_probe", TRUE) \in Attempts
        /\ Try("cp_migration", "drop", "poc_role_probe", TRUE) \in Attempts
    BY <1>2, <1>3
  <2>2. Expectations = [i \in 1 .. 14 |-> Expectations[i]]
    BY DEF Expectations
  <2>3. /\ Expectations[1] \in Attempts /\ Expectations[2] \in Attempts
        /\ Expectations[3] \in Attempts /\ Expectations[4] \in Attempts
        /\ Expectations[5] \in Attempts /\ Expectations[6] \in Attempts
        /\ Expectations[7] \in Attempts
    BY <2>1 DEF Expectations
  <2>4. /\ Expectations[8] \in Attempts /\ Expectations[9] \in Attempts
        /\ Expectations[10] \in Attempts /\ Expectations[11] \in Attempts
        /\ Expectations[12] \in Attempts /\ Expectations[13] \in Attempts
        /\ Expectations[14] \in Attempts
    BY <2>1 DEF Expectations
  <2>5. \A i \in 1 .. 14 : Expectations[i] \in Attempts
    BY <2>3, <2>4
  <2> QED  BY <2>2, <2>5
<1> QED  BY <1>1, <1>4

(* repair_partial drops what is there of 0003, and nothing else.           *)
LEMMA RepairPlan ==
  ASSUME NEW objects
  PROVE  /\ Repairs(objects) \in Seq(Statements)
         /\ ToSet(Repairs(objects)) = {Drop(o) : o \in ToSet(Objects0003) \cap objects}
<1>1. ToSet(Objects0003) = {"review_item.triage_note", "migration_probe", "ix_observation_card_unique"}
  BY DEF Objects0003, ToSet
<1>2. ASSUME NEW o \in ToSet(Objects0003)
      PROVE  /\ Repair(o, objects) \in Seq(Statements)
             /\ ToSet(Repair(o, objects)) = {Drop(p) : p \in {o} \cap objects}
  <2>1. Drop(o) \in Statements
    BY ObjectsAreNamed DEF Drop, Statements
  <2>2. ToSet(<<Drop(o)>>) = {Drop(o)} /\ ToSet(<<>>) = {}
    BY DEF ToSet
  <2>3. CASE o \in objects
    BY <2>1, <2>2, <2>3 DEF Repair
  <2>4. CASE o \notin objects
    BY <2>1, <2>2, <2>4 DEF Repair
  <2> QED  BY <2>3, <2>4
<1>3. PICK a, b, c : /\ a = Repair("ix_observation_card_unique", objects)
                     /\ b = Repair("migration_probe", objects)
                     /\ c = Repair("review_item.triage_note", objects)
  OBVIOUS
<1>4. a \in Seq(Statements) /\ b \in Seq(Statements) /\ c \in Seq(Statements)
  BY <1>1, <1>2, <1>3
<1>5. /\ ToSet(a) = {Drop(p) : p \in {"ix_observation_card_unique"} \cap objects}
      /\ ToSet(b) = {Drop(p) : p \in {"migration_probe"} \cap objects}
      /\ ToSet(c) = {Drop(p) : p \in {"review_item.triage_note"} \cap objects}
  BY <1>1, <1>2, <1>3
<1>6. PICK ab : ab = a \o b
  OBVIOUS
<1>7a. ab \in Seq(Statements) /\ ToSet(ab) = ToSet(a) \cup ToSet(b)
  BY <1>4, <1>6, ToSetConcat
<1>7. ab \o c \in Seq(Statements) /\ ToSet(ab \o c) = ToSet(ab) \cup ToSet(c)
  BY <1>4, <1>7a, ToSetConcat
<1>8. Repairs(objects) = ab \o c
  BY <1>3, <1>6 DEF Repairs
<1>9. ToSet(Repairs(objects)) = {Drop(o) : o \in ToSet(Objects0003) \cap objects}
  <2>1. ToSet(Repairs(objects)) = ToSet(a) \cup ToSet(b) \cup ToSet(c)
    BY <1>7a, <1>7, <1>8
  <2>2. \A x : x \in ToSet(Repairs(objects)) <=>
          \E o \in ToSet(Objects0003) \cap objects : x = Drop(o)
    BY <1>1, <1>5, <2>1
  <2> QED  BY <2>2
<1> QED  BY <1>7, <1>8, <1>9

----------------------------------------------------------------------------
(* What main() does after alembic is one of three things.                  *)
LEMMA Continued ==
  ASSUME NEW s
  PROVE  \/ Continuation(s) = Idle
         \/ /\ job.step = "downgrade"
            /\ Continuation(s) = Job("reupgrade", PathUp(s.revision, "0002"), s, TRUE)
         \/ /\ job.step = "failing" /\ {"price_observation", "review_item"} \subseteq s.objects
            /\ Continuation(s) = Job("repair", Repairs(s.objects), s, TRUE)
<1>1. CASE job.step = "downgrade" /\ "price_observation" \in s.objects
  <2>1. Continuation(s) = Job("reupgrade", PathUp(s.revision, "0002"), s, TRUE)
    BY <1>1 DEF Continuation
  <2> QED  BY <1>1, <2>1
<1>2. CASE job.step = "failing" /\ {"price_observation", "review_item"} \subseteq s.objects
  <2>1. Continuation(s) = Job("repair", Repairs(s.objects), s, TRUE)
    BY <1>2 DEF Continuation
  <2> QED  BY <1>2, <2>1
<1>3. CASE /\ ~(job.step = "downgrade" /\ "price_observation" \in s.objects)
           /\ ~(job.step = "failing" /\ {"price_observation", "review_item"} \subseteq s.objects)
  BY <1>3 DEF Continuation
<1> QED  BY <1>1, <1>2, <1>3

(* No drop grants anything.                                                *)
LEMMA GrantsStay == \A objects : GrantsLeft(objects) \subseteq grants
BY DEF GrantsLeft

(* The commands are of different kinds.                                    *)
LEMMA Kinds ==
  /\ Alembic \cap Admin = {} /\ "repair" \notin Alembic \cup Admin
  /\ "check" \notin Alembic \cup Admin /\ "idle" \notin Alembic \cup Admin
BY DEF Alembic, Admin

(* The fields of a job.                                                    *)
LEMMA JobFields ==
  ASSUME NEW step, NEW plan, NEW view, NEW ok
  PROVE  /\ Job(step, plan, view, ok).step = step /\ Job(step, plan, view, ok).plan = plan
         /\ Job(step, plan, view, ok).view = view /\ Job(step, plan, view, ok).ok = ok
BY DEF Job

(* The empty schema has its type.                                          *)
LEMMA EmptySchema == NoSchema \in Schemas /\ NoSchema.objects = {} /\ NoSchema.revision = "none"
BY Levels DEF NoSchema, Schemas

(* The fields of no job.                                                   *)
LEMMA IdleFields ==
  /\ Idle.step = "idle" /\ Idle.plan = <<>> /\ Idle.view = NoSchema /\ Idle.ok = TRUE
  /\ Idle = Job("idle", <<>>, NoSchema, TRUE)
BY DEF Idle, Job

(* A command that begins keeps the types.                                  *)
LEMMA Begun ==
  ASSUME TypeOK, Planned, NEW step, NEW plan, Begin(step, plan),
         \/ step \in Alembic /\ plan \in Seq(Statements)
         \/ step \in Admin /\ plan \in Seq(AdminStatements)
         \/ step = "check" /\ plan \in Seq(Attempts),
         reader' \in {"off", "reading", "refused"}
  PROVE  TypeOK' /\ Planned'
<1>1. /\ job' = Job(step, plan, schema, TRUE) /\ outcome' = "none"
      /\ UNCHANGED <<engine, database, roles, grants, schema, rows, probe>>
  BY DEF Begin
<1>20. job' = [step |-> step, plan |-> plan, view |-> schema, ok |-> TRUE]
  BY <1>1 DEF Job
<1>21. job'.step = step /\ job'.plan = plan /\ job'.view = schema
  BY <1>20
<1>22. job'.ok = TRUE
  BY <1>20
<1>2. job'.step = step /\ job'.plan = plan /\ job'.view = schema /\ job'.ok = TRUE
  BY <1>21, <1>22
<1>3. schema \in Schemas
  BY DEF Planned
<1>4. Planned'
  BY <1>1, <1>2, <1>3, Kinds DEF Planned
<1>5. schema.objects \subseteq Objects
  BY DEF TypeOK
<1> QED  BY <1>1, <1>2, <1>4, <1>5 DEF TypeOK

(* alembic, ended at a schema, keeps the types.                            *)
LEMMA Ended ==
  ASSUME TypeOK, Planned, NEW s \in Schemas, AlembicEnds(s), job.step \in Alembic
  PROVE  TypeOK' /\ Planned'
<1>1. /\ schema' = s /\ job' = Continuation(s) /\ reader' = "off" /\ grants' = GrantsLeft(s.objects)
      /\ UNCHANGED <<engine, database, roles, rows, probe>>
      /\ outcome' # "none" => job' = Idle
  BY DEF AlembicEnds
<1>2. s.objects \subseteq Objects /\ s.revision \in ToSet(Revisions)
  BY DEF Schemas
<1>3. \/ job' = Idle
      \/ job' = Job("reupgrade", PathUp(s.revision, "0002"), s, TRUE)
      \/ job' = Job("repair", Repairs(s.objects), s, TRUE)
  BY <1>1, Continued
<1>4. PathUp(s.revision, "0002") \in Seq(Statements) /\ Repairs(s.objects) \in Seq(Statements)
  BY <1>2, PathsArePlans, RepairPlan
<1>5. /\ job' = Job(job'.step, job'.plan, job'.view, job'.ok)
      /\ job'.view \in Schemas /\ job'.view.objects \subseteq Objects /\ job'.ok \in BOOLEAN
      /\ job'.step \in {"idle", "reupgrade", "repair"}
      /\ job'.step \in {"reupgrade", "repair"} => job'.plan \in Seq(Statements)
      /\ job'.step = "idle" => job' = Idle
  <2>1. CASE job' = Idle
    <3>1. job'.step = "idle" /\ job'.view = NoSchema /\ job' = Job("idle", <<>>, NoSchema, TRUE)
      BY <2>1, IdleFields
    <3>2. job'.ok = TRUE
      BY <2>1, IdleFields
    <3>3. job' = Job(job'.step, job'.plan, job'.view, job'.ok)
      BY <2>1, IdleFields
    <3> QED  BY <2>1, <3>1, <3>2, <3>3, EmptySchema DEF Schemas
  <2>2. ASSUME NEW step \in {"reupgrade", "repair"}, NEW plan \in Seq(Statements),
               job' = Job(step, plan, s, TRUE)
        PROVE  /\ job' = Job(job'.step, job'.plan, job'.view, job'.ok)
               /\ job'.view \in Schemas /\ job'.view.objects \subseteq Objects /\ job'.ok \in BOOLEAN
               /\ job'.step \in {"idle", "reupgrade", "repair"}
               /\ job'.step \in {"reupgrade", "repair"} => job'.plan \in Seq(Statements)
               /\ job'.step = "idle" => job' = Idle
    <3>1. job' = [step |-> step, plan |-> plan, view |-> s, ok |-> TRUE]
      BY <2>2 DEF Job
    <3>2. job'.step = step /\ job'.plan = plan /\ job'.view = s
      BY <3>1
    <3>3. job'.ok = TRUE
      BY <3>1
    <3>4. job' = Job(job'.step, job'.plan, job'.view, job'.ok)
      BY <2>2, <3>2, <3>3
    <3> QED  BY <1>2, <3>2, <3>3, <3>4
  <2> QED  BY <1>3, <1>4, <2>1, <2>2
<1>6. Planned'
  BY <1>1, <1>5 DEF Planned, Admin, Alembic
<1>7. \A g \in grants' : g \in grants
  BY <1>1, GrantsStay
<1> QED  BY <1>1, <1>2, <1>5, <1>6, <1>7 DEF TypeOK, Alembic

(* The statements of bootstrap, by kind.                                   *)
LEMMA AdminKinds ==
  ASSUME NEW s \in AdminStatements
  PROVE  /\ s.do \in {"dropdb", "createdb", "revoke", "role", "grant", "grantall"}
         /\ s.do = "role" => s.of \in RuntimeRoles \cup {"cp_migration"}
         /\ s.do = "grant" => s.of \subseteq Grants
         /\ s.do = "grantall" => s.of \subseteq RuntimeRoles \X Rights
BY DEF AdminStatements

(* What a statement of bootstrap changes, by kind.                         *)
LEMMA AdminEffects ==
  ASSUME NEW s, AdminEffect(s), TypeOK
  PROVE  /\ s.do = "dropdb" =>
              /\ schema' = NoSchema /\ rows' = "none" /\ probe' = FALSE
              /\ roles' = roles /\ grants' = GrantsLeft({})
         /\ s.do # "dropdb" =>
              UNCHANGED <<schema, rows, probe>>
         /\ database' = (IF s.do = "dropdb" THEN FALSE
                         ELSE IF s.do = "createdb" THEN TRUE ELSE database)
         /\ s.do = "role" => roles' = roles \cup {s.of}
         /\ s.do # "role" => roles' = roles
         /\ s.do = "revoke" => grants' = {g \in grants : g.table = "*"}
         /\ s.do \notin {"dropdb", "revoke"} => grants' = grants \cup Gives(s)
<1>1. /\ s.do = "dropdb" => schema' = NoSchema /\ rows' = "none" /\ roles' = roles
      /\ s.do # "dropdb" => UNCHANGED <<schema, rows>>
      /\ s.do = "role" => roles' = roles \cup {s.of}
      /\ s.do # "role" => roles' = roles
  BY DEF AdminEffect
<1>2. /\ s.do = "dropdb" => probe' = FALSE
  BY Zenon DEF AdminEffect
<1>3. ASSUME TypeOK, s.do # "dropdb" PROVE probe' = probe
  BY <1>3 DEF AdminEffect, TypeOK
<1>g. /\ s.do = "dropdb" => grants' = GrantsLeft({})
      /\ s.do = "revoke" => grants' = {g \in grants : g.table = "*"}
      /\ s.do \notin {"dropdb", "revoke"} => grants' = grants \cup Gives(s)
  BY DEF AdminEffect
<1>4. ASSUME s.do = "dropdb" PROVE database' = FALSE
  BY <1>4, Zenon DEF AdminEffect
<1>6. ASSUME s.do = "createdb" PROVE database' = TRUE
  BY <1>6, Zenon DEF AdminEffect
<1>8. ASSUME s.do = "revoke" PROVE database' = database
  BY <1>8, Zenon DEF AdminEffect
<1>10. ASSUME s.do = "role" PROVE database' = database
  BY <1>10, Zenon DEF AdminEffect
<1>12. ASSUME s.do = "grant" PROVE database' = database
  BY <1>12, Zenon DEF AdminEffect
<1>14. ASSUME s.do = "grantall" PROVE database' = database
  BY <1>14, Zenon DEF AdminEffect
<1>16. ASSUME s.do \notin {"dropdb", "createdb", "revoke", "role", "grant", "grantall"} PROVE database' = database
  BY <1>16, Zenon DEF AdminEffect
<1>a. database' = (IF s.do = "dropdb" THEN FALSE ELSE IF s.do = "createdb" THEN TRUE ELSE database)
  BY <1>4, <1>6, <1>8, <1>10, <1>12, <1>14, <1>16
<1> QED  BY <1>1, <1>2, <1>3, <1>a, <1>g
----------------------------------------------------------------------------
(* What EXCEPT makes of a record with the fields of a job.                 *)
LEMMA RecordEdits ==
  ASSUME NEW s, NEW p, NEW v, NEW o, NEW x, NEW j, NEW k,
         j = [step |-> s, plan |-> p, view |-> v, ok |-> o]
  PROVE  /\ k = [j EXCEPT !.plan = Tail(@)] =>
              k = [step |-> s, plan |-> Tail(p), view |-> v, ok |-> o]
         /\ k = [j EXCEPT !.plan = Tail(@), !.view = x] =>
              k = [step |-> s, plan |-> Tail(p), view |-> x, ok |-> o]
         /\ k = [j EXCEPT !.plan = Tail(@), !.ok = x] =>
              k = [step |-> s, plan |-> Tail(p), view |-> v, ok |-> x]
<1>1. ASSUME k = [j EXCEPT !.plan = Tail(@)]
      PROVE  k = [step |-> s, plan |-> Tail(p), view |-> v, ok |-> o]
  BY <1>1
<1>2. ASSUME k = [j EXCEPT !.plan = Tail(@), !.view = x]
      PROVE  k = [step |-> s, plan |-> Tail(p), view |-> x, ok |-> o]
  BY <1>2
<1>3. ASSUME k = [j EXCEPT !.plan = Tail(@), !.ok = x]
      PROVE  k = [step |-> s, plan |-> Tail(p), view |-> v, ok |-> x]
  BY <1>3
<1> QED  BY <1>1, <1>2, <1>3

(* A job that goes on is a job with a shorter plan.                        *)
LEMMA JobEdits ==
  ASSUME Planned, NEW x
  PROVE  /\ job' = [job EXCEPT !.plan = Tail(@)] =>
              job' = Job(job.step, Tail(job.plan), job.view, job.ok)
         /\ job' = [job EXCEPT !.plan = Tail(@), !.view = x] =>
              job' = Job(job.step, Tail(job.plan), x, job.ok)
         /\ job' = [job EXCEPT !.plan = Tail(@), !.ok = x] =>
              job' = Job(job.step, Tail(job.plan), job.view, x)
<1>1. job = [step |-> job.step, plan |-> job.plan, view |-> job.view, ok |-> job.ok]
  BY DEF Planned, Job
<1> QED  BY <1>1, RecordEdits DEF Job

(* The fields of the next job.                                             *)
LEMMA JobIs ==
  ASSUME NEW step, NEW plan, NEW view, NEW ok, job' = Job(step, plan, view, ok)
  PROVE  /\ job'.step = step /\ job'.plan = plan /\ job'.view = view /\ job'.ok = ok
         /\ job' = Job(job'.step, job'.plan, job'.view, job'.ok)
<1>1. job' = [step |-> step, plan |-> plan, view |-> view, ok |-> ok]
  BY DEF Job
<1>2. job'.step = step /\ job'.plan = plan /\ job'.view = view
  BY <1>1
<1>3. job'.ok = ok
  BY <1>1
<1> QED  BY <1>2, <1>3

(* The step of a job is one of the steps.                                  *)
LEMMA JobTypes ==
  TypeOK => job.step \in Alembic \cup Admin \cup {"idle", "repair", "check"} /\ job.ok \in BOOLEAN
BY DEF TypeOK

(* A job that goes on keeps the types of jobs.                             *)
LEMMA Shortened ==
  ASSUME TypeOK, Planned, job.step # "idle", job.plan # <<>>,
         NEW view \in Schemas, NEW ok \in BOOLEAN,
         job' = Job(job.step, Tail(job.plan), view, ok), schema' \in Schemas, outcome' = outcome
  PROVE  /\ Planned' /\ job'.step = job.step /\ job'.view = view /\ job'.plan = Tail(job.plan)
         /\ job'.step \in Alembic \cup Admin \cup {"idle", "repair", "check"}
         /\ job'.view.objects \subseteq Objects /\ job'.ok \in BOOLEAN
<1>1. /\ job'.step = job.step /\ job'.plan = Tail(job.plan) /\ job'.view = view
      /\ job' = Job(job'.step, job'.plan, job'.view, job'.ok)
  BY JobIs
<1>2. job'.ok \in BOOLEAN
  BY JobIs
<1>3. ASSUME NEW S, job.plan \in Seq(S) PROVE job'.plan \in Seq(S)
  BY <1>1, <1>3, ToSetTail
<1>4. job # Idle
  BY IdleFields
<1>5. Planned'
  BY <1>1, <1>3, <1>4 DEF Planned
<1>6. view.objects \subseteq Objects
  BY DEF Schemas
<1> QED  BY <1>1, <1>2, <1>5, <1>6, JobTypes

(* So does one that ends.                                                  *)
LEMMA Stopped ==
  ASSUME Planned, job' = Idle, schema' \in Schemas
  PROVE  /\ Planned' /\ job'.step = "idle"
         /\ job'.view.objects \subseteq Objects /\ job'.ok \in BOOLEAN
<1>1. job'.step = "idle" /\ job'.view = NoSchema
  BY IdleFields
<1>2. job'.ok \in BOOLEAN
  BY IdleFields
<1>3. job' = Job(job'.step, job'.plan, job'.view, job'.ok)
  BY IdleFields
<1>4. Planned'
  BY <1>1, <1>3, EmptySchema, Kinds DEF Planned
<1> QED  BY <1>1, <1>2, <1>4, EmptySchema

(* So does one that is left alone.                                         *)
LEMMA Rested ==
  ASSUME TypeOK, Planned, UNCHANGED <<job, schema>>, outcome' \in {outcome, "none"}
  PROVE  /\ Planned' /\ job'.step \in Alembic \cup Admin \cup {"idle", "repair", "check"}
         /\ job'.view.objects \subseteq Objects /\ job'.ok \in BOOLEAN
<1>1. Planned'
  BY DEF Planned
<1>2. job.view.objects \subseteq Objects
  BY DEF TypeOK
<1> QED  BY <1>1, <1>2, JobTypes

(* The committed schema is a schema.                                       *)
LEMMA SchemaTyped == Planned => schema \in Schemas /\ schema.objects \subseteq Objects /\ schema.revision \in ToSet(Revisions)
BY DEF Planned, Schemas

(* A typed state, from the parts a step gives.                             *)
LEMMA Typed ==
  ASSUME TypeOK, engine' = engine, database' \in BOOLEAN, probe' \in BOOLEAN,
         roles \subseteq roles', roles' \subseteq RuntimeRoles \cup {"cp_migration"},
         \A g \in grants' : g \in grants \/ (g.role \in roles' /\ g.table \in Tables \cup {"*"}),
         Planned', rows' \in {"none", "seeded", "unique", "repeated"},
         job'.step \in Alembic \cup Admin \cup {"idle", "repair", "check"},
         job'.view.objects \subseteq Objects, job'.ok \in BOOLEAN, reader' \in {"off", "reading", "refused"}
  PROVE  TypeOK'
<1>1. schema'.objects \subseteq Objects /\ schema'.revision \in ToSet(Revisions)
  BY DEF Planned, Schemas
<1>2. engine' \in Engines
  BY DEF TypeOK
<1>3. \A g \in grants' : g.role \in roles' /\ g.table \in Tables \cup {"*"}
  BY DEF TypeOK
<1> QED  BY <1>1, <1>2, <1>3 DEF TypeOK

(* The parts of a typed state.                                             *)
LEMMA WereTyped ==
  TypeOK => /\ database \in BOOLEAN /\ probe \in BOOLEAN
            /\ roles \subseteq RuntimeRoles \cup {"cp_migration"}
            /\ rows \in {"none", "seeded", "unique", "repeated"}
            /\ reader \in {"off", "reading", "refused"}
BY DEF TypeOK

(* The probe table may come and go.                                        *)
LEMMA AfterTyped ==
  ASSUME NEW v \in Schemas
  PROVE  After(Create("poc_role_probe"), v) \in Schemas /\ After(Drop("poc_role_probe"), v) \in Schemas
<1>1. Create("poc_role_probe") \in Statements /\ Drop("poc_role_probe") \in Statements
  BY DEF Statements, Create, Drop, Objects
<1> QED  BY <1>1, AfterStatement

(* Every command that begins keeps the types.                              *)
LEMMA TypesBegin ==
  ASSUME TypeOK, Planned,
         Reset \/ CreateRoles \/ ApplyGrants \/ Initial \/ Failing \/ DowngradeStep \/ Compat \/ CheckRoles
  PROVE  TypeOK' /\ Planned'
<1>0. reader \in {"off", "reading", "refused"} /\ schema.revision \in ToSet(Revisions)
  BY WereTyped, SchemaTyped
<1>k. /\ {"initial", "compat", "failing", "downgrade"} \subseteq Alembic
      /\ {"reset", "roles", "grants"} \subseteq Admin
  BY DEF Alembic, Admin
<1>1. CASE Reset
  <2>1. Begin("reset", ResetPlan) /\ reader' = reader
    BY <1>1 DEF Reset
  <2> QED  BY <1>0, <1>k, <2>1, AdminPlans, Begun
<1>2. CASE CreateRoles
  <2>1. Begin("roles", RolesPlan) /\ reader' = reader
    BY <1>2 DEF CreateRoles
  <2> QED  BY <1>0, <1>k, <2>1, AdminPlans, Begun
<1>3. CASE ApplyGrants
  <2>1. Begin("grants", GrantsPlan) /\ reader' = reader
    BY <1>3 DEF ApplyGrants
  <2> QED  BY <1>0, <1>k, <2>1, AdminPlans, Begun
<1>4. CASE Initial
  <2>1. Begin("initial", PathUp(schema.revision, "0001")) /\ reader' = reader
    BY <1>4 DEF Initial
  <2> QED  BY <1>0, <1>k, <2>1, PathsArePlans, Begun
<1>5. CASE Failing
  <2>1. Begin("failing", PathUp(schema.revision, "0003")) /\ reader' = reader
    BY <1>5 DEF Failing
  <2> QED  BY <1>0, <1>k, <2>1, PathsArePlans, Begun
<1>6. CASE DowngradeStep
  <2>1. Begin("downgrade", PathDown(schema.revision, "0001")) /\ reader' = reader
    BY <1>6 DEF DowngradeStep
  <2> QED  BY <1>0, <1>k, <2>1, PathsArePlans, Begun
<1>7. CASE Compat
  <2>1. Begin("compat", PathUp(schema.revision, "0002")) /\ reader' \in {"off", "reading", "refused"}
    BY <1>7 DEF Compat
  <2> QED  BY <1>0, <1>k, <2>1, PathsArePlans, Begun
<1>8. CASE CheckRoles
  <2>1. Begin("check", Expectations) /\ reader' = reader
    BY <1>8 DEF CheckRoles
  <2> QED  BY <1>0, <2>1, CheckPlan, Begun
<1> QED  BY <1>1, <1>2, <1>3, <1>4, <1>5, <1>6, <1>7, <1>8

(* The seed, the loader, the insert loop and a grant by hand keep the      *)
(* types.                                                                  *)
LEMMA TypesData ==
  ASSUME TypeOK, Planned, SeedDimensions \/ LoadData \/ InsertLoop \/ GrantByHand
  PROVE  TypeOK' /\ Planned'
<1>1. /\ UNCHANGED <<engine, database, roles, schema, probe, job, reader, before>>
      /\ outcome' \in {outcome, "none"}
      /\ rows' \in {rows, "seeded", "unique", "repeated"}
  BY DEF SeedDimensions, LoadData, InsertLoop, Store, GrantByHand
<1>2. \A g \in grants' : g \in grants \/ (g.role \in roles' /\ g.table \in Tables \cup {"*"})
  <2>1. grants' = grants \/ \E d \in Drifts : d.role \in roles /\ grants' = grants \cup {d}
    BY DEF SeedDimensions, LoadData, InsertLoop, Store, GrantByHand
  <2>2. \A d \in Drifts : d.table \in Tables
    BY MigrationsAssumption
  <2>3. CASE grants' = grants
    BY <2>3, Zenon
  <2>4. ASSUME NEW d \in Drifts, d.role \in roles, grants' = grants \cup {d}
        PROVE  \A g \in grants' : g \in grants \/ (g.role \in roles' /\ g.table \in Tables \cup {"*"})
    <3>1. roles' = roles
      BY <1>1
    <3> QED  BY <2>2, <2>4, <3>1, Zenon
  <2> QED  BY <2>1, <2>3, <2>4
<1>3. rows' \in {"none", "seeded", "unique", "repeated"}
  BY <1>1, WereTyped
<1>4. /\ Planned' /\ job'.step \in Alembic \cup Admin \cup {"idle", "repair", "check"}
      /\ job'.view.objects \subseteq Objects /\ job'.ok \in BOOLEAN
  BY <1>1, Rested
<1>5. /\ database' \in BOOLEAN /\ probe' \in BOOLEAN /\ roles \subseteq roles'
      /\ roles' \subseteq RuntimeRoles \cup {"cp_migration"} /\ reader' \in {"off", "reading", "refused"}
      /\ engine' = engine
  BY <1>1, WereTyped
<1> QED  BY <1>2, <1>3, <1>4, <1>5, Typed

(* A statement of a migration or of the repair keeps the types.            *)
LEMMA TypesStatement ==
  ASSUME TypeOK, Planned, Statement
  PROVE  TypeOK' /\ Planned'
<1> DEFINE s == After(Head(job.plan), Seen)
<1>1. /\ job.step \in Alembic \cup {"repair"} /\ job.plan # <<>> /\ outcome' = outcome
      /\ UNCHANGED <<engine, database, roles, rows, probe, reader>>
  BY DEF Statement
<1>2. Seen \in Schemas
  BY DEF Seen, Planned
<1>3. s \in Schemas
  BY <1>1, <1>2, AfterStatement, ToSetTail DEF Planned
<1>4. /\ job.step # "idle" /\ job.view \in Schemas /\ schema \in Schemas /\ job.ok \in BOOLEAN
  BY <1>1, Kinds, JobTypes DEF Planned
<1>5. /\ schema' \in {schema, s}
      /\ \/ job' = [job EXCEPT !.plan = Tail(@), !.view = s]
         \/ job' = [job EXCEPT !.plan = Tail(@)]
      /\ grants' = grants \/ grants' = GrantsLeft(s.objects)
  BY DEF Statement
<1> HIDE DEF s
<1>6. job' = Job(job.step, Tail(job.plan), s, job.ok) \/ job' = Job(job.step, Tail(job.plan), job.view, job.ok)
  BY <1>5, JobEdits
<1>7. /\ Planned' /\ job'.step \in Alembic \cup Admin \cup {"idle", "repair", "check"}
      /\ job'.view.objects \subseteq Objects /\ job'.ok \in BOOLEAN
  BY <1>1, <1>3, <1>4, <1>5, <1>6, Shortened
<1>8. \A g \in grants' : g \in grants
  BY <1>5, GrantsStay
<1> QED  BY <1>1, <1>7, <1>8, Typed, WereTyped, Zenon

(* So does the end of alembic.                                             *)
LEMMA TypesAlembicEnds ==
  ASSUME TypeOK, Planned, RunEnds \/ RunFails
  PROVE  TypeOK' /\ Planned'
<1>1. Seen \in Schemas /\ schema \in Schemas
  BY DEF Seen, Planned
<1>2. job.step \in Alembic /\ (AlembicEnds(Seen) \/ AlembicEnds(schema))
  BY DEF RunEnds, RunFails
<1>3. ASSUME NEW s \in Schemas, AlembicEnds(s) PROVE TypeOK' /\ Planned'
  BY <1>2, <1>3, Ended
<1> QED  BY <1>1, <1>2, <1>3

(* So does the end of a command.                                           *)
LEMMA TypesEnd ==
  ASSUME TypeOK, Planned, RepairEnds \/ AdminEnds \/ Killed
  PROVE  TypeOK' /\ Planned'
<1>1. /\ job' = Idle /\ reader' \in {reader, "off"}
      /\ UNCHANGED <<engine, database, roles, grants, schema, rows, probe>>
  BY DEF RepairEnds, AdminEnds, Killed
<1>2. schema' \in Schemas
  BY <1>1, SchemaTyped
<1>3. /\ Planned' /\ job'.step = "idle"
      /\ job'.view.objects \subseteq Objects /\ job'.ok \in BOOLEAN
  BY <1>1, <1>2, Stopped
<1> QED  BY <1>1, <1>3, Typed, WereTyped, Zenon

(* So does a statement of bootstrap.                                       *)
LEMMA TypesAdmin ==
  ASSUME TypeOK, Planned, AdminStatement
  PROVE  TypeOK' /\ Planned'
<1> DEFINE s == Head(job.plan)
<1>1. /\ job.step \in Admin /\ job.plan # <<>> /\ outcome' = outcome
      /\ UNCHANGED <<engine, reader>>
      /\ \/ AdminAccepted(s) /\ AdminEffect(s) /\ job' = [job EXCEPT !.plan = Tail(@)]
         \/ job' = Idle /\ UNCHANGED <<database, roles, grants, schema, rows, probe>>
  BY DEF AdminStatement
<1>2. s \in AdminStatements
  BY <1>1, ToSetTail DEF Planned
<1> HIDE DEF s
<1>3. /\ job.step # "idle" /\ job.view \in Schemas /\ schema \in Schemas /\ job.ok \in BOOLEAN
  BY <1>1, Kinds, JobTypes DEF Planned
<1>4. CASE AdminAccepted(s) /\ AdminEffect(s) /\ job' = [job EXCEPT !.plan = Tail(@)]
  <2>1. schema' \in Schemas
    BY <1>3, <1>4, AdminEffects, EmptySchema
  <2>2. job' = Job(job.step, Tail(job.plan), job.view, job.ok)
    BY <1>4, JobEdits
  <2>3. /\ Planned' /\ job'.step \in Alembic \cup Admin \cup {"idle", "repair", "check"}
        /\ job'.view.objects \subseteq Objects /\ job'.ok \in BOOLEAN
    BY <1>1, <1>3, <2>1, <2>2, Shortened
  <2>4. roles \subseteq roles' /\ roles' \subseteq RuntimeRoles \cup {"cp_migration"}
    BY <1>2, <1>4, AdminEffects, AdminKinds, WereTyped
  <2>5. rows' \in {"none", "seeded", "unique", "repeated"}
    BY <1>4, AdminEffects, WereTyped
  <2>6. database' \in BOOLEAN
    <3>1. database' \in {FALSE, TRUE, database}
      BY <1>4, AdminEffects
    <3> QED  BY <3>1, WereTyped
  <2>7. probe' \in BOOLEAN
    <3>1. probe' \in {FALSE, probe}
      BY <1>4, AdminEffects
    <3> QED  BY <3>1, WereTyped
  <2>8. \A g \in grants' : g \in grants \/ g \in Gives(s)
    BY <1>4, AdminEffects, GrantsStay
  <2>9. ASSUME NEW g \in Gives(s) PROVE g.role \in roles /\ g.table \in Tables \cup {"*"}
    <3>1. CASE s.do = "grant"
      <4>1. g \in s.of /\ s.of \subseteq Grants
        BY <1>2, <2>9, <3>1, AdminKinds DEF Gives
      <4>2. \A h \in s.of : h.role \in roles
        BY <1>4, <3>1, Zenon DEF AdminAccepted
      <4>3. g.table \in Tables \cup {"*"}
        BY <4>1 DEF Grants
      <4> QED  BY <4>1, <4>2, <4>3
    <3>2. CASE s.do = "grantall"
      <4>1. PICK p \in s.of, t \in SchemaTables(schema) : g = Grant(p[1], p[2], t)
        BY <2>9, <3>2 DEF Gives
      <4>2. p[1] \in roles
        BY <1>4, <3>2, <4>1, Zenon DEF AdminAccepted
      <4> QED  BY <4>1, <4>2 DEF Grant, SchemaTables
    <3> QED  BY <2>9, <3>1, <3>2 DEF Gives
  <2>10. reader' \in {"off", "reading", "refused"} /\ engine' = engine
    BY <1>1, WereTyped
  <2> QED  BY <2>3, <2>4, <2>5, <2>6, <2>7, <2>8, <2>9, <2>10, Typed, Zenon
<1>5. CASE job' = Idle /\ UNCHANGED <<database, roles, grants, schema, rows, probe>>
  <2>1. schema' \in Schemas
    BY <1>3, <1>5
  <2>2. /\ Planned' /\ job'.step = "idle"
        /\ job'.view.objects \subseteq Objects /\ job'.ok \in BOOLEAN
    BY <1>5, <2>1, Stopped
  <2> QED  BY <1>1, <1>5, <2>2, Typed, WereTyped, Zenon
<1> QED  BY <1>1, <1>4, <1>5

(* So does an attempt of the role check.                                   *)
LEMMA TypesAttempt ==
  ASSUME TypeOK, Planned, Attempt
  PROVE  TypeOK' /\ Planned'
<1> DEFINE t == Head(job.plan)
<1>1. /\ job.step = "check" /\ job.plan # <<>> /\ outcome' = outcome
      /\ UNCHANGED <<engine, database, roles, rows, reader>>
      /\ grants' = GrantsLeft(schema'.objects)
      /\ schema' \in {schema, After(Create(t.table), schema), After(Drop(t.table), schema)}
      /\ schema' = schema \/ t.table = "poc_role_probe"
  BY DEF Attempt
<1>2. probe' = (probe \/ (Allowed(t) /\ t.right = "insert" /\ HasArtifacts))
  BY DEF Attempt
<1>3. job' = [job EXCEPT !.plan = Tail(@), !.ok = @ /\ Allowed(t) = t.expected]
  BY DEF Attempt
<1> HIDE DEF t
<1>4. schema \in Schemas /\ job.view \in Schemas
  BY DEF Planned
<1>5. schema' \in Schemas
  BY <1>1, <1>4, AfterTyped
<1>6. job' = Job(job.step, Tail(job.plan), job.view, job.ok /\ Allowed(t) = t.expected)
  <2>1. PICK ok : ok = (job.ok /\ Allowed(t) = t.expected)
    OBVIOUS
  <2>2. job' = [job EXCEPT !.plan = Tail(@), !.ok = ok]
    BY <1>3, <2>1
  <2> QED  BY <2>1, <2>2, JobEdits
<1>7. (job.ok /\ Allowed(t) = t.expected) \in BOOLEAN
  OBVIOUS
<1>8. /\ Planned' /\ job'.step \in Alembic \cup Admin \cup {"idle", "repair", "check"}
      /\ job'.view.objects \subseteq Objects /\ job'.ok \in BOOLEAN
  <2>1. PICK ok \in BOOLEAN : ok = (job.ok /\ Allowed(t) = t.expected)
    BY <1>7
  <2>2. job' = Job(job.step, Tail(job.plan), job.view, ok)
    BY <1>6, <2>1
  <2>3. job.step # "idle"
    BY <1>1
  <2> QED  BY <1>1, <1>4, <1>5, <2>2, <2>3, Shortened
<1>9. probe' \in BOOLEAN
  BY <1>2, WereTyped
<1>10. \A g \in grants' : g \in grants
  BY <1>1, GrantsStay
<1>11. /\ database' \in BOOLEAN /\ roles \subseteq roles' /\ roles' \subseteq RuntimeRoles \cup {"cp_migration"}
       /\ rows' \in {"none", "seeded", "unique", "repeated"} /\ reader' \in {"off", "reading", "refused"}
       /\ engine' = engine
  BY <1>1, WereTyped
<1> QED  BY <1>8, <1>9, <1>10, <1>11, Typed, Zenon

(* So does the end of the role check.                                      *)
LEMMA TypesCheckEnds ==
  ASSUME TypeOK, Planned, CheckEnds
  PROVE  TypeOK' /\ Planned'
<1>1. /\ job' = Idle /\ UNCHANGED <<engine, database, roles, rows, reader>>
      /\ grants' = GrantsLeft(schema'.objects)
      /\ schema' \in {schema, After(Drop("poc_role_probe"), schema)}
  BY DEF CheckEnds
<1>2. probe' \in {FALSE, probe}
  BY DEF CheckEnds
<1>3. schema' \in Schemas
  BY <1>1, AfterTyped, SchemaTyped
<1>4. /\ Planned' /\ job'.step = "idle"
      /\ job'.view.objects \subseteq Objects /\ job'.ok \in BOOLEAN
  BY <1>1, <1>3, Stopped
<1>5. probe' \in BOOLEAN
  BY <1>2, WereTyped
<1>6. \A g \in grants' : g \in grants
  BY <1>1, GrantsStay
<1>7. /\ database' \in BOOLEAN /\ roles \subseteq roles' /\ roles' \subseteq RuntimeRoles \cup {"cp_migration"}
      /\ rows' \in {"none", "seeded", "unique", "repeated"} /\ reader' \in {"off", "reading", "refused"}
      /\ engine' = engine
  BY <1>1, WereTyped
<1> QED  BY <1>4, <1>5, <1>6, <1>7, Typed, Zenon

(* Every step keeps the types.                                             *)
LEMMA TypesKept ==
  ASSUME TypeOK, Planned, [Next]_vars
  PROVE  TypeOK' /\ Planned'
<1>1. CASE UNCHANGED vars
  BY <1>1 DEF vars, TypeOK, Planned
<1> QED
  BY <1>1, TypesBegin, TypesData, TypesStatement, TypesAlembicEnds, TypesEnd, TypesAdmin,
     TypesAttempt, TypesCheckEnds DEF Next
----------------------------------------------------------------------------
(* A plan without statements is empty.                                     *)
LEMMA NothingInPlan ==
  ASSUME NEW S, NEW p \in Seq(S), ToSet(p) = {}
  PROVE  p = <<>>
<1> SUFFICES ASSUME p # <<>> PROVE FALSE
  OBVIOUS
<1>1. ToSet(p) = {Head(p)} \cup ToSet(Tail(p))
  BY ToSetTail
<1> QED  BY <1>1

(* The table of the role check does not count.                             *)
LEMMA GoodProbe ==
  ASSUME NEW v \in Schemas, Good(v)
  PROVE  Good(After(Create("poc_role_probe"), v)) /\ Good(After(Drop("poc_role_probe"), v))
<1>1. /\ Create("poc_role_probe") \in Statements /\ Drop("poc_role_probe") \in Statements
      /\ Create("poc_role_probe").do = "create" /\ Create("poc_role_probe").of = "poc_role_probe"
      /\ Drop("poc_role_probe").do = "drop" /\ Drop("poc_role_probe").of = "poc_role_probe"
  BY DEF Statements, Create, Drop, Objects
<1>2. /\ After(Create("poc_role_probe"), v)
           = [objects |-> v.objects \cup {"poc_role_probe"}, revision |-> v.revision]
      /\ After(Drop("poc_role_probe"), v)
           = [objects |-> v.objects \ {"poc_role_probe"}, revision |-> v.revision]
  BY <1>1, AfterStatement
<1>3. "poc_role_probe" \notin ObjectsAt("0002")
  BY ObjectsAtLevels, ObjectsApart
<1> QED  BY <1>2, <1>3 DEF Good

(* Where the revision tells the schema there is nothing to repair but at   *)
(* 0003.                                                                   *)
LEMMA GoodRepair ==
  ASSUME NEW v \in Schemas, Good(v), v.revision # "0003"
  PROVE  Repairs(v.objects) = <<>>
<1>1. v.objects \cap ToSet(Objects0003) = {}
  <2>1. v.revision \in {"none", "0001", "0002"}
    BY Levels DEF Schemas
  <2>2. v.objects \ {"poc_role_probe"} = ObjectsAt(v.revision)
    BY <2>1 DEF Good
  <2> QED  BY <2>1, <2>2, ObjectsAtLevels, ObjectsApart
<1>2. ToSet(Repairs(v.objects)) = {}
  BY <1>1, RepairPlan
<1> QED  BY <1>2, RepairPlan, NothingInPlan

(* At 0003 the repair may drop.                                            *)
LEMMA GoodDrop ==
  ASSUME NEW v \in Schemas, Good(v), v.revision = "0003",
         NEW s \in Statements, s.do = "drop", s.of \in ToSet(Objects0003)
  PROVE  Good(After(s, v)) /\ After(s, v).revision = "0003"
<1>1. After(s, v) = [objects |-> v.objects \ {s.of}, revision |-> v.revision]
  BY AfterStatement
<1>2. s.of \notin ObjectsAt("0002")
  BY ObjectsAtLevels, ObjectsApart
<1> QED  BY <1>1, <1>2 DEF Good

(* A command begins with a plan that ends at a schema its revision tells.  *)
LEMMA ToldBegin ==
  ASSUME TypeOK, Planned, Told,
         Reset \/ CreateRoles \/ ApplyGrants \/ Initial \/ Failing \/ DowngradeStep \/ Compat \/ CheckRoles
  PROVE  Told'
<1>1. ASSUME NEW step, NEW plan, Begin(step, plan), step # "repair",
             \/ step \in Admin \cup {"check"}
             \/ plan = PathDown(schema.revision, "0001")
             \/ \E to \in {"0001", "0002", "0003"} : plan = PathUp(schema.revision, to)
      PROVE  Told'
  <2>1. engine' = engine /\ schema' = schema /\ job' = Job(step, plan, schema, TRUE)
    BY <1>1 DEF Begin
  <2>2. job'.step = step /\ job'.plan = plan /\ job'.view = schema
    BY <2>1, JobIs
  <2> SUFFICES ASSUME engine = "postgres"
               PROVE  /\ Good(schema)
                      /\ step \in Alembic => EndsGood(plan, schema)
                      /\ step # "repair"
    BY <2>1, <2>2 DEF Told
  <2>3. Good(schema) /\ schema \in Schemas
    BY SchemaTyped DEF Told
  <2>4. step \in Alembic => EndsGood(plan, schema)
    BY <1>1, <2>3, UpEndsGood, DownEndsGood, Kinds
  <2> QED  BY <1>1, <2>3, <2>4
<1> QED  BY <1>1, Kinds DEF Reset, CreateRoles, ApplyGrants, Initial, Failing, DowngradeStep, Compat, CheckRoles, Admin

(* A statement changes alembic's own view, or repairs what 0003            *)
(* committed.                                                              *)
LEMMA ToldStatement ==
  ASSUME TypeOK, Planned, Told, Repaired, Statement, Planned'
  PROVE  Told'
<1> SUFFICES ASSUME engine = "postgres" PROVE Told'
  BY DEF Told, Statement
<1> DEFINE s == Head(job.plan)
<1>1. /\ job.step \in Alembic \cup {"repair"} /\ job.plan # <<>> /\ engine' = engine
  BY DEF Statement
<1>2. s \in Statements /\ job.plan \in Seq(Statements) /\ s \in ToSet(job.plan)
  BY <1>1, ToSetTail DEF Planned
<1>3. /\ schema \in Schemas /\ job.view \in Schemas /\ Good(schema)
  BY DEF Planned, Told
<1>4. CASE job.step \in Alembic
  <2>1. /\ Seen = job.view
        /\ job' = [job EXCEPT !.plan = Tail(@), !.view = After(s, Seen)] /\ schema' = schema
    BY <1>4 DEF Statement, Transactional, Seen
  <2>2. job' = Job(job.step, Tail(job.plan), After(s, job.view), job.ok)
    BY <2>1, JobEdits
  <2>3. job'.step = job.step /\ job'.plan = Tail(job.plan) /\ job'.view = After(s, job.view)
    BY <2>2, JobIs
  <2>4. EndsGood(Tail(job.plan), After(s, job.view))
    BY <1>1, <1>2, <1>3, <1>4, StepEndsGood DEF Told
  <2>5. job'.step # "repair"
    BY <1>4, <2>3, Kinds
  <2> QED  BY <1>1, <1>3, <2>1, <2>3, <2>4, <2>5 DEF Told
<1>5. CASE job.step = "repair"
  <2>1. /\ Seen = schema /\ job' = [job EXCEPT !.plan = Tail(@)] /\ schema' = After(s, schema)
    BY <1>5, Kinds DEF Statement, Transactional, Seen
  <2>2. job'.step = "repair"
    <3>1. job' = Job(job.step, Tail(job.plan), job.view, job.ok)
      BY <2>1, JobEdits
    <3> QED  BY <1>5, <3>1, JobIs
  <2>3. schema.revision = "0003"
    BY <1>1, <1>5 DEF Told
  <2>4. s.do = "drop" /\ s.of \in ToSet(Objects0003)
    BY <1>2, <1>5 DEF Repaired
  <2>5. Good(schema') /\ schema'.revision = "0003"
    BY <1>2, <1>3, <2>1, <2>3, <2>4, GoodDrop
  <2> QED  BY <2>2, <2>5, Kinds DEF Told
<1> QED  BY <1>1, <1>4, <1>5

(* alembic commits a schema that its revision tells, or rolls back to      *)
(* one.                                                                    *)
LEMMA ToldAlembicEnds ==
  ASSUME TypeOK, Planned, Told, RunEnds \/ RunFails
  PROVE  Told'
<1> SUFFICES ASSUME engine = "postgres" PROVE Told'
  BY DEF Told, RunEnds, RunFails, AlembicEnds
<1>1. job.step \in Alembic
  BY DEF RunEnds, RunFails
<1>2. PICK s \in Schemas : AlembicEnds(s) /\ Good(s)
  <2>1. CASE RunEnds
    <3>1. Seen = job.view /\ job.plan = <<>> /\ AlembicEnds(job.view)
      BY <1>1, <2>1 DEF RunEnds, Transactional, Seen
    <3>2. Good(job.view) /\ job.view \in Schemas
      BY <1>1, <3>1 DEF Told, EndsGood, Planned
    <3> QED  BY <3>1, <3>2
  <2>2. CASE RunFails
    BY <2>2 DEF RunFails, Told, Planned
  <2> QED  BY <2>1, <2>2
<1>3. schema' = s /\ engine' = engine /\ job' = Continuation(s)
  BY <1>2 DEF AlembicEnds
<1>4. \/ job' = Idle
      \/ job' = Job("reupgrade", PathUp(s.revision, "0002"), s, TRUE)
      \/ job' = Job("repair", Repairs(s.objects), s, TRUE)
  BY <1>3, Continued
<1>5. CASE job' = Idle
  <2>1. job'.step = "idle"
    BY <1>5, IdleFields
  <2> QED  BY <1>2, <1>3, <2>1, Kinds DEF Told
<1>6. CASE job' = Job("reupgrade", PathUp(s.revision, "0002"), s, TRUE)
  <2>1. job'.step = "reupgrade" /\ job'.plan = PathUp(s.revision, "0002") /\ job'.view = s
    BY <1>6, JobIs
  <2>2. EndsGood(PathUp(s.revision, "0002"), s)
    BY <1>2, UpEndsGood
  <2> QED  BY <1>2, <1>3, <2>1, <2>2 DEF Told
<1>7. CASE job' = Job("repair", Repairs(s.objects), s, TRUE)
  <2>1. job'.step = "repair" /\ job'.plan = Repairs(s.objects)
    BY <1>7, JobIs
  <2>2. s.revision # "0003" => Repairs(s.objects) = <<>>
    BY <1>2, GoodRepair
  <2> QED  BY <1>2, <1>3, <2>1, <2>2, Kinds DEF Told
<1> QED  BY <1>4, <1>5, <1>6, <1>7

(* No other step changes more than the table of the role check.            *)
LEMMA ToldRest ==
  ASSUME TypeOK, Planned, Told, TypeOK', Planned',
         \/ UNCHANGED vars
         \/ SeedDimensions \/ LoadData \/ InsertLoop \/ GrantByHand
         \/ RepairEnds \/ AdminEnds \/ Killed \/ AdminStatement \/ Attempt \/ CheckEnds
  PROVE  Told'
<1> SUFFICES ASSUME engine = "postgres" PROVE Told'
  BY DEF Told, vars, SeedDimensions, LoadData, InsertLoop, Store, GrantByHand, RepairEnds, AdminEnds,
     Killed, AdminStatement, Attempt, CheckEnds
<1>1. CASE \/ UNCHANGED vars
           \/ SeedDimensions \/ LoadData \/ InsertLoop \/ GrantByHand
  <2>1. UNCHANGED <<job, schema>>
    BY <1>1 DEF vars, SeedDimensions, LoadData, InsertLoop, Store, GrantByHand
  <2> QED  BY <2>1 DEF Told
<1>2. schema \in Schemas /\ Good(schema) /\ Good(NoSchema)
  BY EmptySchema, ObjectsAtLevels DEF Told, Planned, Good
<1>3. ASSUME Good(schema'), job'.step \in Admin \cup {"check", "idle"} PROVE Told'
  BY <1>3, Kinds DEF Told
<1>4. CASE RepairEnds \/ AdminEnds \/ Killed
  <2>1. schema' = schema /\ job'.step = "idle"
    BY <1>4, IdleFields DEF RepairEnds, AdminEnds, Killed
  <2> QED  BY <1>2, <1>3, <2>1
<1>5. CASE AdminStatement
  <2>1. schema' = schema \/ schema' = NoSchema
    BY <1>5 DEF AdminStatement, AdminEffect
  <2>2. job.step \in Admin /\ (job' = Idle \/ job' = [job EXCEPT !.plan = Tail(@)])
    BY <1>5 DEF AdminStatement
  <2>3. job' = Idle \/ job' = Job(job.step, Tail(job.plan), job.view, job.ok)
    BY <2>2, JobEdits
  <2>4. job'.step \in Admin \cup {"check", "idle"}
    <3>1. CASE job' = Idle
      BY <3>1, IdleFields
    <3>2. CASE job' = Job(job.step, Tail(job.plan), job.view, job.ok)
      BY <2>2, <3>2, JobIs
    <3> QED  BY <2>3, <3>1, <3>2
  <2> QED  BY <1>2, <1>3, <2>1, <2>4
<1>6. CASE Attempt
  <2>1. \/ schema' = schema \/ schema' = After(Create("poc_role_probe"), schema)
        \/ schema' = After(Drop("poc_role_probe"), schema)
    BY <1>6 DEF Attempt
  <2>2. PICK ok : job' = [job EXCEPT !.plan = Tail(@), !.ok = ok]
    BY <1>6 DEF Attempt
  <2>3. job.step = "check" /\ job' = Job(job.step, Tail(job.plan), job.view, ok)
    BY <1>6, <2>2, JobEdits DEF Attempt
  <2>4. job'.step = "check"
    BY <2>3, JobIs
  <2> QED  BY <1>2, <1>3, <2>1, <2>4, GoodProbe
<1>7. CASE CheckEnds
  <2>1. schema' = schema \/ schema' = After(Drop("poc_role_probe"), schema)
    BY <1>7 DEF CheckEnds
  <2>2. job'.step = "idle"
    BY <1>7, IdleFields DEF CheckEnds
  <2> QED  BY <1>2, <1>3, <2>1, <2>2, GoodProbe
<1> QED  BY <1>1, <1>4, <1>5, <1>6, <1>7

(* Told is inductive.                                                      *)
LEMMA ToldKept ==
  ASSUME TypeOK, Planned, Told, Repaired, [Next]_vars, TypeOK', Planned'
  PROVE  Told'
BY ToldBegin, ToldStatement, ToldAlembicEnds, ToldRest DEF Next
----------------------------------------------------------------------------
(* Nothing is claimed of the other commands.                               *)
LEMMA RepairedElsewhere ==
  ASSUME outcome' # "failing", job'.step \notin {"failing", "repair"}
  PROVE  Repaired'
BY DEF Repaired, FailingStepCleansUp

(* A command that runs has no outcome.                                     *)
LEMMA NoOutcomeYet == Planned /\ job.step # "idle" => outcome = "none" /\ job # Idle
BY IdleFields DEF Planned

(* The step and the plan of a job that goes on.                            *)
LEMMA ShorterJob ==
  ASSUME Planned, NEW x,
         \/ job' = [job EXCEPT !.plan = Tail(@)]
         \/ job' = [job EXCEPT !.plan = Tail(@), !.view = x]
         \/ job' = [job EXCEPT !.plan = Tail(@), !.ok = x]
  PROVE  /\ job'.step = job.step /\ job'.plan = Tail(job.plan)
         /\ job' = [job EXCEPT !.plan = Tail(@), !.view = x] => job'.view = x
<1>1. CASE job' = [job EXCEPT !.plan = Tail(@)]
  <2>1. job' = Job(job.step, Tail(job.plan), job.view, job.ok)
    BY <1>1, JobEdits
  <2>2. ASSUME job' = [job EXCEPT !.plan = Tail(@), !.view = x] PROVE job'.view = x
    <3>1. job' = Job(job.step, Tail(job.plan), x, job.ok)
      BY <2>2, JobEdits
    <3> QED  BY <3>1, JobIs
  <2> QED  BY <2>1, <2>2, JobIs
<1>2. CASE job' = [job EXCEPT !.plan = Tail(@), !.view = x]
  <2>1. job' = Job(job.step, Tail(job.plan), x, job.ok)
    BY <1>2, JobEdits
  <2> QED  BY <2>1, JobIs
<1>3. CASE job' = [job EXCEPT !.plan = Tail(@), !.ok = x]
  <2>1. job' = Job(job.step, Tail(job.plan), job.view, x)
    BY <1>3, JobEdits
  <2>2. ASSUME job' = [job EXCEPT !.plan = Tail(@), !.view = x] PROVE job'.view = x
    <3>1. job' = Job(job.step, Tail(job.plan), x, job.ok)
      BY <2>2, JobEdits
    <3> QED  BY <3>1, JobIs
  <2> QED  BY <2>1, <2>2, JobIs
<1> QED  BY <1>1, <1>2, <1>3

(* The failing step starts from what is there.                             *)
LEMMA RepairedBegin ==
  ASSUME TypeOK, Planned,
         Reset \/ CreateRoles \/ ApplyGrants \/ Initial \/ Failing \/ DowngradeStep \/ Compat \/ CheckRoles
  PROVE  Repaired'
<1>1. ASSUME NEW step, NEW plan, Begin(step, plan), step \notin {"failing", "repair"}
      PROVE  Repaired'
  <2>1. job' = Job(step, plan, schema, TRUE) /\ outcome' = "none"
    BY <1>1 DEF Begin
  <2>2. job'.step = step
    BY <2>1, JobIs
  <2> QED  BY <1>1, <2>1, <2>2, RepairedElsewhere
<1>2. CASE Failing
  <2> DEFINE plan == PathUp(schema.revision, "0003")
  <2>1. /\ job' = Job("failing", plan, schema, TRUE) /\ outcome' = "none" /\ schema' = schema
        /\ before' = Found(schema.objects, probe)
    BY <1>2 DEF Failing, Begin
  <2>2. job'.step = "failing" /\ job'.plan = plan /\ job'.view = schema
    BY <2>1, JobIs
  <2>3. Upward(job'.plan)
    BY <2>2, SchemaTyped, PathsArePlans
  <2>4. Seen' = schema /\ before'.objects = schema.objects
    BY <2>1, <2>2 DEF Seen, Found
  <2> QED  BY <2>1, <2>2, <2>3, <2>4 DEF Repaired, FailingStepCleansUp
<1> QED  BY <1>1, <1>2 DEF Reset, CreateRoles, ApplyGrants, Initial, DowngradeStep, Compat, CheckRoles

(* It takes nothing away; a statement of the repair takes one object of    *)
(* 0003.                                                                   *)
LEMMA RepairedStatement ==
  ASSUME TypeOK, Planned, Repaired, Statement
  PROVE  Repaired'
<1> DEFINE s == Head(job.plan)
<1>1. /\ job.step \in Alembic \cup {"repair"} /\ job.plan # <<>> /\ engine' = engine
      /\ outcome' = outcome /\ before' = before
  BY DEF Statement
<1>2. /\ s \in Statements /\ job.plan \in Seq(Statements)
      /\ ToSet(job.plan) = {s} \cup ToSet(Tail(job.plan))
  BY <1>1, ToSetTail DEF Planned
<1>3. schema \in Schemas /\ job.view \in Schemas /\ outcome' = "none"
  BY <1>1, Kinds, NoOutcomeYet DEF Planned
<1>4. job'.step = job.step /\ job'.plan = Tail(job.plan)
  <2>1. \/ job' = [job EXCEPT !.plan = Tail(@), !.view = After(s, Seen)]
        \/ job' = [job EXCEPT !.plan = Tail(@)]
    BY DEF Statement
  <2> QED  BY <2>1, ShorterJob
<1>5. CASE job.step = "failing"
  <2>1. Upward(job.plan) /\ s.do \in {"create", "stamp"} /\ Upward(Tail(job.plan))
    BY <1>2, <1>5 DEF Repaired, Upward
  <2>2. Seen \in Schemas
    BY <1>3 DEF Seen
  <2>3. Seen.objects \subseteq After(s, Seen).objects
    BY <1>2, <2>1, <2>2, AfterStatement
  <2>4. before.objects \subseteq schema.objects /\ before.objects \subseteq Seen.objects
    BY <1>5 DEF Repaired
  <2>5. CASE Transactional
    <3>1. job' = [job EXCEPT !.plan = Tail(@), !.view = After(s, Seen)] /\ schema' = schema
      BY <2>5 DEF Statement
    <3>2. job'.view = After(s, Seen)
      BY <3>1, ShorterJob
    <3>3. Seen' = job'.view
      BY <1>1, <1>4, <2>5 DEF Seen, Transactional
    <3> QED  BY <1>1, <1>3, <1>4, <1>5, <2>1, <2>3, <2>4, <3>1, <3>2, <3>3 DEF Repaired, FailingStepCleansUp
  <2>6. CASE ~Transactional
    <3>1. schema' = After(s, Seen)
      BY <2>6 DEF Statement
    <3>2. Seen' = schema'
      BY <1>1, <1>4, <2>6 DEF Seen, Transactional
    <3> QED  BY <1>1, <1>3, <1>4, <1>5, <2>1, <2>3, <2>4, <3>1, <3>2 DEF Repaired, FailingStepCleansUp
  <2> QED  BY <2>5, <2>6
<1>6. CASE job.step = "repair"
  <2>1. schema' = After(s, schema)
    BY <1>6, Kinds DEF Statement, Transactional, Seen
  <2>2. /\ \A t \in ToSet(job.plan) : t.do = "drop" /\ t.of \in ToSet(Objects0003)
        /\ schema.objects \cap ToSet(Objects0003) \subseteq Named("drop", job.plan)
        /\ before.objects \ ToSet(Objects0003) \subseteq schema.objects
    BY <1>6 DEF Repaired
  <2>3. schema'.objects = schema.objects \ {s.of}
    BY <1>2, <1>3, <2>1, <2>2, AfterStatement
  <2>4. Named("drop", job.plan) \subseteq {s.of} \cup Named("drop", Tail(job.plan))
    BY <1>2 DEF Named
  <2>5. s.of \in ToSet(Objects0003) /\ \A t \in ToSet(Tail(job.plan)) : t.do = "drop" /\ t.of \in ToSet(Objects0003)
    BY <1>2, <2>2
  <2>6. /\ schema'.objects \cap ToSet(Objects0003) \subseteq Named("drop", Tail(job.plan))
        /\ before.objects \ ToSet(Objects0003) \subseteq schema'.objects
    BY <2>2, <2>3, <2>4, <2>5
  <2>7. Named("drop", job.plan)' = Named("drop", Tail(job.plan))
    BY <1>4 DEF Named
  <2> QED  BY <1>1, <1>3, <1>4, <1>6, <2>5, <2>6, <2>7 DEF Repaired, FailingStepCleansUp
<1>7. CASE job.step \notin {"failing", "repair"}
  BY <1>3, <1>4, <1>7, RepairedElsewhere
<1> QED  BY <1>5, <1>6, <1>7

(* The repair drops whatever is there of 0003.                             *)
LEMMA RepairedAlembicEnds ==
  ASSUME TypeOK, Planned, Repaired, RunEnds \/ RunFails
  PROVE  Repaired'
<1>1. job.step \in Alembic
  BY DEF RunEnds, RunFails
<1>2. PICK s \in {Seen, schema} : AlembicEnds(s)
  BY DEF RunEnds, RunFails
<1>3. schema' = s /\ job' = Continuation(s) /\ outcome' # "failing" /\ before' = before
  BY <1>1, <1>2, Kinds DEF AlembicEnds, Alembic
<1>4. CASE job' = Idle
  BY <1>3, <1>4, IdleFields, RepairedElsewhere
<1>5. CASE job' = Job("reupgrade", PathUp(s.revision, "0002"), s, TRUE)
  <2>1. job'.step = "reupgrade"
    BY <1>5, JobIs
  <2> QED  BY <1>3, <2>1, RepairedElsewhere
<1>6. CASE job' = Job("repair", Repairs(s.objects), s, TRUE) /\ job.step = "failing"
  <2>1. job'.step = "repair" /\ job'.plan = Repairs(s.objects)
    BY <1>6, JobIs
  <2>2. before.objects \subseteq s.objects
    BY <1>6 DEF Repaired
  <2>3. ToSet(Repairs(s.objects)) = {Drop(o) : o \in ToSet(Objects0003) \cap s.objects}
    BY RepairPlan
  <2>4. \A o : Drop(o).do = "drop" /\ Drop(o).of = o
    BY DEF Drop
  <2>5. \A t \in ToSet(Repairs(s.objects)) : t.do = "drop" /\ t.of \in ToSet(Objects0003)
    BY <2>3, <2>4
  <2>6. s.objects \cap ToSet(Objects0003) \subseteq Named("drop", Repairs(s.objects))
    BY <2>3, <2>4 DEF Named
  <2>7. Named("drop", job.plan)' = Named("drop", Repairs(s.objects))
    BY <2>1 DEF Named
  <2> QED  BY <1>3, <2>1, <2>2, <2>5, <2>6, <2>7 DEF Repaired, FailingStepCleansUp
<1>7. \/ job' = Idle
      \/ job' = Job("reupgrade", PathUp(s.revision, "0002"), s, TRUE)
      \/ job' = Job("repair", Repairs(s.objects), s, TRUE) /\ job.step = "failing"
  BY <1>3, Continued
<1> QED  BY <1>4, <1>5, <1>6, <1>7

(* Nothing is left when it ends.                                           *)
LEMMA RepairedRest ==
  ASSUME TypeOK, Planned, Repaired,
         \/ UNCHANGED vars
         \/ SeedDimensions \/ LoadData \/ InsertLoop \/ GrantByHand
         \/ RepairEnds \/ AdminEnds \/ Killed \/ AdminStatement \/ Attempt \/ CheckEnds
  PROVE  Repaired'
<1>1. CASE \/ UNCHANGED vars
           \/ SeedDimensions \/ LoadData \/ InsertLoop \/ GrantByHand
  <2>1. UNCHANGED <<engine, job, schema, before>> /\ outcome' \in {outcome, "none"}
    BY <1>1 DEF vars, SeedDimensions, LoadData, InsertLoop, Store, GrantByHand
  <2>2. Seen' = Seen /\ Named("drop", job.plan)' = Named("drop", job.plan) /\ Upward(job.plan)' = Upward(job.plan)
    BY <2>1 DEF Seen, Transactional, Named, Upward
  <2> QED  BY <2>1, <2>2 DEF Repaired, FailingStepCleansUp
<1>2. CASE RepairEnds
  <2>1. /\ job.step = "repair" /\ job.plan = <<>> /\ job' = Idle
        /\ UNCHANGED <<schema, before>>
    BY <1>2 DEF RepairEnds
  <2>2. Named("drop", <<>>) = {}
    BY DEF Named, ToSet
  <2>3. /\ schema.objects \cap ToSet(Objects0003) = {}
        /\ before.objects \ ToSet(Objects0003) \subseteq schema.objects
    BY <2>1, <2>2 DEF Repaired
  <2>4. job'.step = "idle"
    BY <2>1, IdleFields
  <2> QED  BY <2>1, <2>3, <2>4 DEF Repaired, FailingStepCleansUp
<1>3. CASE AdminEnds
  <2>1. job.step \in Admin /\ job' = Idle /\ outcome' = job.step
    BY <1>3 DEF AdminEnds
  <2>2. outcome' # "failing" /\ job'.step = "idle"
    BY <2>1, IdleFields DEF Admin
  <2> QED  BY <2>2, RepairedElsewhere
<1>4. CASE Killed
  <2>1. job # Idle /\ job' = Idle /\ outcome' = outcome
    BY <1>4 DEF Killed
  <2>2. outcome' # "failing" /\ job'.step = "idle"
    BY <2>1, IdleFields DEF Planned
  <2> QED  BY <2>2, RepairedElsewhere
<1>5. CASE AdminStatement
  <2>1. /\ job.step \in Admin /\ outcome' = outcome
        /\ job' = Idle \/ job' = [job EXCEPT !.plan = Tail(@)]
    BY <1>5 DEF AdminStatement
  <2>2. job'.step \in Admin \cup {"idle"}
    BY <2>1, IdleFields, ShorterJob
  <2>3. outcome' # "failing"
    BY <2>1, Kinds, NoOutcomeYet
  <2>4. job'.step \notin {"failing", "repair"}
    BY <2>2 DEF Admin
  <2> QED  BY <2>3, <2>4, RepairedElsewhere
<1>6. CASE Attempt
  <2>1. PICK ok : job' = [job EXCEPT !.plan = Tail(@), !.ok = ok]
    BY <1>6 DEF Attempt
  <2>2. job.step = "check" /\ outcome' = outcome
    BY <1>6 DEF Attempt
  <2>3. job'.step = "check"
    BY <2>1, <2>2, ShorterJob
  <2>4. outcome' # "failing"
    BY <2>2, NoOutcomeYet
  <2> QED  BY <2>3, <2>4, RepairedElsewhere
<1>7. CASE CheckEnds
  <2>1. /\ job.step = "check" /\ job' = Idle
        /\ outcome' \in {"check passed", "check failed", outcome}
    BY <1>7 DEF CheckEnds
  <2>2. outcome' # "failing" /\ job'.step = "idle"
    BY <2>1, IdleFields, NoOutcomeYet
  <2> QED  BY <2>2, RepairedElsewhere
<1> QED  BY <1>1, <1>2, <1>3, <1>4, <1>5, <1>6, <1>7

(* Repaired is inductive.                                                  *)
LEMMA RepairedKept ==
  ASSUME TypeOK, Planned, Repaired, [Next]_vars
  PROVE  Repaired'
BY RepairedBegin, RepairedStatement, RepairedAlembicEnds, RepairedRest DEF Next
----------------------------------------------------------------------------
(* Nothing is claimed of the other commands.                               *)
LEMMA AnsweredElsewhere ==
  ASSUME job'.step # "compat"
  PROVE  Answered'
BY DEF Answered, OldQueriesSurvive

(* A statement of 0002 takes neither the table nor a grant away.           *)
LEMMA AnsweredStatement ==
  ASSUME TypeOK, Planned, Answered, Statement
  PROVE  Answered'
<1> DEFINE s == Head(job.plan)
<1>1. /\ job.step \in Alembic \cup {"repair"} /\ job.plan # <<>>
      /\ UNCHANGED <<engine, database, roles, reader>>
  BY DEF Statement
<1>2. /\ s \in Statements /\ ToSet(job.plan) = {s} \cup ToSet(Tail(job.plan))
  BY <1>1, ToSetTail DEF Planned
<1>3. job'.step = job.step /\ job'.plan = Tail(job.plan)
  <2>1. \/ job' = [job EXCEPT !.plan = Tail(@), !.view = After(s, Seen)]
        \/ job' = [job EXCEPT !.plan = Tail(@)]
    BY DEF Statement
  <2> QED  BY <2>1, ShorterJob
<1>4. CASE job.step = "compat"
  <2>1. Upward(job.plan) /\ s.do \in {"create", "stamp"} /\ Upward(Tail(job.plan))
    BY <1>2, <1>4 DEF Answered, Upward
  <2>2. schema.objects \subseteq schema'.objects /\ grants' = grants
    <3>1. CASE Transactional
      BY <3>1 DEF Statement
    <3>2. CASE ~Transactional
      <4>1. schema' = After(s, schema) /\ grants' = GrantsLeft(schema'.objects) /\ engine # "postgres"
        BY <1>4, <3>2 DEF Statement, Seen, Transactional, Alembic
      <4>2. schema.objects \subseteq schema'.objects
        BY <1>2, <2>1, <4>1, SchemaTyped, AfterStatement
      <4> QED  BY <4>1, <4>2 DEF GrantsLeft
    <3> QED  BY <3>1, <3>2
  <2>3. May("cp_api", "select", "price_observation") => May("cp_api", "select", "price_observation")'
    BY <1>1, <2>2 DEF May
  <2>4. CanRead => CanRead'
    BY <2>2, <2>3 DEF CanRead
  <2>5. reader = "reading" => CanRead
    BY <1>4 DEF Answered, OldQueriesSurvive
  <2>6. Upward(job.plan)'
    BY <1>3, <2>1 DEF Upward
  <2> QED  BY <1>1, <2>4, <2>5, <2>6 DEF Answered, OldQueriesSurvive
<1>5. CASE job.step # "compat"
  BY <1>3, <1>5, AnsweredElsewhere
<1> QED  BY <1>4, <1>5

(* The reader starts with an answer, or without.                           *)
LEMMA AnsweredBegin ==
  ASSUME TypeOK, Planned,
         Reset \/ CreateRoles \/ ApplyGrants \/ Initial \/ Failing \/ DowngradeStep \/ Compat \/ CheckRoles
  PROVE  Answered'
<1>1. ASSUME NEW step, NEW plan, Begin(step, plan), step # "compat"
      PROVE  Answered'
  <2>1. job' = Job(step, plan, schema, TRUE)
    BY <1>1 DEF Begin
  <2> QED  BY <1>1, <2>1, JobIs, AnsweredElsewhere
<1>2. CASE Compat
  <2>1. /\ job' = Job("compat", PathUp(schema.revision, "0002"), schema, TRUE)
        /\ UNCHANGED <<engine, database, roles, grants, schema>>
        /\ reader' = IF CanRead THEN "reading" ELSE "refused"
    BY <1>2 DEF Compat, Begin
  <2>2. job'.plan = PathUp(schema.revision, "0002")
    BY <2>1, JobIs
  <2>3. Upward(job'.plan)
    BY <2>2, SchemaTyped, PathsArePlans
  <2>4. CanRead' = CanRead
    BY <2>1 DEF CanRead, May
  <2> QED  BY <2>1, <2>3, <2>4 DEF Answered, OldQueriesSurvive, Upward
<1> QED  BY <1>1, <1>2 DEF Reset, CreateRoles, ApplyGrants, Initial, Failing, DowngradeStep, CheckRoles

(* No other command runs while the reader does.                            *)
LEMMA AnsweredRest ==
  ASSUME TypeOK, Planned, Answered,
         \/ UNCHANGED vars
         \/ SeedDimensions \/ LoadData \/ InsertLoop \/ GrantByHand \/ RunEnds \/ RunFails
         \/ RepairEnds \/ AdminEnds \/ Killed \/ AdminStatement \/ Attempt \/ CheckEnds
  PROVE  Answered'
<1>1. CASE UNCHANGED vars \/ SeedDimensions \/ LoadData \/ InsertLoop
  <2>1. UNCHANGED <<engine, database, roles, grants, schema, job, reader>>
    BY <1>1 DEF vars, SeedDimensions, LoadData, InsertLoop, Store
  <2>2. CanRead' = CanRead /\ Upward(job.plan)' = Upward(job.plan)
    BY <2>1 DEF CanRead, May, Upward
  <2> QED  BY <2>1, <2>2 DEF Answered, OldQueriesSurvive
<1>2. CASE GrantByHand
  <2>1. job' = Idle
    BY <1>2 DEF GrantByHand
  <2> QED  BY <2>1, IdleFields, AnsweredElsewhere
<1>3. CASE RunEnds \/ RunFails
  <2>1. PICK s : AlembicEnds(s)
    BY <1>3 DEF RunEnds, RunFails
  <2>2. \/ job' = Idle
        \/ job' = Job("reupgrade", PathUp(s.revision, "0002"), s, TRUE)
        \/ job' = Job("repair", Repairs(s.objects), s, TRUE)
    BY <2>1, Continued DEF AlembicEnds
  <2>3. job'.step \in {"idle", "reupgrade", "repair"}
    <3>1. CASE job' = Idle
      BY <3>1, IdleFields
    <3>2. CASE job' = Job("reupgrade", PathUp(s.revision, "0002"), s, TRUE)
      BY <3>2, JobIs
    <3>3. CASE job' = Job("repair", Repairs(s.objects), s, TRUE)
      BY <3>3, JobIs
    <3> QED  BY <2>2, <3>1, <3>2, <3>3
  <2> QED  BY <2>3, AnsweredElsewhere
<1>4. CASE RepairEnds \/ AdminEnds \/ Killed \/ CheckEnds
  <2>1. job' = Idle
    BY <1>4 DEF RepairEnds, AdminEnds, Killed, CheckEnds
  <2> QED  BY <2>1, IdleFields, AnsweredElsewhere
<1>5. CASE AdminStatement
  <2>1. /\ job.step \in Admin
        /\ job' = Idle \/ job' = [job EXCEPT !.plan = Tail(@)]
    BY <1>5 DEF AdminStatement
  <2>2. job'.step \in Admin \cup {"idle"}
    BY <2>1, IdleFields, ShorterJob
  <2>3. job'.step # "compat"
    BY <2>2 DEF Admin
  <2> QED  BY <2>3, AnsweredElsewhere
<1>6. CASE Attempt
  <2>1. PICK ok : job' = [job EXCEPT !.plan = Tail(@), !.ok = ok]
    BY <1>6 DEF Attempt
  <2>2. job'.step = "check"
    BY <1>6, <2>1, ShorterJob DEF Attempt
  <2> QED  BY <2>2, AnsweredElsewhere
<1> QED  BY <1>1, <1>2, <1>3, <1>4, <1>5, <1>6

(* Answered is inductive.                                                  *)
LEMMA AnsweredKept ==
  ASSUME TypeOK, Planned, Answered, [Next]_vars
  PROVE  Answered'
BY AnsweredBegin, AnsweredStatement, AnsweredRest DEF Next
----------------------------------------------------------------------------
(* The grants of some rights to a role, on some tables.                    *)
GrantsOf(r, R, T) == [role : {r}, right : R, table : T]

(* Its elements.                                                           *)
LEMMA InGrantsOf ==
  ASSUME NEW r, NEW R, NEW T, NEW g
  PROVE  g \in GrantsOf(r, R, T) <=> \E x \in R, t \in T : g = Grant(r, x, t)
<1>1. ASSUME g \in [role : {r}, right : R, table : T]
      PROVE  \E x \in R, t \in T : g = Grant(r, x, t)
  <2>1. g.right \in R /\ g.table \in T /\ g = [role |-> r, right |-> g.right, table |-> g.table]
    BY <1>1
  <2>2. g = Grant(r, g.right, g.table)
    BY <2>1 DEF Grant
  <2> QED  BY <2>1, <2>2
<1>2. ASSUME NEW x \in R, NEW t \in T, g = Grant(r, x, t)
      PROVE  g \in [role : {r}, right : R, table : T]
  BY <1>2 DEF Grant
<1> QED  BY <1>1, <1>2 DEF GrantsOf

(* WORKER_UPDATABLE, as grants.                                            *)
LEMMA UpdatesGive ==
  /\ \A s \in ToSet(UpdateGrants) : s.do = "grant"
  /\ UNION {Gives(s) : s \in ToSet(UpdateGrants)}
       = GrantsOf("cp_worker", {"update"}, ToSet(WorkerUpdatable))
<1> DEFINE u(i) == [do |-> "grant", of |-> {Grant("cp_worker", "update", WorkerUpdatable[i])}]
<1>1. ToSet(UpdateGrants) = {u(i) : i \in 1 .. 4}
  BY DEF UpdateGrants, ToSet
<1>2. \A i \in 1 .. 4 : u(i).do = "grant" /\ Gives(u(i)) = {Grant("cp_worker", "update", WorkerUpdatable[i])}
  BY DEF Gives
<1>3. ToSet(WorkerUpdatable) = {WorkerUpdatable[i] : i \in 1 .. 4}
  BY DEF WorkerUpdatable, ToSet
<1> HIDE DEF u
<1>4. \A g : g \in UNION {Gives(s) : s \in ToSet(UpdateGrants)}
             <=> \E x \in {"update"}, t \in ToSet(WorkerUpdatable) : g = Grant("cp_worker", x, t)
  BY <1>1, <1>2, <1>3
<1>5. \A g : g \in UNION {Gives(s) : s \in ToSet(UpdateGrants)}
             <=> g \in GrantsOf("cp_worker", {"update"}, ToSet(WorkerUpdatable))
  BY <1>4, InGrantsOf
<1>6. UNION {Gives(s) : s \in ToSet(UpdateGrants)} = GrantsOf("cp_worker", {"update"}, ToSet(WorkerUpdatable))
  BY <1>5
<1> QED  BY <1>1, <1>2, <1>6

(* The statements of apply_grants add exactly the grants it names, after   *)
(* a REVOKE that comes first.                                              *)
LEMMA GrantsPlanGives ==
  ASSUME engine = "postgres"
  PROVE  /\ GrantsPlan # <<>> /\ Head(GrantsPlan).do = "revoke"
         /\ \A s \in ToSet(Tail(GrantsPlan)) : s.do \in {"grant", "grantall"}
         /\ UNION {Gives(s) : s \in ToSet(GrantsPlan)} = Intended(SchemaTables(schema))
<1> DEFINE a == [do |-> "revoke"]
           b == [do |-> "grantall", of |-> {<<"cp_api", "select">>}]
           c == [do |-> "grantall", of |-> {<<"cp_worker", "select">>, <<"cp_worker", "insert">>}]
           S == {a, b, c} \cup ToSet(UpdateGrants)
           T == SchemaTables(schema)
<1>1. GrantsPlan = <<a, b, c>> \o UpdateGrants
  BY DEF GrantsPlan
<1>2. a.do = "revoke" /\ b.do = "grantall" /\ c.do = "grantall"
  OBVIOUS
<1>3. Gives(a) = {}
  BY DEF Gives
<1>4. Gives(b) = GrantsOf("cp_api", {"select"}, T)
  <2>1. Gives(b) = {Grant(p[1], p[2], t) : p \in {<<"cp_api", "select">>}, t \in T}
    BY DEF Gives
  <2> HIDE DEF T
  <2>2. \A g : g \in Gives(b) <=> \E x \in {"select"}, t \in T : g = Grant("cp_api", x, t)
    BY <2>1
  <2>3. \A g : g \in Gives(b) <=> g \in GrantsOf("cp_api", {"select"}, T)
    BY <2>2, InGrantsOf
  <2> QED  BY <2>3
<1>5. Gives(c) = GrantsOf("cp_worker", {"select", "insert"}, T)
  <2>1. Gives(c) = {Grant(p[1], p[2], t) : p \in {<<"cp_worker", "select">>, <<"cp_worker", "insert">>}, t \in T}
    BY DEF Gives
  <2> HIDE DEF T
  <2>2. \A g : g \in Gives(c) <=> \E x \in {"select", "insert"}, t \in T : g = Grant("cp_worker", x, t)
    BY <2>1
  <2>3. \A g : g \in Gives(c) <=> g \in GrantsOf("cp_worker", {"select", "insert"}, T)
    BY <2>2, InGrantsOf
  <2> QED  BY <2>3
<1>6. Intended(T) = GrantsOf("cp_api", {"select"}, T) \cup GrantsOf("cp_worker", {"select", "insert"}, T)
                    \cup GrantsOf("cp_worker", {"update"}, ToSet(WorkerUpdatable))
  BY DEF Intended, GrantsOf
<1> HIDE DEF a, b, c, T
<1>12. UpdateGrants \in Seq(ToSet(UpdateGrants))
  BY DEF UpdateGrants, ToSet
<1>7. UpdateGrants \in Seq(S)
  BY <1>12 DEF UpdateGrants, ToSet
<1>8. a \in S /\ b \in S /\ c \in S
  OBVIOUS
<1> HIDE DEF S
<1>9. /\ GrantsPlan # <<>> /\ Head(GrantsPlan) = a
      /\ ToSet(Tail(GrantsPlan)) = {b, c} \cup ToSet(UpdateGrants)
      /\ ToSet(GrantsPlan) = {a, b, c} \cup ToSet(UpdateGrants)
  <2>0. PICK Q : Q = S
    OBVIOUS
  <2>1. PICK u \in Seq(Q), x \in Q, y \in Q, z \in Q : u = UpdateGrants /\ x = a /\ y = b /\ z = c
    BY <1>7, <1>8, <2>0
  <2>2. /\ <<x, y, z>> \o u # <<>> /\ Head(<<x, y, z>> \o u) = x
        /\ Tail(<<x, y, z>> \o u) = <<y, z>> \o u
        /\ ToSet(<<y, z>> \o u) = {y, z} \cup ToSet(u)
        /\ ToSet(<<x, y, z>> \o u) = {x, y, z} \cup ToSet(u)
    <3>1. <<x, y, z>> \in Seq(Q) /\ <<y, z>> \in Seq(Q) /\ Len(<<x, y, z>>) = 3 /\ Len(<<y, z>>) = 2
      OBVIOUS
    <3>2. ToSet(<<x, y, z>>) = {x, y, z} /\ ToSet(<<y, z>>) = {y, z}
      BY DEF ToSet
    <3>3. /\ <<x, y, z>> \o u \in Seq(Q) /\ <<y, z>> \o u \in Seq(Q)
          /\ Len(<<x, y, z>> \o u) = 3 + Len(u) /\ Len(<<y, z>> \o u) = 2 + Len(u)
      BY <3>1, ToSetConcat
    <3>4. Head(<<x, y, z>> \o u) = x /\ <<x, y, z>> \o u # <<>>
      BY <3>1, <3>3
    <3>5. Tail(<<x, y, z>> \o u) = <<y, z>> \o u
      OBVIOUS
    <3>6. ToSet(<<y, z>> \o u) = ToSet(<<y, z>>) \cup ToSet(u)
      BY <3>1, ToSetConcat
    <3>7. ToSet(<<x, y, z>> \o u) = ToSet(<<x, y, z>>) \cup ToSet(u)
      BY <3>1, ToSetConcat
    <3> QED  BY <3>2, <3>4, <3>5, <3>6, <3>7
  <2> QED  BY <1>1, <2>1, <2>2
<1>10. \A s \in ToSet(Tail(GrantsPlan)) : s.do \in {"grant", "grantall"}
  BY <1>2, <1>9, UpdatesGive
<1>11. UNION {Gives(s) : s \in ToSet(GrantsPlan)}
         = Gives(a) \cup Gives(b) \cup Gives(c) \cup UNION {Gives(s) : s \in ToSet(UpdateGrants)}
  BY <1>9
<1> QED  BY <1>2, <1>3, <1>4, <1>5, <1>6, <1>9, <1>10, <1>11, UpdatesGive DEF T

(* It names no grant on the database.                                      *)
LEMMA IntendedOnTables ==
  \A T \in SUBSET Tables : \A g \in Intended(T) : g.table # "*"
<1>1. ToSet(WorkerUpdatable) \subseteq Tables
  BY DEF WorkerUpdatable, ToSet, Tables
<1>2. ASSUME NEW T \in SUBSET Tables, NEW g \in Intended(T) PROVE g.table \in Tables
  BY <1>1, <1>2 DEF Intended
<1> QED  BY <1>2, GrantForms
----------------------------------------------------------------------------
(* Nothing is claimed of the other commands.                               *)
LEMMA GrantedElsewhere ==
  ASSUME job'.step # "grants", outcome' # "grants"
  PROVE  Granted'
BY DEF Granted

(* apply_grants begins with all its statements.                            *)
LEMMA GrantedBegin ==
  ASSUME TypeOK, Planned,
         Reset \/ CreateRoles \/ ApplyGrants \/ Initial \/ Failing \/ DowngradeStep \/ Compat \/ CheckRoles
  PROVE  Granted'
<1>1. ASSUME NEW step, NEW plan, Begin(step, plan), step # "grants"
      PROVE  Granted'
  <2>1. job' = Job(step, plan, schema, TRUE) /\ outcome' = "none"
    BY <1>1 DEF Begin
  <2> QED  BY <1>1, <2>1, JobIs, GrantedElsewhere
<1>2. CASE ApplyGrants
  <2>1. /\ job' = Job("grants", GrantsPlan, schema, TRUE) /\ outcome' = "none"
        /\ UNCHANGED <<engine, grants, schema>>
    BY <1>2 DEF ApplyGrants, Begin
  <2>2. job'.step = "grants" /\ job'.plan = GrantsPlan
    BY <2>1, JobIs
  <2> SUFFICES ASSUME engine = "postgres" PROVE Granted'
    BY <2>1 DEF Granted
  <2>3. ToGive' = UNION {Gives(s) : s \in ToSet(GrantsPlan)}
    <3>1. ASSUME NEW s PROVE Gives(s)' = Gives(s)
      BY <2>1 DEF Gives, SchemaTables
    <3> QED  BY <2>2, <3>1 DEF ToGive
  <2>4. ToGive' = Intended(SchemaTables(schema)) /\ \A g \in ToGive' : g.table # "*"
    BY <2>3, GrantsPlanGives, IntendedOnTables DEF SchemaTables
  <2> QED  BY <2>1, <2>2, <2>4, GrantsPlanGives DEF Granted, SchemaTables
<1> QED  BY <1>1, <1>2 DEF Reset, CreateRoles, Initial, Failing, DowngradeStep, Compat, CheckRoles

(* A statement of apply_grants takes everything back or adds its grants.   *)
LEMMA GrantedAdmin ==
  ASSUME TypeOK, Planned, Granted, AdminStatement
  PROVE  Granted'
<1> DEFINE s == Head(job.plan)
<1>1. /\ job.step \in Admin /\ job.plan # <<>> /\ outcome' = outcome /\ engine' = engine
      /\ \/ AdminAccepted(s) /\ AdminEffect(s) /\ job' = [job EXCEPT !.plan = Tail(@)]
         \/ job' = Idle /\ UNCHANGED <<database, roles, grants, schema, rows, probe>>
  BY DEF AdminStatement
<1>2. outcome' # "grants"
  BY <1>1, Kinds, NoOutcomeYet
<1>3. CASE job' = Idle
  BY <1>2, <1>3, IdleFields, GrantedElsewhere
<1>4. CASE AdminEffect(s) /\ job' = [job EXCEPT !.plan = Tail(@)] /\ job.step # "grants"
  BY <1>2, <1>4, ShorterJob, GrantedElsewhere
<1>5. CASE AdminEffect(s) /\ job' = [job EXCEPT !.plan = Tail(@)] /\ job.step = "grants"
  <2> SUFFICES ASSUME engine = "postgres" PROVE Granted'
    BY <1>1 DEF Granted
  <2> DEFINE rest == Tail(job.plan)
  <2>1. job'.step = "grants" /\ job'.plan = rest
    BY <1>5, ShorterJob
  <2>2. /\ job.plan \in Seq(AdminStatements) /\ rest \in Seq(AdminStatements)
        /\ ToSet(job.plan) = {s} \cup ToSet(rest)
    BY <1>1, ToSetTail DEF Planned
  <2>3. /\ s.do \in {"revoke", "grant", "grantall"}
        /\ \A t \in ToSet(rest) : t.do \in {"grant", "grantall"}
        /\ \A g \in ToGive : g.table # "*"
        /\ s.do = "revoke" => ToGive = Intended(SchemaTables(schema))
        /\ s.do # "revoke" => OnTables(grants) \cup ToGive = Intended(SchemaTables(schema))
    BY <1>1, <1>5 DEF Granted
  <2>4. schema' = schema
    BY <1>5, <2>3, AdminEffects
  <2>5. ToGive = Gives(s) \cup UNION {Gives(t) : t \in ToSet(rest)}
    BY <2>2 DEF ToGive
  <2>6. ToGive' = UNION {Gives(t) : t \in ToSet(rest)}
    BY <2>1, <2>4 DEF ToGive, Gives, SchemaTables
  <2>7. /\ s.do = "revoke" => Gives(s) = {} /\ OnTables(grants') = {}
        /\ s.do # "revoke" => OnTables(grants') = OnTables(grants) \cup Gives(s)
    <3>1. CASE s.do = "revoke"
      <4>1. grants' = {g \in grants : g.table = "*"}
        BY <1>5, <3>1, AdminEffects
      <4>2. OnTables(grants') = {}
        BY <4>1 DEF OnTables
      <4>3. Gives(s) = {}
        BY <3>1 DEF Gives
      <4> QED  BY <3>1, <4>2, <4>3
    <3>2. CASE s.do # "revoke"
      <4>1. grants' = grants \cup Gives(s)
        BY <1>5, <2>3, <3>2, AdminEffects
      <4>2. \A g \in Gives(s) : g.table # "*"
        BY <2>3, <2>5
      <4>3. OnTables(grants') = OnTables(grants) \cup Gives(s)
        BY <4>1, <4>2 DEF OnTables
      <4> QED  BY <3>2, <4>3
    <3> QED  BY <3>1, <3>2
  <2>8. OnTables(grants)' \cup ToGive' = Intended(SchemaTables(schema)')
    BY <2>3, <2>4, <2>5, <2>6, <2>7 DEF OnTables, SchemaTables
  <2>9. \A g \in ToGive' : g.table # "*"
    BY <2>3, <2>5, <2>6
  <2>10. ASSUME rest # <<>>
         PROVE  /\ Head(rest).do \in {"grant", "grantall"}
                /\ \A t \in ToSet(Tail(rest)) : t.do \in {"grant", "grantall"}
    <3>1. ToSet(rest) = {Head(rest)} \cup ToSet(Tail(rest))
      BY <2>2, <2>10, ToSetTail
    <3> QED  BY <2>3, <3>1
  <2> HIDE DEF rest
  <2> QED  BY <1>2, <2>1, <2>8, <2>9, <2>10 DEF Granted
<1> QED  BY <1>1, <1>3, <1>4, <1>5

(* When all are executed, what is granted is what it names; a grant by     *)
(* hand ends the claim.                                                    *)
LEMMA GrantedRest ==
  ASSUME TypeOK, Planned, Granted,
         \/ UNCHANGED vars
         \/ SeedDimensions \/ LoadData \/ InsertLoop \/ GrantByHand \/ Statement \/ RunEnds \/ RunFails
         \/ RepairEnds \/ AdminEnds \/ Killed \/ Attempt \/ CheckEnds
  PROVE  Granted'
<1>1. CASE UNCHANGED vars \/ SeedDimensions \/ LoadData \/ InsertLoop
  <2>1. UNCHANGED <<engine, grants, schema, job, outcome>>
    BY <1>1 DEF vars, SeedDimensions, LoadData, InsertLoop, Store
  <2>2. ToGive' = ToGive
    BY <2>1 DEF ToGive, Gives, SchemaTables
  <2> QED  BY <2>1, <2>2 DEF Granted, SchemaTables
<1>2. CASE GrantByHand
  <2>1. job' = Idle /\ outcome' = "none"
    BY <1>2 DEF GrantByHand
  <2> QED  BY <2>1, IdleFields, GrantedElsewhere
<1>3. CASE Statement
  <2>1. /\ job.step \in Alembic \cup {"repair"} /\ outcome' = outcome
        /\ \/ job' = [job EXCEPT !.plan = Tail(@), !.view = After(Head(job.plan), Seen)]
           \/ job' = [job EXCEPT !.plan = Tail(@)]
    BY <1>3 DEF Statement
  <2>2. job'.step = job.step
    BY <2>1, ShorterJob
  <2>3. job'.step # "grants" /\ outcome' # "grants"
    BY <2>1, <2>2, Kinds, NoOutcomeYet DEF Alembic
  <2> QED  BY <2>3, GrantedElsewhere
<1>4. CASE RunEnds \/ RunFails
  <2>1. PICK s : AlembicEnds(s)
    BY <1>4 DEF RunEnds, RunFails
  <2>2. job.step \in Alembic
    BY <1>4 DEF RunEnds, RunFails
  <2>3. \/ job' = Idle
        \/ job' = Job("reupgrade", PathUp(s.revision, "0002"), s, TRUE)
        \/ job' = Job("repair", Repairs(s.objects), s, TRUE)
    BY <2>1, Continued DEF AlembicEnds
  <2>4. job'.step \in {"idle", "reupgrade", "repair"}
    <3>1. CASE job' = Idle
      BY <3>1, IdleFields
    <3>2. CASE job' = Job("reupgrade", PathUp(s.revision, "0002"), s, TRUE)
      BY <3>2, JobIs
    <3>3. CASE job' = Job("repair", Repairs(s.objects), s, TRUE)
      BY <3>3, JobIs
    <3> QED  BY <2>3, <3>1, <3>2, <3>3
  <2>5. outcome' # "grants"
    BY <2>1, <2>2 DEF AlembicEnds, Alembic
  <2> QED  BY <2>4, <2>5, GrantedElsewhere
<1>5. CASE RepairEnds \/ Killed \/ CheckEnds
  <2>1. /\ job' = Idle /\ job # Idle
        /\ outcome' \in {outcome, "failing", "check passed", "check failed"}
    BY <1>5, IdleFields DEF RepairEnds, Killed, CheckEnds
  <2>2. outcome' # "grants"
    BY <2>1 DEF Planned
  <2> QED  BY <2>1, <2>2, IdleFields, GrantedElsewhere
<1>6. CASE AdminEnds
  <2>1. /\ job.plan = <<>> /\ job' = Idle /\ outcome' = job.step
        /\ UNCHANGED <<engine, grants, schema>>
    BY <1>6 DEF AdminEnds
  <2>2. job'.step = "idle"
    BY <2>1, IdleFields
  <2>3. ASSUME engine = "postgres", job.step = "grants"
        PROVE  OnTables(grants) = Intended(SchemaTables(schema))
    <3>1. ToGive = {}
      BY <2>1 DEF ToGive, ToSet
    <3> QED  BY <2>1, <2>3, <3>1 DEF Granted
  <2> QED  BY <2>1, <2>2, <2>3 DEF Granted, OnTables, SchemaTables
<1>7. CASE Attempt
  <2>1. PICK ok : job' = [job EXCEPT !.plan = Tail(@), !.ok = ok]
    BY <1>7 DEF Attempt
  <2>2. job.step = "check" /\ outcome' = outcome
    BY <1>7 DEF Attempt
  <2>3. job'.step = "check" /\ outcome' # "grants"
    BY <2>1, <2>2, ShorterJob, NoOutcomeYet
  <2> QED  BY <2>3, GrantedElsewhere
<1> QED  BY <1>1, <1>2, <1>3, <1>4, <1>5, <1>6, <1>7

(* Granted is inductive.                                                   *)
LEMMA GrantedKept ==
  ASSUME TypeOK, Planned, Granted, [Next]_vars
  PROVE  Granted'
BY GrantedBegin, GrantedAdmin, GrantedRest DEF Next
----------------------------------------------------------------------------
(* ArtifactsFirst only looks at the creation of two tables.                *)
LEMMA NothingCreated ==
  ASSUME NEW plan \in Seq(Statements), NEW objects,
         \A s \in ToSet(plan) : s # Create("price_observation") /\ s # Drop("raw_artifact")
  PROVE  ArtifactsFirst(plan, objects)
<1>1. \A j \in DOMAIN plan : plan[j] \in ToSet(plan)
  BY DEF ToSet
<1> QED  BY <1>1 DEF ArtifactsFirst

(* The first eight elements of a plan are those of its first part.         *)
LEMMA FirstEight ==
  ASSUME NEW S, NEW p \in Seq(S), NEW q \in Seq(S), Len(p) >= 8
  PROVE  /\ p \o q \in Seq(S) /\ Len(p \o q) >= 8
         /\ \A i \in 1 .. 8 : (p \o q)[i] = p[i]
<1>1. Len(p) \in Nat /\ Len(q) \in Nat
  OBVIOUS
<1>2. /\ p \o q \in Seq(S) /\ Len(p \o q) = Len(p) + Len(q)
      /\ \A i \in 1 .. Len(p) + Len(q) : (p \o q)[i] = IF i <= Len(p) THEN p[i] ELSE q[i - Len(p)]
  BY ConcatProperties
<1>3. \A i \in 1 .. 8 : i \in 1 .. Len(p) + Len(q) /\ i <= Len(p)
  BY <1>1
<1> QED  BY <1>1, <1>2, <1>3

(* 0001 creates the artifacts eighth, and the observations later.          *)
LEMMA EighthObject ==
  /\ Len(Objects0001) >= 8 /\ Objects0001[8] = "raw_artifact"
  /\ \A i \in 1 .. 8 : Objects0001[i] # "price_observation"
<1> DEFINE first == CatalogObjects \o RunObjects
<1>1. /\ CatalogObjects \in Seq(Names) /\ RunObjects \in Seq(Names)
      /\ Len(CatalogObjects) = 5 /\ Len(RunObjects) = 4
  BY DEF CatalogObjects, RunObjects, Names
<1>2. /\ \A i \in 1 .. 5 : CatalogObjects[i] # "price_observation"
      /\ \A i \in 1 .. 3 : RunObjects[i] # "price_observation"
      /\ RunObjects[3] = "raw_artifact"
  BY DEF CatalogObjects, RunObjects
<1>3. /\ first \in Seq(Names) /\ Len(first) = 9
      /\ \A i \in 1 .. 9 : first[i] = IF i <= 5 THEN CatalogObjects[i] ELSE RunObjects[i - 5]
  <2>1. /\ first \in Seq(Names) /\ Len(first) = Len(CatalogObjects) + Len(RunObjects)
        /\ \A i \in 1 .. Len(CatalogObjects) + Len(RunObjects) :
             first[i] = IF i <= Len(CatalogObjects) THEN CatalogObjects[i]
                        ELSE RunObjects[i - Len(CatalogObjects)]
    BY <1>1, ConcatProperties
  <2> HIDE DEF first
  <2> QED  BY <1>1, <2>1
<1> HIDE DEF first
<1>4. first[8] = "raw_artifact" /\ \A i \in 1 .. 8 : first[i] # "price_observation"
  <2>1. first[8] = RunObjects[3]
    BY <1>3
  <2>2. ASSUME NEW i \in 1 .. 8 PROVE first[i] # "price_observation"
    <3>1. i \in 1 .. 5 \/ (~(i <= 5) /\ i - 5 \in 1 .. 3)
      OBVIOUS
    <3>2. i \in 1 .. 9 /\ (i \in 1 .. 5 => i <= 5)
      OBVIOUS
    <3> QED  BY <1>2, <1>3, <3>1, <3>2
  <2> QED  BY <1>2, <2>1, <2>2
<1>5. ProcessingObjects \in Seq(Names) /\ ObservationObjects \in Seq(Names) /\ ReviewObjects \in Seq(Names)
  BY DEF ProcessingObjects, ObservationObjects, ReviewObjects, Names
<1>6. PICK two, three : two = first \o ProcessingObjects /\ three = two \o ObservationObjects
  OBVIOUS
<1>7. two \in Seq(Names) /\ Len(two) >= 8 /\ \A i \in 1 .. 8 : two[i] = first[i]
  <2>1. Len(first) >= 8 /\ first \in Seq(Names)
    BY <1>3
  <2>2. /\ first \o ProcessingObjects \in Seq(Names) /\ Len(first \o ProcessingObjects) >= 8
        /\ \A i \in 1 .. 8 : (first \o ProcessingObjects)[i] = first[i]
    BY <2>1, <1>5, FirstEight
  <2> QED  BY <1>6, <2>2
<1>8. three \in Seq(Names) /\ Len(three) >= 8 /\ \A i \in 1 .. 8 : three[i] = two[i]
  BY <1>5, <1>6, <1>7, FirstEight
<1>9. Objects0001 = three \o ReviewObjects
  BY <1>6 DEF Objects0001, first
<1>10. Len(Objects0001) >= 8 /\ \A i \in 1 .. 8 : Objects0001[i] = three[i]
  BY <1>5, <1>8, <1>9, FirstEight
<1>11. 8 \in 1 .. 8
  OBVIOUS
<1> QED  BY <1>4, <1>7, <1>8, <1>10, <1>11

(* So does every upgrade from nothing, in the same place.                  *)
LEMMA EighthStatement ==
  ASSUME NEW to \in {"0001", "0002", "0003"}
  PROVE  /\ PathUp("none", to) \in Seq(Statements) /\ Len(PathUp("none", to)) >= 8
         /\ PathUp("none", to)[8] = Create("raw_artifact")
         /\ \A i \in 1 .. 8 : PathUp("none", to)[i] # Create("price_observation")
<1>1. PICK b, u2, u3 : b = Append(Upgrade["0001"], Stamp("0001"))
                       /\ u2 = Up("0002", "none", to) /\ u3 = Up("0003", "none", to)
  OBVIOUS
<1>2. b \in Seq(Statements) /\ Creates(Objects0001) \in Seq(Statements)
  BY <1>1, Blocks, ObjectsApart, ObjectsAreNamed, StatementsOf DEF UpPlan
<1>3. u2 \in Seq(Statements) /\ u3 \in Seq(Statements)
  <2>1. Append(Upgrade["0002"], Stamp("0002")) \in Seq(Statements)
        /\ Append(Upgrade["0003"], Stamp("0003")) \in Seq(Statements)
        /\ <<>> \in Seq(Statements)
    BY Blocks DEF UpPlan
  <2> QED  BY <1>1, <2>1 DEF Up
<1>4. Up("0001", "none", to) = b
  BY <1>1, Levels DEF Up
<1>5. Len(b) = Len(Objects0001) + 1 /\ \A i \in 1 .. 8 : b[i] = Create(Objects0001[i])
  <2>1. Upgrade["0001"] = Creates(Objects0001)
    BY DEF Upgrade
  <2>2. DOMAIN Objects0001 = 1 .. Len(Objects0001) /\ Len(Objects0001) \in Nat
    BY ObjectsApart
  <2>3. \A i \in 1 .. Len(Objects0001) : Creates(Objects0001)[i] = Create(Objects0001[i])
    BY <2>2 DEF Creates
  <2>4. Len(Creates(Objects0001)) = Len(Objects0001)
    BY <1>2, <2>2 DEF Creates
  <2>5. /\ Len(b) = Len(Objects0001) + 1
        /\ \A i \in 1 .. Len(Objects0001) : b[i] = Creates(Objects0001)[i]
    BY <1>1, <1>2, <2>1, <2>4, Stamping, Levels, AppendProperties
  <2> QED  BY <2>2, <2>3, <2>5, EighthObject
<1>6. PICK two : two = b \o u2
  OBVIOUS
<1>20. Len(b) >= 8
  <2>1. Len(Objects0001) \in Nat
    BY EighthObject, ObjectsApart
  <2> QED  BY <1>5, <2>1, EighthObject
<1>7. /\ two \in Seq(Statements) /\ Len(two) >= 8
      /\ \A i \in 1 .. 8 : two[i] = b[i]
  BY <1>2, <1>3, <1>20, <1>6, FirstEight
<1>8. PathUp("none", to) = two \o u3
  BY <1>1, <1>4, <1>6 DEF PathUp
<1>9. /\ PathUp("none", to) \in Seq(Statements) /\ Len(PathUp("none", to)) >= 8
      /\ \A i \in 1 .. 8 : PathUp("none", to)[i] = two[i]
  <2>1. /\ two \o u3 \in Seq(Statements) /\ Len(two \o u3) >= 8
        /\ \A i \in 1 .. 8 : (two \o u3)[i] = two[i]
    BY <1>3, <1>7, FirstEight
  <2> QED  BY <1>8, <2>1
<1>10. \A o : Create(o) = Create("price_observation") => o = "price_observation"
  BY DEF Create
<1>11. 8 \in 1 .. 8
  OBVIOUS
<1>12. \A i \in 1 .. 8 : PathUp("none", to)[i] = Create(Objects0001[i])
  BY <1>5, <1>7, <1>9
<1> HIDE DEF Create
<1> QED  BY <1>9, <1>10, <1>11, <1>12, EighthObject

(* Every path and every repair keeps the order.                            *)
LEMMA PathsInOrder ==
  ASSUME NEW objects
  PROVE  /\ \A from \in ToSet(Revisions), to \in {"0001", "0002", "0003"} :
              ArtifactsFirst(PathUp(from, to), objects)
         /\ \A from \in ToSet(Revisions) : ArtifactsFirst(PathDown(from, "0001"), objects)
         /\ ArtifactsFirst(Repairs(objects), objects)
<1>1. /\ "raw_artifact" \notin ToSet(Objects0002) \cup ToSet(Objects0003)
      /\ "price_observation" \notin ToSet(Objects0002) \cup ToSet(Objects0003)
  BY ObjectsApart
<1>2. /\ \A o : Create(o).do = "create" /\ Create(o).of = o
      /\ \A o : Drop(o).do = "drop" /\ Drop(o).of = o
  BY DEF Create, Drop
<1>3. ArtifactsFirst(<<>>, objects)
  BY DEF ArtifactsFirst
<1>4. ASSUME NEW plan, NEW O, NEW r, UpPlan(plan, O, r), "price_observation" \notin O
      PROVE  ArtifactsFirst(plan, objects)
  <2>1. plan \in Seq(Statements) /\ Upward(plan) /\ Named("create", plan) = O
    BY <1>4 DEF UpPlan
  <2>2. \A s \in ToSet(plan) : s # Create("price_observation")
    BY <1>2, <1>4, <2>1 DEF Named
  <2>3. \A s \in ToSet(plan) : s # Drop("raw_artifact")
    BY <1>2, <2>1 DEF Upward
  <2> QED  BY <2>1, <2>2, <2>3, NothingCreated
<1>5. ASSUME NEW plan, NEW O, NEW r, DownPlan(plan, O, r), "raw_artifact" \notin O
      PROVE  ArtifactsFirst(plan, objects)
  <2>1. plan \in Seq(Statements) /\ Downward(plan) /\ Named("drop", plan) = O
    BY <1>5 DEF DownPlan
  <2>2. \A s \in ToSet(plan) : s # Drop("raw_artifact")
    BY <1>2, <1>5, <2>1 DEF Named
  <2>3. \A s \in ToSet(plan) : s # Create("price_observation")
    BY <1>2, <2>1 DEF Downward
  <2> QED  BY <2>1, <2>2, <2>3, NothingCreated
<1>6. ASSUME NEW to \in {"0001", "0002", "0003"} PROVE ArtifactsFirst(PathUp("none", to), objects)
  <2>1. PICK plan : plan = PathUp("none", to)
    OBVIOUS
  <2>2. /\ plan \in Seq(Statements) /\ Len(plan) >= 8 /\ plan[8] = Create("raw_artifact")
        /\ \A i \in 1 .. 8 : plan[i] # Create("price_observation")
    BY <2>1, EighthStatement
  <2>3. Upward(plan)
    BY <2>1, PathsArePlans, Levels
  <2>4. \A j \in DOMAIN plan : plan[j] # Drop("raw_artifact")
    <3>1. \A j \in DOMAIN plan : plan[j] \in ToSet(plan)
      BY DEF ToSet
    <3> QED  BY <1>2, <2>3, <3>1 DEF Upward
  <2>5. \A j \in DOMAIN plan : plan[j] = Create("price_observation") =>
          \E i \in 1 .. j - 1 : plan[i] = Create("raw_artifact")
    <3> SUFFICES ASSUME NEW j \in DOMAIN plan, plan[j] = Create("price_observation")
                 PROVE  8 \in 1 .. j - 1
      BY <2>2
    <3>1. j \in 1 .. Len(plan) /\ j \notin 1 .. 8
      BY <2>2
    <3> QED  BY <2>2, <3>1
  <2> QED  BY <2>1, <2>4, <2>5 DEF ArtifactsFirst
<1>7. ASSUME NEW from \in ToSet(Revisions), NEW to \in {"0001", "0002", "0003"}
      PROVE  ArtifactsFirst(PathUp(from, to), objects)
  <2>1. CASE from = "none"
    BY <1>6, <2>1
  <2>2. CASE from # "none"
    <3>1. from \in {"0001", "0002", "0003"}
      BY <2>2, Levels
    <3>2. \/ PathUp(from, to) = <<>>
          \/ UpPlan(PathUp(from, to), ToSet(Objects0002), to)
          \/ UpPlan(PathUp(from, to), ToSet(Objects0003), to)
          \/ UpPlan(PathUp(from, to), ToSet(Objects0002) \cup ToSet(Objects0003), to)
      BY <3>1, PathsUp
    <3> QED  BY <1>1, <1>3, <1>4, <3>2
  <2> QED  BY <2>1, <2>2
<1>8. ASSUME NEW from \in ToSet(Revisions) PROVE ArtifactsFirst(PathDown(from, "0001"), objects)
  <2>1. \/ PathDown(from, "0001") = <<>>
        \/ DownPlan(PathDown(from, "0001"), ToSet(Objects0002), "0001")
        \/ DownPlan(PathDown(from, "0001"), ToSet(Objects0003) \cup ToSet(Objects0002), "0001")
    BY PathsDown, Levels
  <2> QED  BY <1>1, <1>3, <1>5, <2>1
<1>9. ArtifactsFirst(Repairs(objects), objects)
  <2>1. /\ Repairs(objects) \in Seq(Statements)
        /\ ToSet(Repairs(objects)) = {Drop(o) : o \in ToSet(Objects0003) \cap objects}
    BY RepairPlan
  <2>2. \A s \in ToSet(Repairs(objects)) : s # Create("price_observation") /\ s # Drop("raw_artifact")
    BY <1>1, <1>2, <2>1
  <2> QED  BY <2>1, <2>2, NothingCreated
<1> QED  BY <1>7, <1>8, <1>9

(* A schema that its revision tells has artifacts where it has             *)
(* observations.                                                           *)
LEMMA GoodOrdered ==
  ASSUME NEW s \in Schemas, Good(s), "price_observation" \in s.objects
  PROVE  "raw_artifact" \in s.objects
<1>1. s.revision \in {"none", "0001", "0002", "0003"}
  BY Levels DEF Schemas
<1> QED  BY <1>1, ObjectsAtLevels, ObjectsApart DEF Good

(* The order of what is left when a statement is executed.                 *)
LEMMA OrderLeft ==
  ASSUME NEW plan \in Seq(Statements), plan # <<>>, NEW v \in Schemas,
         ArtifactsFirst(plan, v.objects),
         "price_observation" \in v.objects => "raw_artifact" \in v.objects
  PROVE  LET w == After(Head(plan), v)
         IN /\ ArtifactsFirst(Tail(plan), w.objects)
            /\ "price_observation" \in w.objects => "raw_artifact" \in w.objects
<1> DEFINE s == Head(plan)
           w == After(s, v)
           rest == Tail(plan)
<1>1. /\ s \in Statements /\ s = plan[1] /\ Len(plan) \in Nat \ {0}
      /\ rest \in Seq(Statements) /\ Len(rest) = Len(plan) - 1
      /\ \A i \in 1 .. Len(rest) : rest[i] = plan[i + 1]
  BY HeadTailProperties, EmptySeq
<1>2. 1 \in DOMAIN plan
  BY <1>1
<1>3. s # Drop("raw_artifact")
  BY <1>1, <1>2 DEF ArtifactsFirst
<1>4. s = Create("price_observation") => "raw_artifact" \in v.objects
  <2>1. \A i \in 1 .. 1 - 1 : FALSE
    OBVIOUS
  <2> QED  BY <1>1, <1>2, <2>1 DEF ArtifactsFirst
<1>5. /\ s.do \in {"create", "drop", "stamp"}
      /\ s.do = "create" => w.objects = v.objects \cup {s.of}
      /\ s.do = "drop" => w.objects = v.objects \ {s.of}
      /\ s.do = "stamp" => w.objects = v.objects
  <2> HIDE DEF s
  <2>1. /\ s.do \in {"create", "drop", "stamp"}
        /\ s.do = "create" => w = [objects |-> v.objects \cup {s.of}, revision |-> v.revision]
        /\ s.do = "drop" => w = [objects |-> v.objects \ {s.of}, revision |-> v.revision]
        /\ s.do = "stamp" => w = [objects |-> v.objects, revision |-> s.of]
    BY <1>1, AfterStatement
  <2> HIDE DEF w
  <2> QED  BY <2>1
<1>6. /\ s.do = "create" => s = Create(s.of)
      /\ s.do = "drop" => s = Drop(s.of)
      /\ Create("raw_artifact").do = "create" /\ Create("raw_artifact").of = "raw_artifact"
  BY <1>1 DEF Statements, Create, Drop
<1> HIDE DEF s, w, rest
<1>7. "raw_artifact" \in v.objects => "raw_artifact" \in w.objects
  <2>1. s.do = "drop" => s.of # "raw_artifact"
    BY <1>3, <1>6
  <2> QED  BY <1>5, <2>1
<1>8. s = Create("raw_artifact") => "raw_artifact" \in w.objects
  BY <1>5, <1>6
<1>9. "price_observation" \in w.objects => "raw_artifact" \in w.objects
  <2>1. CASE "price_observation" \in v.objects
    BY <1>7, <2>1
  <2>2. CASE "price_observation" \notin v.objects /\ "price_observation" \in w.objects
    <3>1. s = Create("price_observation")
      BY <1>5, <1>6, <2>2
    <3> QED  BY <1>4, <1>7, <3>1
  <2> QED  BY <2>1, <2>2
<1>10. \A j \in DOMAIN rest : rest[j] # Drop("raw_artifact")
  <2>1. \A j \in DOMAIN rest : j + 1 \in DOMAIN plan /\ rest[j] = plan[j + 1]
    BY <1>1
  <2> QED  BY <2>1 DEF ArtifactsFirst
<1>11. ASSUME NEW j \in DOMAIN rest, rest[j] = Create("price_observation")
       PROVE  "raw_artifact" \in w.objects \/ \E i \in 1 .. j - 1 : rest[i] = Create("raw_artifact")
  <2>1. j \in 1 .. Len(rest) /\ j + 1 \in DOMAIN plan /\ rest[j] = plan[j + 1]
    BY <1>1
  <2>2. "raw_artifact" \in v.objects
        \/ \E i \in 1 .. (j + 1) - 1 : plan[i] = Create("raw_artifact")
    BY <1>11, <2>1 DEF ArtifactsFirst
  <2>3. CASE "raw_artifact" \in v.objects
    BY <1>7, <2>3
  <2>4. ASSUME NEW i \in 1 .. (j + 1) - 1, plan[i] = Create("raw_artifact")
        PROVE  "raw_artifact" \in w.objects \/ \E k \in 1 .. j - 1 : rest[k] = Create("raw_artifact")
    <3>1. CASE i = 1
      BY <1>1, <1>8, <2>4, <3>1
    <3>2. CASE i # 1
      <4>1. PICK k \in 1 .. j - 1 : k + 1 = i /\ k \in 1 .. Len(rest)
        <5>1. i - 1 \in 1 .. j - 1 /\ (i - 1) + 1 = i /\ i - 1 \in 1 .. Len(rest)
          BY <1>1, <2>1, <3>2
        <5> QED  BY <5>1
      <4>2. rest[k] = plan[k + 1]
        BY <1>1, <4>1
      <4> QED  BY <2>4, <4>1, <4>2
    <3> QED  BY <3>1, <3>2
  <2> QED  BY <2>2, <2>3, <2>4
<1>12. ArtifactsFirst(rest, w.objects)
  BY <1>10, <1>11 DEF ArtifactsFirst
<1> QED  BY <1>9, <1>12 DEF rest, w, s

(* Creating and dropping the table of the role check.                      *)
LEMMA ProbeTable ==
  ASSUME NEW v \in Schemas
  PROVE  /\ After(Create("poc_role_probe"), v).objects = v.objects \cup {"poc_role_probe"}
         /\ After(Drop("poc_role_probe"), v).objects = v.objects \ {"poc_role_probe"}
<1>1. /\ Create("poc_role_probe") \in Statements /\ Drop("poc_role_probe") \in Statements
      /\ Create("poc_role_probe").do = "create" /\ Create("poc_role_probe").of = "poc_role_probe"
      /\ Drop("poc_role_probe").do = "drop" /\ Drop("poc_role_probe").of = "poc_role_probe"
  BY ObjectsAreNamed DEF Create, Drop, Statements
<1> QED  BY <1>1, AfterStatement

(* A command begins in order.                                              *)
LEMMA OrderedBegin ==
  ASSUME TypeOK, Planned, Ordered,
         Reset \/ CreateRoles \/ ApplyGrants \/ Initial \/ Failing \/ DowngradeStep \/ Compat \/ CheckRoles
  PROVE  Ordered'
<1>1. ASSUME NEW step, NEW plan, Begin(step, plan),
             \/ step \in Admin \cup {"check"}
             \/ plan = PathDown(schema.revision, "0001")
             \/ \E to \in {"0001", "0002", "0003"} : plan = PathUp(schema.revision, to)
      PROVE  Ordered'
  <2>1. engine' = engine /\ schema' = schema /\ job' = Job(step, plan, schema, TRUE)
    BY <1>1 DEF Begin
  <2>2. job'.step = step /\ job'.plan = plan
    BY <2>1, JobIs
  <2>3. step \in Alembic \cup {"repair"} => ArtifactsFirst(plan, schema.objects)
    BY <1>1, PathsInOrder, SchemaTyped, Kinds
  <2> QED  BY <2>1, <2>2, <2>3 DEF Ordered
<1> QED  BY <1>1 DEF Reset, CreateRoles, ApplyGrants, Initial, Failing, DowngradeStep, Compat, CheckRoles, Admin

(* Every step keeps the order: on PostgreSQL because the revision tells    *)
(* the schema, on MariaDB statement by statement.                          *)
LEMMA OrderedKept ==
  ASSUME TypeOK, Planned, Told, Ordered, [Next]_vars, TypeOK', Planned', Told'
  PROVE  Ordered'
<1>1. engine' = engine /\ engine \in {"postgres", "mariadb"}
  <2>1. engine \in {"postgres", "mariadb"}
    BY MigrationsAssumption DEF TypeOK
  <2>2. CASE Reset \/ CreateRoles \/ ApplyGrants \/ Initial \/ Failing \/ DowngradeStep \/ Compat \/ CheckRoles
    BY <2>1, <2>2 DEF Reset, CreateRoles, ApplyGrants, Initial, Failing, DowngradeStep, Compat, CheckRoles, Begin
  <2>3. CASE SeedDimensions \/ LoadData \/ InsertLoop \/ GrantByHand \/ UNCHANGED vars
    BY <2>1, <2>3 DEF SeedDimensions, LoadData, InsertLoop, Store, GrantByHand, vars
  <2>4. CASE Statement \/ RunEnds \/ RunFails \/ RepairEnds \/ AdminEnds \/ Killed
    BY <2>1, <2>4 DEF Statement, RunEnds, RunFails, AlembicEnds, RepairEnds, AdminEnds, Killed
  <2>5. CASE AdminStatement \/ Attempt \/ CheckEnds
    BY <2>1, <2>5 DEF AdminStatement, Attempt, CheckEnds
  <2> QED  BY <2>2, <2>3, <2>4, <2>5 DEF Next
<1>2. CASE engine = "postgres"
  <2>1. Good(schema') /\ schema' \in Schemas
    BY <1>1, <1>2 DEF Told, Planned
  <2> QED  BY <1>1, <1>2, <2>1, GoodOrdered DEF Ordered
<1>3. CASE engine = "mariadb"
  <2>1. /\ Seen = schema /\ ~Transactional
        /\ "price_observation" \in schema.objects => "raw_artifact" \in schema.objects
        /\ job.step \in Alembic \cup {"repair"} => ArtifactsFirst(job.plan, schema.objects)
    BY <1>3 DEF Ordered, Transactional, Seen
  <2>2. ASSUME schema'.objects \in {schema.objects, {}, schema.objects \cup {"poc_role_probe"},
                                    schema.objects \ {"poc_role_probe"}},
               job'.step \notin Alembic \cup {"repair"}
        PROVE  Ordered'
    BY <2>1, <2>2 DEF Ordered
  <2>3. CASE Reset \/ CreateRoles \/ ApplyGrants \/ Initial \/ Failing \/ DowngradeStep \/ Compat \/ CheckRoles
    BY <2>3, OrderedBegin
  <2>4. CASE UNCHANGED vars \/ SeedDimensions \/ LoadData \/ InsertLoop \/ GrantByHand
    <3>1. UNCHANGED <<job, schema, engine>>
      BY <2>4 DEF vars, SeedDimensions, LoadData, InsertLoop, Store, GrantByHand
    <3> QED  BY <3>1 DEF Ordered
  <2>5. CASE Statement
    <3>1. /\ job.step \in Alembic \cup {"repair"} /\ job.plan # <<>>
          /\ job' = [job EXCEPT !.plan = Tail(@)] /\ schema' = After(Head(job.plan), schema)
      BY <2>1, <2>5 DEF Statement
    <3>2. job'.step = job.step /\ job'.plan = Tail(job.plan)
      BY <3>1, ShorterJob
    <3>3. job.plan \in Seq(Statements) /\ schema \in Schemas
      BY <3>1 DEF Planned
    <3>4. /\ ArtifactsFirst(Tail(job.plan), schema'.objects)
          /\ "price_observation" \in schema'.objects => "raw_artifact" \in schema'.objects
      BY <2>1, <3>1, <3>3, OrderLeft
    <3> QED  BY <3>2, <3>4 DEF Ordered
  <2>6. CASE RunEnds \/ RunFails
    <3>1. AlembicEnds(schema)
      BY <2>1, <2>6 DEF RunEnds, RunFails
    <3>2. schema' = schema /\ job' = Continuation(schema)
      BY <3>1 DEF AlembicEnds
    <3>3. \/ job' = Idle
          \/ job' = Job("reupgrade", PathUp(schema.revision, "0002"), schema, TRUE)
          \/ job' = Job("repair", Repairs(schema.objects), schema, TRUE)
      BY <3>2, Continued
    <3>4. CASE job' = Idle
      BY <2>2, <3>2, <3>4, IdleFields, Kinds
    <3>5. CASE job' = Job("reupgrade", PathUp(schema.revision, "0002"), schema, TRUE)
      <4>1. job'.plan = PathUp(schema.revision, "0002")
        BY <3>5, JobIs
      <4> QED  BY <2>1, <3>2, <4>1, PathsInOrder, SchemaTyped DEF Ordered
    <3>6. CASE job' = Job("repair", Repairs(schema.objects), schema, TRUE)
      <4>1. job'.plan = Repairs(schema.objects)
        BY <3>6, JobIs
      <4> QED  BY <2>1, <3>2, <4>1, PathsInOrder DEF Ordered
    <3> QED  BY <3>3, <3>4, <3>5, <3>6
  <2>7. CASE RepairEnds \/ AdminEnds \/ Killed
    <3>1. schema' = schema /\ job'.step = "idle"
      BY <2>7, IdleFields DEF RepairEnds, AdminEnds, Killed
    <3> QED  BY <2>2, <3>1, Kinds
  <2>8. CASE AdminStatement
    <3>1. schema' = schema \/ schema' = NoSchema
      BY <2>8 DEF AdminStatement, AdminEffect
    <3>2. job.step \in Admin /\ (job' = Idle \/ job' = [job EXCEPT !.plan = Tail(@)])
      BY <2>8 DEF AdminStatement
    <3>3. job'.step \in Admin \cup {"idle"}
      BY <3>2, IdleFields, ShorterJob
    <3> QED  BY <2>2, <3>1, <3>3, EmptySchema, Kinds
  <2>9. CASE Attempt
    <3>1. \/ schema' = schema \/ schema' = After(Create("poc_role_probe"), schema)
          \/ schema' = After(Drop("poc_role_probe"), schema)
      BY <2>9 DEF Attempt
    <3>2. PICK ok : job' = [job EXCEPT !.plan = Tail(@), !.ok = ok]
      BY <2>9 DEF Attempt
    <3>3. job'.step = "check"
      BY <2>9, <3>2, ShorterJob DEF Attempt
    <3> QED  BY <2>2, <3>1, <3>3, ProbeTable, SchemaTyped, Kinds
  <2>10. CASE CheckEnds
    <3>1. schema' = schema \/ schema' = After(Drop("poc_role_probe"), schema)
      BY <2>10 DEF CheckEnds
    <3>2. job'.step = "idle"
      BY <2>10, IdleFields DEF CheckEnds
    <3> QED  BY <2>2, <3>1, <3>2, ProbeTable, SchemaTyped, Kinds
  <2> QED  BY <2>3, <2>4, <2>5, <2>6, <2>7, <2>8, <2>9, <2>10 DEF Next
<1> QED  BY <1>1, <1>2, <1>3
----------------------------------------------------------------------------
(* The attempts, one by one (check_roles).                                 *)
LEMMA TheAttempts ==
  /\ /\ Expectations[1].role = "cp_api" /\ Expectations[1].right = "select"
     /\ Expectations[1].table = "price_observation" /\ Expectations[1].expected = TRUE
  /\ /\ Expectations[2].role = "cp_api" /\ Expectations[2].right = "insert"
     /\ Expectations[2].table = "review_item" /\ Expectations[2].expected = FALSE
  /\ /\ Expectations[3].role = "cp_api" /\ Expectations[3].right = "update"
     /\ Expectations[3].table = "price_observation" /\ Expectations[3].expected = FALSE
  /\ /\ Expectations[4].role = "cp_api" /\ Expectations[4].right = "create"
     /\ Expectations[4].table = "poc_role_probe" /\ Expectations[4].expected = FALSE
  /\ /\ Expectations[5].role = "cp_worker" /\ Expectations[5].right = "select"
     /\ Expectations[5].table = "price_observation" /\ Expectations[5].expected = TRUE
  /\ /\ Expectations[6].role = "cp_worker" /\ Expectations[6].right = "insert"
     /\ Expectations[6].table = "review_item" /\ Expectations[6].expected = TRUE
  /\ /\ Expectations[7].role = "cp_worker" /\ Expectations[7].right = "update"
     /\ Expectations[7].table = "review_item" /\ Expectations[7].expected = TRUE
  /\ /\ Expectations[8].role = "cp_worker" /\ Expectations[8].right = "update"
     /\ Expectations[8].table = "price_observation" /\ Expectations[8].expected = FALSE
  /\ /\ Expectations[9].role = "cp_worker" /\ Expectations[9].right = "delete"
     /\ Expectations[9].table = "price_observation" /\ Expectations[9].expected = FALSE
  /\ /\ Expectations[10].role = "cp_worker" /\ Expectations[10].right = "create"
     /\ Expectations[10].table = "poc_role_probe" /\ Expectations[10].expected = FALSE
  /\ /\ Expectations[11].role = "cp_backup" /\ Expectations[11].right = "select"
     /\ Expectations[11].table = "price_observation" /\ Expectations[11].expected = TRUE
  /\ /\ Expectations[12].role = "cp_backup" /\ Expectations[12].right = "insert"
     /\ Expectations[12].table = "review_item" /\ Expectations[12].expected = FALSE
  /\ /\ Expectations[13].role = "cp_migration" /\ Expectations[13].right = "create"
     /\ Expectations[13].table = "poc_role_probe" /\ Expectations[13].expected = TRUE
  /\ /\ Expectations[14].role = "cp_migration" /\ Expectations[14].right = "drop"
     /\ Expectations[14].table = "poc_role_probe" /\ Expectations[14].expected = TRUE
<1>1. /\ Expectations[1].role = "cp_api" /\ Expectations[1].right = "select"
      /\ Expectations[1].table = "price_observation" /\ Expectations[1].expected = TRUE
  <2>1. Expectations[1] = Try("cp_api", "select", "price_observation", TRUE)
    BY DEF Expectations
  <2> QED  BY <2>1 DEF Try
<1>2. /\ Expectations[2].role = "cp_api" /\ Expectations[2].right = "insert"
      /\ Expectations[2].table = "review_item" /\ Expectations[2].expected = FALSE
  <2>1. Expectations[2] = Try("cp_api", "insert", "review_item", FALSE)
    BY DEF Expectations
  <2> QED  BY <2>1 DEF Try
<1>3. /\ Expectations[3].role = "cp_api" /\ Expectations[3].right = "update"
      /\ Expectations[3].table = "price_observation" /\ Expectations[3].expected = FALSE
  <2>1. Expectations[3] = Try("cp_api", "update", "price_observation", FALSE)
    BY DEF Expectations
  <2> QED  BY <2>1 DEF Try
<1>4. /\ Expectations[4].role = "cp_api" /\ Expectations[4].right = "create"
      /\ Expectations[4].table = "poc_role_probe" /\ Expectations[4].expected = FALSE
  <2>1. Expectations[4] = Try("cp_api", "create", "poc_role_probe", FALSE)
    BY DEF Expectations
  <2> QED  BY <2>1 DEF Try
<1>5. /\ Expectations[5].role = "cp_worker" /\ Expectations[5].right = "select"
      /\ Expectations[5].table = "price_observation" /\ Expectations[5].expected = TRUE
  <2>1. Expectations[5] = Try("cp_worker", "select", "price_observation", TRUE)
    BY DEF Expectations
  <2> QED  BY <2>1 DEF Try
<1>6. /\ Expectations[6].role = "cp_worker" /\ Expectations[6].right = "insert"
      /\ Expectations[6].table = "review_item" /\ Expectations[6].expected = TRUE
  <2>1. Expectations[6] = Try("cp_worker", "insert", "review_item", TRUE)
    BY DEF Expectations
  <2> QED  BY <2>1 DEF Try
<1>7. /\ Expectations[7].role = "cp_worker" /\ Expectations[7].right = "update"
      /\ Expectations[7].table = "review_item" /\ Expectations[7].expected = TRUE
  <2>1. Expectations[7] = Try("cp_worker", "update", "review_item", TRUE)
    BY DEF Expectations
  <2> QED  BY <2>1 DEF Try
<1>8. /\ Expectations[8].role = "cp_worker" /\ Expectations[8].right = "update"
      /\ Expectations[8].table = "price_observation" /\ Expectations[8].expected = FALSE
  <2>1. Expectations[8] = Try("cp_worker", "update", "price_observation", FALSE)
    BY DEF Expectations
  <2> QED  BY <2>1 DEF Try
<1>9. /\ Expectations[9].role = "cp_worker" /\ Expectations[9].right = "delete"
      /\ Expectations[9].table = "price_observation" /\ Expectations[9].expected = FALSE
  <2>1. Expectations[9] = Try("cp_worker", "delete", "price_observation", FALSE)
    BY DEF Expectations
  <2> QED  BY <2>1 DEF Try
<1>10. /\ Expectations[10].role = "cp_worker" /\ Expectations[10].right = "create"
      /\ Expectations[10].table = "poc_role_probe" /\ Expectations[10].expected = FALSE
  <2>1. Expectations[10] = Try("cp_worker", "create", "poc_role_probe", FALSE)
    BY DEF Expectations
  <2> QED  BY <2>1 DEF Try
<1>11. /\ Expectations[11].role = "cp_backup" /\ Expectations[11].right = "select"
      /\ Expectations[11].table = "price_observation" /\ Expectations[11].expected = TRUE
  <2>1. Expectations[11] = Try("cp_backup", "select", "price_observation", TRUE)
    BY DEF Expectations
  <2> QED  BY <2>1 DEF Try
<1>12. /\ Expectations[12].role = "cp_backup" /\ Expectations[12].right = "insert"
      /\ Expectations[12].table = "review_item" /\ Expectations[12].expected = FALSE
  <2>1. Expectations[12] = Try("cp_backup", "insert", "review_item", FALSE)
    BY DEF Expectations
  <2> QED  BY <2>1 DEF Try
<1>13. /\ Expectations[13].role = "cp_migration" /\ Expectations[13].right = "create"
      /\ Expectations[13].table = "poc_role_probe" /\ Expectations[13].expected = TRUE
  <2>1. Expectations[13] = Try("cp_migration", "create", "poc_role_probe", TRUE)
    BY DEF Expectations
  <2> QED  BY <2>1 DEF Try
<1>14. /\ Expectations[14].role = "cp_migration" /\ Expectations[14].right = "drop"
      /\ Expectations[14].table = "poc_role_probe" /\ Expectations[14].expected = TRUE
  <2>1. Expectations[14] = Try("cp_migration", "drop", "poc_role_probe", TRUE)
    BY DEF Expectations
  <2> QED  BY <2>1 DEF Try
<1> QED  BY <1>1, <1>2, <1>3, <1>4, <1>5, <1>6, <1>7, <1>8, <1>9, <1>10, <1>11, <1>12, <1>13, <1>14

(* What an attempt looks like, by its number.                              *)
LEMMA AttemptForms ==
  ASSUME NEW i \in 1 .. 14
  PROVE  LET t == Expectations[i]
         IN /\ t.expected \in BOOLEAN
            /\ t.right \in {"select", "insert", "update", "delete", "create", "drop"}
            /\ t.right \in {"create", "drop"} => t.table = "poc_role_probe"
            /\ t.right \notin {"create", "drop"} => t.table \in {"price_observation", "review_item"}
            /\ t.right = "insert" => i \in {2, 6, 12} /\ (t.expected => i = 6)
            /\ t.right = "create" => i \in {4, 10, 13} /\ (t.expected => i = 13)
            /\ t.right = "drop" => i = 14 /\ t.expected
            /\ i = 12 => t.role = "cp_backup"
<1> DEFINE F(k, t) ==
      /\ t.right \in {"select", "insert", "update", "delete", "create", "drop"}
      /\ t.right \in {"create", "drop"} => t.table = "poc_role_probe"
      /\ t.right \notin {"create", "drop"} => t.table \in {"price_observation", "review_item"}
      /\ t.right = "insert" => k \in {2, 6, 12}
      /\ t.right = "create" => k \in {4, 10, 13}
      /\ t.right = "drop" => k = 14
      /\ k = 12 => t.role = "cp_backup"
<1>2. F(1, Expectations[1])
  BY TheAttempts
<1>3. F(2, Expectations[2])
  BY TheAttempts
<1>4. F(3, Expectations[3])
  BY TheAttempts
<1>5. F(4, Expectations[4])
  BY TheAttempts
<1>6. F(5, Expectations[5])
  BY TheAttempts
<1>7. F(6, Expectations[6])
  BY TheAttempts
<1>8. F(7, Expectations[7])
  BY TheAttempts
<1>9. F(8, Expectations[8])
  BY TheAttempts
<1>10. F(9, Expectations[9])
  BY TheAttempts
<1>11. F(10, Expectations[10])
  BY TheAttempts
<1>12. F(11, Expectations[11])
  BY TheAttempts
<1>13. F(12, Expectations[12])
  BY TheAttempts
<1>14. F(13, Expectations[13])
  BY TheAttempts
<1>15. F(14, Expectations[14])
  BY TheAttempts
<1> HIDE DEF F
<1>16. /\ Expectations[1].expected = TRUE /\ Expectations[2].expected = FALSE
       /\ Expectations[3].expected = FALSE /\ Expectations[4].expected = FALSE
       /\ Expectations[5].expected = TRUE /\ Expectations[6].expected = TRUE
       /\ Expectations[7].expected = TRUE /\ Expectations[8].expected = FALSE
       /\ Expectations[9].expected = FALSE /\ Expectations[10].expected = FALSE
       /\ Expectations[11].expected = TRUE /\ Expectations[12].expected = FALSE
       /\ Expectations[13].expected = TRUE /\ Expectations[14].expected = TRUE
  BY TheAttempts, Zenon
<1>17. i \in {1, 2, 3, 4, 5, 6, 7, 8, 9, 10, 11, 12, 13, 14}
  OBVIOUS
<1>18. F(i, Expectations[i])
  BY <1>2, <1>3, <1>4, <1>5, <1>6, <1>7, <1>8, <1>9, <1>10, <1>11, <1>12, <1>13, <1>14, <1>15, <1>17
<1>19. Expectations[i].expected \in BOOLEAN
  BY <1>16, <1>17
<1>20. Expectations[i].expected => i \notin {2, 4, 10, 12}
  BY <1>16, <1>17
<1>21. i = 14 => Expectations[i].expected
  BY <1>16
<1> QED  BY <1>18, <1>19, <1>20, <1>21 DEF F

(* What a role may do to a table does not depend on the table of the check.*)
LEMMA EntitledStays ==
  ASSUME NEW i \in 1 .. 14, UNCHANGED <<engine, database, roles>>,
         \A g : g.table # "poc_role_probe" => (g \in grants' <=> g \in grants)
  PROVE  Entitled(Expectations[i])' <=> Entitled(Expectations[i])
<1> DEFINE t == Expectations[i]
<1>1. t.right \notin {"create", "drop"} => t.table # "poc_role_probe"
  BY AttemptForms
<1> HIDE DEF t
<1>2. ASSUME NEW role, NEW right, NEW table, table # "poc_role_probe"
      PROVE  May(role, right, table)' <=> May(role, right, table)
  BY <1>2 DEF May
<1>3. May(t.role, "all", "*")' <=> May(t.role, "all", "*")
  BY <1>2
<1>4. May(t.role, "select", "raw_artifact")' <=> May(t.role, "select", "raw_artifact")
  BY <1>2
<1>5. t.right \notin {"create", "drop"} =>
        /\ May(t.role, t.right, t.table)' <=> May(t.role, t.right, t.table)
        /\ May(t.role, "select", t.table)' <=> May(t.role, "select", t.table)
  BY <1>1, <1>2
<1>6. Entitled(t)' <=> Entitled(t)
  BY <1>3, <1>4, <1>5 DEF Entitled
<1> QED  BY <1>6 DEF t

(* A step that changes nothing but the table and the row of the check      *)
(* leaves every privilege, and what the attempts need, as they are.        *)
LEMMA ProperStays ==
  ASSUME NEW i \in 1 .. 14, UNCHANGED <<engine, database, roles, rows, before>>,
         \A g : g.table # "poc_role_probe" => (g \in grants' <=> g \in grants),
         \A o : o # "poc_role_probe" => (o \in schema'.objects <=> o \in schema.objects)
  PROVE  /\ Proper(Expectations[i])' <=> Proper(Expectations[i])
         /\ Masked(Expectations[i])' <=> Masked(Expectations[i])
         /\ AsExpected(Expectations[i])' <=> AsExpected(Expectations[i])
<1> DEFINE t == Expectations[i]
<1>1. Entitled(t)' <=> Entitled(t)
  BY EntitledStays
<1>2. /\ t.expected \in BOOLEAN
      /\ t.right \in {"create", "drop"} => t.table = "poc_role_probe"
      /\ t.right \notin {"create", "drop"} => t.table \in {"price_observation", "review_item"}
  BY AttemptForms
<1> HIDE DEF t
<1>3. t.table \in schema'.objects \cup {"poc_role_probe"} <=> t.table \in schema.objects \cup {"poc_role_probe"}
  BY <1>2
<1>4. Proper(t)' <=> Proper(t)
  BY <1>1, <1>3 DEF Proper
<1>5. Masked(t)' <=> Masked(t)
  BY DEF Masked, HasArtifacts
<1>6. Finds(t)' <=> Finds(t)
  BY <1>2 DEF Finds, HasArtifacts
<1>7. AsExpected(t)' <=> AsExpected(t)
  BY <1>1, <1>6 DEF AsExpected
<1> QED  BY <1>4, <1>5, <1>7 DEF t

(* What is left of the grants when a table goes, on both products.         *)
LEMMA OthersKeepGrants ==
  ASSUME GrantsPlaced, grants' = GrantsLeft(schema'.objects), engine' = engine,
         \A o : o # "poc_role_probe" => (o \in schema'.objects <=> o \in schema.objects)
  PROVE  /\ \A g : g.table # "poc_role_probe" => (g \in grants' <=> g \in grants)
         /\ GrantsPlaced'
<1>1. CASE engine = "postgres"
  <2>1. grants' = {g \in grants : g.table \in schema'.objects \cup {"*"}}
    BY <1>1 DEF GrantsLeft
  <2>2. \A g \in grants : g.table \in schema.objects \cup {"*"}
    BY <1>1 DEF GrantsPlaced
  <2> QED  BY <2>1, <2>2 DEF GrantsPlaced
<1>2. CASE engine # "postgres"
  BY <1>2 DEF GrantsLeft, GrantsPlaced
<1> QED  BY <1>1, <1>2

(* An attempt that is made finds what the history says it finds.           *)
LEMMA AttemptFinds ==
  ASSUME NEW i \in 1 .. 14,
         i < 7 => (probe <=> before.probe),
         i < 14 => ("poc_role_probe" \in schema.objects <=> "poc_role_probe" \in before.objects),
         i = 14 => "poc_role_probe" \in schema.objects,
         ~Masked(Expectations[i])
  PROVE  Allowed(Expectations[i]) <=> Entitled(Expectations[i]) /\ Finds(Expectations[i])
<1> DEFINE t == Expectations[i]
<1>1. /\ t.right \in {"create", "drop"} => t.table = "poc_role_probe"
      /\ t.right \notin {"create", "drop"} => t.table \in {"price_observation", "review_item"}
      /\ t.right = "insert" => i \in {2, 6, 12}
      /\ t.right = "create" => i \in {4, 10, 13}
      /\ t.right = "drop" => i = 14
      /\ i = 12 => t.role = "cp_backup"
  BY AttemptForms
<1>2. t.right = "insert" => ((probe /\ HasArtifacts) <=> (before.probe /\ HasArtifacts))
  <2>1. t.right = "insert" /\ i = 12 => ~HasArtifacts
    BY <1>1 DEF Masked
  <2>2. t.right = "insert" /\ i # 12 => i < 7
    BY <1>1
  <2> QED  BY <1>1, <2>1, <2>2
<1>3. t.right = "create" => (t.table \notin schema.objects <=> "poc_role_probe" \notin before.objects)
  BY <1>1
<1>4. t.right = "drop" => t.table \in schema.objects
  BY <1>1
<1> HIDE DEF t
<1>5. Allowed(t) <=> Entitled(t) /\ Finds(t)
  <2>1. CASE t.right = "insert"
    BY <1>2, <2>1 DEF Allowed, Finds
  <2>2. CASE t.right = "create"
    BY <1>3, <2>2 DEF Allowed, Finds
  <2>3. CASE t.right = "drop"
    BY <1>4, <2>3 DEF Allowed, Finds
  <2>4. CASE t.right \notin {"insert", "create", "drop"}
    BY <2>4 DEF Allowed, Finds
  <2> QED  BY <2>1, <2>2, <2>3, <2>4
<1> QED  BY <1>5 DEF t

(* Where nothing remained of another check, proper privileges let every    *)
(* attempt find what it needs.                                             *)
LEMMA ProperFinds ==
  ASSUME Ordered, ~Remains, \A k \in 1 .. 14 : Proper(Expectations[k]), NEW i \in 1 .. 14
  PROVE  AsExpected(Expectations[i])
<1> DEFINE t == Expectations[i]
<1>1. "price_observation" \in schema.objects
  <2>1. Proper(Expectations[1])
    OBVIOUS
  <2> QED  BY <2>1, TheAttempts DEF Proper
<1>2. "raw_artifact" \in schema.objects
  BY <1>1 DEF Ordered
<1>3. Proper(t) /\ ~before.probe /\ "poc_role_probe" \notin before.objects
  BY DEF Remains
<1>4. /\ t.expected \in BOOLEAN
      /\ t.right \notin {"create", "drop"} => t.table # "poc_role_probe"
  BY AttemptForms
<1> HIDE DEF t
<1>5. Finds(t)
  BY <1>2, <1>3, <1>4 DEF Finds, Proper
<1>6. Entitled(t) <=> t.expected
  BY <1>3, <1>4 DEF Proper
<1>7. AsExpected(t)
  BY <1>5, <1>6 DEF AsExpected
<1> QED  BY <1>7 DEF t

(* When every attempt ended as it should, the privileges are proper.       *)
LEMMA ExpectedIsProper ==
  ASSUME \A k \in 1 .. 14 : AsExpected(Expectations[k]) \/ Masked(Expectations[k]), NEW i \in 1 .. 14
  PROVE  Proper(Expectations[i]) \/ Masked(Expectations[i])
<1> DEFINE t == Expectations[i]
<1>1. AsExpected(Expectations[1]) /\ AsExpected(Expectations[6]) /\ AsExpected(Expectations[13])
  BY TheAttempts DEF Masked
<1>2. "price_observation" \in schema.objects
  BY <1>1, TheAttempts DEF AsExpected, Finds
<1>3. /\ "review_item" \in schema.objects /\ "raw_artifact" \in schema.objects
      /\ ~(before.probe /\ HasArtifacts)
  BY <1>1, TheAttempts DEF AsExpected, Finds
<1>4. "poc_role_probe" \notin before.objects
  BY <1>1, TheAttempts DEF AsExpected, Finds
<1>5. /\ t.expected \in BOOLEAN
      /\ t.right \in {"create", "drop"} => t.table = "poc_role_probe"
      /\ t.right \notin {"create", "drop"} => t.table \in {"price_observation", "review_item"}
  BY AttemptForms
<1>6. AsExpected(t) \/ Masked(t)
  OBVIOUS
<1> HIDE DEF t
<1>7. t.table \in schema.objects \cup {"poc_role_probe"}
  BY <1>2, <1>3, <1>5
<1>8. Finds(t)
  BY <1>2, <1>3, <1>4, <1>5 DEF Finds
<1>9. AsExpected(t) => (Entitled(t) <=> t.expected)
  BY <1>5, <1>8 DEF AsExpected
<1>10. AsExpected(t) => Proper(t)
  BY <1>7, <1>9 DEF Proper
<1> QED  BY <1>6, <1>10 DEF t

(* A privilege that is as it should be, as RoleCheckHonest says it.        *)
LEMMA ProperIsRight ==
  ASSUME NEW t, t.expected \in BOOLEAN
  PROVE  Proper(t) <=> t.table \in schema.objects \cup {"poc_role_probe"} /\ Entitled(t) = t.expected
<1>1. Entitled(t) \in BOOLEAN
  BY DEF Entitled, May
<1>2. (Entitled(t) = t.expected) <=> (Entitled(t) <=> t.expected)
  BY <1>1
<1> QED  BY <1>2 DEF Proper

(* The verdict says what RoleCheckHonest says.                             *)
LEMMA VerdictIsHonest == Verdict => RoleCheckHonest
<1>1. ToSet(Expectations) = {Expectations[i] : i \in 1 .. 14} /\ Len(Expectations) = 14
  <2>1. DOMAIN Expectations = 1 .. 14
    BY CheckPlan
  <2> QED  BY <2>1, CheckPlan DEF ToSet
<1>2. \A i \in 1 .. 14 : Expectations[i].expected \in BOOLEAN
  BY AttemptForms
<1>3. \A i \in 1 .. 14 :
        Proper(Expectations[i]) <=>
          /\ Expectations[i].table \in schema.objects \cup {"poc_role_probe"}
          /\ Entitled(Expectations[i]) = Expectations[i].expected
  BY <1>2, ProperIsRight
<1>4. ASSUME Verdict, outcome = "check passed", NEW t \in ToSet(Expectations)
      PROVE  \/ t.table \in schema.objects \cup {"poc_role_probe"} /\ Entitled(t) = t.expected
             \/ HasArtifacts /\ t.role = "cp_backup" /\ t.right = "insert"
  <2>1. PICK i \in 1 .. 14 : t = Expectations[i]
    BY <1>1
  <2>2. Proper(t) \/ Masked(t)
    BY <1>1, <1>4, <2>1 DEF Verdict
  <2>3. Proper(t) => t.table \in schema.objects \cup {"poc_role_probe"} /\ Entitled(t) = t.expected
    BY <1>3, <2>1
  <2> QED  BY <2>2, <2>3 DEF Masked
<1>5. ASSUME Verdict, outcome = "check failed"
      PROVE  \/ \E t \in ToSet(Expectations) :
                  ~(t.table \in schema.objects \cup {"poc_role_probe"} /\ Entitled(t) = t.expected)
             \/ before.probe \/ "poc_role_probe" \in before.objects
  <2>1. CASE Remains
    BY <2>1 DEF Remains
  <2>2. ASSUME NEW i \in 1 .. 14, ~Proper(Expectations[i])
        PROVE  \E t \in ToSet(Expectations) :
                 ~(t.table \in schema.objects \cup {"poc_role_probe"} /\ Entitled(t) = t.expected)
    <3>1. Expectations[i] \in ToSet(Expectations)
      BY <1>1
    <3>2. ~( /\ Expectations[i].table \in schema.objects \cup {"poc_role_probe"}
             /\ Entitled(Expectations[i]) = Expectations[i].expected)
      BY <1>3, <2>2
    <3> QED  BY <3>1, <3>2
  <2> QED  BY <1>1, <1>5, <2>1, <2>2 DEF Verdict
<1> QED  BY <1>4, <1>5 DEF RoleCheckHonest

(* What an attempt changes.                                                *)
LEMMA AttemptEffects ==
  ASSUME TypeOK, Planned, GrantsPlaced, Checking, Attempt
  PROVE  LET i == Done + 1
             t == Expectations[i]
         IN /\ i \in 1 .. 14 /\ Done' = i
            /\ job'.step = "check" /\ Len(job'.plan) <= Len(Expectations)
            /\ \A k \in 1 .. Len(job'.plan) : job'.plan[k] = Expectations[i + k]
            /\ job'.ok <=> job.ok /\ (Allowed(t) <=> t.expected)
            /\ probe' <=> probe \/ (Allowed(t) /\ t.right = "insert" /\ HasArtifacts)
            /\ t.right \notin {"create", "drop"} \/ ~Allowed(t) => schema' = schema
            /\ t.right = "create" /\ Allowed(t) =>
                 schema'.objects = schema.objects \cup {"poc_role_probe"}
            /\ t.right = "drop" /\ Allowed(t) =>
                 schema'.objects = schema.objects \ {"poc_role_probe"}
            /\ UNCHANGED <<engine, database, roles, rows, before, outcome>>
            /\ \A g : g.table # "poc_role_probe" => (g \in grants' <=> g \in grants)
            /\ \A o : o # "poc_role_probe" => (o \in schema'.objects <=> o \in schema.objects)
            /\ GrantsPlaced'
<1> DEFINE i == Done + 1
           t == Expectations[i]
<1>1. /\ job.step = "check" /\ job.plan # <<>> /\ job.plan \in Seq(Attempts)
      /\ UNCHANGED <<engine, database, roles, rows, before, outcome>>
  BY DEF Attempt, Planned
<1>2. /\ Len(job.plan) \in Nat \ {0} /\ Len(job.plan) <= 14 /\ Len(Expectations) = 14
      /\ Head(job.plan) = job.plan[1]
      /\ Len(Tail(job.plan)) = Len(job.plan) - 1
      /\ \A k \in 1 .. Len(Tail(job.plan)) : Tail(job.plan)[k] = job.plan[k + 1]
      /\ \A k \in 1 .. Len(job.plan) : job.plan[k] = Expectations[Done + k]
  BY <1>1, HeadTailProperties, EmptySeq, CheckPlan DEF Checking
<1>3. i \in 1 .. 14 /\ Head(job.plan) = t
  <2>1. 1 \in 1 .. Len(job.plan) /\ Done = 14 - Len(job.plan)
    BY <1>2 DEF Done
  <2>2. job.plan[1] = Expectations[Done + 1]
    BY <1>2, <2>1
  <2>3. i \in 1 .. 14
    BY <1>2, <2>1
  <2> QED  BY <1>2, <2>2, <2>3
<1>4. job' = [job EXCEPT !.plan = Tail(@), !.ok = @ /\ Allowed(t) = t.expected]
  BY <1>3 DEF Attempt
<1>5. /\ probe' = (probe \/ (Allowed(t) /\ t.right = "insert" /\ HasArtifacts))
      /\ grants' = GrantsLeft(schema'.objects)
  BY <1>3 DEF Attempt
<1>6. schema' = IF ~Allowed(t) \/ t.table # "poc_role_probe" THEN schema
                ELSE After(IF t.right = "create" THEN Create(t.table) ELSE Drop(t.table), schema)
  BY <1>3 DEF Attempt
<1>7. /\ t.expected \in BOOLEAN
      /\ t.right \in {"create", "drop"} => t.table = "poc_role_probe"
      /\ t.right \notin {"create", "drop"} => t.table \in {"price_observation", "review_item"}
  BY <1>3, AttemptForms
<1> HIDE DEF t
<1>8. Allowed(t) \in BOOLEAN
  BY DEF Allowed, Entitled, May
<1>9. PICK ok : ok = (job.ok /\ Allowed(t) = t.expected)
  OBVIOUS
<1>10. job' = Job(job.step, Tail(job.plan), job.view, ok)
  <2>1. job' = [job EXCEPT !.plan = Tail(@), !.ok = ok]
    BY <1>4, <1>9
  <2> QED  BY <2>1, JobEdits
<1>11. job'.step = "check" /\ job'.plan = Tail(job.plan) /\ job'.ok = ok
  BY <1>1, <1>10, JobIs
<1>12. job'.ok <=> job.ok /\ (Allowed(t) <=> t.expected)
  BY <1>7, <1>8, <1>9, <1>11
<1>13. Done' = i /\ Len(job'.plan) <= Len(Expectations)
  <2>1. Done = 14 - Len(job.plan) /\ Done' = 14 - Len(job'.plan)
    BY <1>2 DEF Done
  <2> QED  BY <1>2, <1>11, <2>1
<1>14. \A k \in 1 .. Len(job'.plan) : job'.plan[k] = Expectations[i + k]
  <2> SUFFICES ASSUME NEW k \in 1 .. Len(job'.plan) PROVE job'.plan[k] = Expectations[i + k]
    OBVIOUS
  <2>1. k + 1 \in 1 .. Len(job.plan) /\ job'.plan[k] = job.plan[k + 1]
    BY <1>2, <1>11
  <2>2. Done + (k + 1) = i + k
    BY <1>2 DEF Done
  <2> QED  BY <1>2, <2>1, <2>2
<1>15. /\ t.right \notin {"create", "drop"} \/ ~Allowed(t) => schema' = schema
       /\ t.right = "create" /\ Allowed(t) => schema' = After(Create("poc_role_probe"), schema)
       /\ t.right = "drop" /\ Allowed(t) => schema' = After(Drop("poc_role_probe"), schema)
  BY <1>6, <1>7
<1>16. /\ t.right = "create" /\ Allowed(t) => schema'.objects = schema.objects \cup {"poc_role_probe"}
       /\ t.right = "drop" /\ Allowed(t) => schema'.objects = schema.objects \ {"poc_role_probe"}
  BY <1>15, ProbeTable, SchemaTyped
<1>17. \A o : o # "poc_role_probe" => (o \in schema'.objects <=> o \in schema.objects)
  BY <1>15, <1>16
<1>18. /\ \A g : g.table # "poc_role_probe" => (g \in grants' <=> g \in grants)
       /\ GrantsPlaced'
  BY <1>1, <1>5, <1>17, OthersKeepGrants
<1>19. probe' <=> probe \/ (Allowed(t) /\ t.right = "insert" /\ HasArtifacts)
  BY <1>5
<1>20. t.right \notin {"create", "drop"} \/ ~Allowed(t) => schema' = schema
  BY <1>15
<1>21. i \in 1 .. 14
  BY <1>3
<1> QED  BY <1>1, <1>11, <1>12, <1>13, <1>14, <1>16, <1>17, <1>18, <1>19, <1>20, <1>21, Zenon DEF t

(* An attempt that ends as it should keeps the check going; one that does  *)
(* not has a reason.                                                       *)
LEMMA CheckingAttempt ==
  ASSUME TypeOK, Planned, GrantsPlaced, Ordered, Checking, Attempt
  PROVE  Checking'
<1> DEFINE i == Done + 1
           t == Expectations[i]
<1>1. /\ i \in 1 .. 14 /\ Done' = i /\ job.step = "check"
      /\ job'.step = "check" /\ Len(job'.plan) <= Len(Expectations)
      /\ \A k \in 1 .. Len(job'.plan) : job'.plan[k] = Expectations[i + k]
      /\ UNCHANGED <<engine, database, roles, rows, before, outcome>>
      /\ \A g : g.table # "poc_role_probe" => (g \in grants' <=> g \in grants)
      /\ \A o : o # "poc_role_probe" => (o \in schema'.objects <=> o \in schema.objects)
  BY AttemptEffects DEF Attempt
<1>2. /\ job'.ok <=> job.ok /\ (Allowed(t) <=> t.expected)
      /\ probe' <=> probe \/ (Allowed(t) /\ t.right = "insert" /\ HasArtifacts)
      /\ t.right \notin {"create", "drop"} \/ ~Allowed(t) => schema' = schema
      /\ t.right = "create" /\ Allowed(t) => schema'.objects = schema.objects \cup {"poc_role_probe"}
  BY AttemptEffects
<1>3. /\ t.expected \in BOOLEAN
      /\ t.right = "insert" => i \in {2, 6, 12} /\ (t.expected => i = 6)
      /\ t.right = "create" => i \in {4, 10, 13} /\ (t.expected => i = 13)
      /\ t.right = "drop" => i = 14
  BY <1>1, AttemptForms
<1>4. \A k \in 1 .. 14 :
        /\ Proper(Expectations[k])' <=> Proper(Expectations[k])
        /\ Masked(Expectations[k])' <=> Masked(Expectations[k])
        /\ AsExpected(Expectations[k])' <=> AsExpected(Expectations[k])
  BY <1>1, ProperStays
<1>5. Done = i - 1 /\ Done \in Int /\ Len(Expectations) = 14
  BY <1>1, CheckPlan DEF Done
<1>6. job.ok =>
        /\ i < 7 => (probe <=> before.probe)
        /\ i < 14 => ("poc_role_probe" \in schema.objects <=> "poc_role_probe" \in before.objects)
        /\ i = 14 => "poc_role_probe" \in schema.objects
        /\ \A k \in 1 .. i - 1 : AsExpected(Expectations[k]) \/ Masked(Expectations[k])
  <2>1. (i < 7 <=> Done < 6) /\ (i < 14 <=> Done < 13) /\ (i = 14 <=> Done = 13)
    BY <1>1, <1>5
  <2> HIDE DEF i
  <2> QED  BY <1>1, <1>5, <2>1 DEF Checking
<1>7. job.ok /\ ~Masked(t) => (Allowed(t) <=> Entitled(t) /\ Finds(t))
  BY <1>1, <1>6, AttemptFinds
<1>8. ~job.ok => Remains \/ \E k \in 1 .. 14 : ~Proper(Expectations[k])
  BY <1>1, <1>5 DEF Checking
<1> HIDE DEF t
<1>9. ASSUME job'.ok
      PROVE  /\ i < 6 => (probe' <=> before'.probe)
             /\ i < 13 => ("poc_role_probe" \in schema'.objects <=> "poc_role_probe" \in before'.objects)
             /\ i = 13 => "poc_role_probe" \in schema'.objects
             /\ \A k \in 1 .. i : AsExpected(Expectations[k])' \/ Masked(Expectations[k])'
  <2>1. job.ok /\ (Allowed(t) <=> t.expected)
    BY <1>2, <1>9
  <2>2. ASSUME i < 6 PROVE probe' <=> before'.probe
    <3>1. t.right = "insert" => ~t.expected
      BY <1>1, <1>3, <2>2
    <3>2. i < 7
      BY <1>1, <2>2
    <3> QED  BY <1>1, <1>2, <1>6, <2>1, <3>1, <3>2
  <2>3. ASSUME i < 13
        PROVE  "poc_role_probe" \in schema'.objects <=> "poc_role_probe" \in before'.objects
    <3>1. t.right \notin {"create", "drop"} \/ ~t.expected
      BY <1>1, <1>3, <2>3
    <3>2. schema' = schema
      BY <1>2, <2>1, <3>1
    <3>3. i < 14
      BY <1>1, <2>3
    <3> QED  BY <1>1, <1>6, <2>1, <3>2, <3>3
  <2>4. ASSUME i = 13 PROVE "poc_role_probe" \in schema'.objects
    <3>1. t.right = "create" /\ t.expected = TRUE
      BY <2>4, TheAttempts DEF t
    <3> QED  BY <1>2, <2>1, <3>1
  <2>5. AsExpected(t) \/ Masked(t)
    BY <1>3, <1>7, <2>1 DEF AsExpected
  <2>6. ASSUME NEW k \in 1 .. i PROVE AsExpected(Expectations[k])' \/ Masked(Expectations[k])'
    <3>1. k \in 1 .. 14 /\ (k = i \/ k \in 1 .. i - 1)
      BY <1>1
    <3>2. AsExpected(Expectations[k]) \/ Masked(Expectations[k])
      BY <1>6, <2>1, <2>5, <3>1 DEF t
    <3> QED  BY <1>4, <3>1, <3>2
  <2> QED  BY <2>2, <2>3, <2>4, <2>6
<1>10. ASSUME ~job'.ok PROVE Remains' \/ \E k \in 1 .. 14 : ~Proper(Expectations[k])'
  <2>1. Remains \/ \E k \in 1 .. 14 : ~Proper(Expectations[k])
    <3>1. CASE ~job.ok
      BY <1>8, <3>1
    <3>2. CASE job.ok /\ ~(Allowed(t) <=> t.expected)
      <4> SUFFICES ASSUME ~Remains, \A k \in 1 .. 14 : Proper(Expectations[k])
                   PROVE  FALSE
        OBVIOUS
      <4>1. AsExpected(t) /\ Proper(t)
        BY <1>1, ProperFinds DEF t
      <4>2. CASE Masked(t)
        <5>1. ~t.expected
          <6>1. t.right = "insert" /\ t.role = "cp_backup"
            BY <4>2 DEF Masked
          <6>2. i # 6
            BY <6>1, TheAttempts DEF t
          <6> QED  BY <1>3, <6>1, <6>2
        <5>2. ~Entitled(t)
          BY <1>3, <4>1, <5>1 DEF Proper
        <5> QED  BY <3>2, <5>1, <5>2 DEF Allowed
      <4>3. CASE ~Masked(t)
        BY <1>3, <1>7, <3>2, <4>1, <4>3 DEF AsExpected
      <4> QED  BY <4>2, <4>3
    <3> QED  BY <1>2, <1>10, <3>1, <3>2
  <2>2. Remains' <=> Remains
    BY <1>1 DEF Remains
  <2> QED  BY <1>4, <2>1, <2>2
<1> HIDE DEF i
<1> QED  BY <1>1, <1>5, <1>9, <1>10 DEF Checking

(* A check that ends has a verdict, or none.                               *)
LEMMA VerdictAtEnd ==
  ASSUME TypeOK, Planned, GrantsPlaced, Checking, CheckEnds
  PROVE  Verdict' /\ GrantsPlaced'
<1>1. /\ job.step = "check" /\ job.plan = <<>> /\ grants' = GrantsLeft(schema'.objects)
      /\ UNCHANGED <<engine, database, roles, rows, before>>
      /\ \/ /\ schema' = After(Drop("poc_role_probe"), schema)
            /\ outcome' = IF job.ok THEN "check passed" ELSE "check failed"
         \/ schema' = schema /\ outcome' = outcome
  BY DEF CheckEnds
<1>2. \A o : o # "poc_role_probe" => (o \in schema'.objects <=> o \in schema.objects)
  BY <1>1, ProbeTable, SchemaTyped
<1>3. /\ \A g : g.table # "poc_role_probe" => (g \in grants' <=> g \in grants)
      /\ GrantsPlaced'
  BY <1>1, <1>2, OthersKeepGrants
<1>4. \A k \in 1 .. 14 :
        /\ Proper(Expectations[k])' <=> Proper(Expectations[k])
        /\ Masked(Expectations[k])' <=> Masked(Expectations[k])
  BY <1>1, <1>2, <1>3, ProperStays
<1>5. Done = 14 /\ Len(Expectations) = 14
  <2>1. Len(job.plan) = 0
    BY <1>1, EmptySeq
  <2> QED  BY <2>1, CheckPlan DEF Done
<1>6. outcome = "none"
  BY <1>1, NoOutcomeYet
<1>7. ASSUME job.ok, outcome' = "check passed"
      PROVE  \A k \in 1 .. 14 : Proper(Expectations[k])' \/ Masked(Expectations[k])'
  <2>1. \A k \in 1 .. 14 : AsExpected(Expectations[k]) \/ Masked(Expectations[k])
    BY <1>1, <1>5, <1>7 DEF Checking
  <2>2. \A k \in 1 .. 14 : Proper(Expectations[k]) \/ Masked(Expectations[k])
    BY <2>1, ExpectedIsProper
  <2> QED  BY <1>4, <2>2
<1>8. ASSUME ~job.ok, outcome' = "check failed"
      PROVE  Remains' \/ \E k \in 1 .. 14 : ~Proper(Expectations[k])'
  <2>1. Remains \/ \E k \in 1 .. 14 : ~Proper(Expectations[k])
    BY <1>1, <1>5, <1>8 DEF Checking
  <2>2. Remains' <=> Remains
    BY <1>1 DEF Remains
  <2> QED  BY <1>4, <2>1, <2>2
<1>9. outcome' = "check passed" => job.ok
  BY <1>1, <1>6
<1>10. outcome' = "check failed" => ~job.ok
  BY <1>1, <1>6
<1>11. Verdict'
  BY <1>5, <1>7, <1>8, <1>9, <1>10 DEF Verdict
<1> QED  BY <1>3, <1>11

(* Nothing is claimed of the other commands.                               *)
LEMMA CheckingElsewhere ==
  ASSUME job'.step # "check", outcome' \notin {"check passed", "check failed"}
  PROVE  Checking' /\ Verdict'
BY DEF Checking, Verdict

(* The check begins with all its attempts.                                 *)
LEMMA CheckingBegin ==
  ASSUME TypeOK, Planned, GrantsPlaced,
         Reset \/ CreateRoles \/ ApplyGrants \/ Initial \/ Failing \/ DowngradeStep \/ Compat \/ CheckRoles
  PROVE  Checking' /\ Verdict' /\ GrantsPlaced'
<1>1. ASSUME NEW step, NEW plan, Begin(step, plan)
      PROVE  /\ job' = Job(step, plan, schema, TRUE) /\ outcome' = "none"
             /\ before' = Found(schema.objects, probe) /\ UNCHANGED <<schema, probe>>
             /\ GrantsPlaced'
  BY <1>1 DEF Begin, GrantsPlaced
<1>2. ASSUME NEW step, NEW plan, Begin(step, plan), step # "check"
      PROVE  Checking' /\ Verdict' /\ GrantsPlaced'
  <2>1. job'.step # "check"
    BY <1>1, <1>2, JobIs
  <2> QED  BY <1>1, <1>2, <2>1, CheckingElsewhere
<1>3. CASE CheckRoles
  <2>1. /\ job' = Job("check", Expectations, schema, TRUE) /\ outcome' = "none"
        /\ before' = Found(schema.objects, probe) /\ UNCHANGED <<schema, probe>>
        /\ GrantsPlaced'
    BY <1>1, <1>3 DEF CheckRoles
  <2>2. job'.plan = Expectations /\ job'.ok = TRUE
    BY <2>1, JobIs
  <2>3. before'.objects = schema.objects /\ before'.probe = probe
    BY <2>1 DEF Found
  <2>4. Len(Expectations) = 14 /\ Done' = 0
    BY <2>2, CheckPlan DEF Done
  <2>5. \A i \in 1 .. 14 : job'.plan[i] = Expectations[Done' + i]
    BY <2>2, <2>4
  <2>6. Checking'
    <3>1. \A k \in 1 .. Done' : FALSE
      BY <2>4
    <3>2. Len(job'.plan) = 14 /\ job'.ok
      BY <2>2, <2>4
    <3>3. /\ probe' <=> before'.probe
          /\ "poc_role_probe" \in schema'.objects <=> "poc_role_probe" \in before'.objects
          /\ ~(Done' = 13)
      BY <2>1, <2>3, <2>4
    <3> QED  BY <2>4, <2>5, <3>1, <3>2, <3>3 DEF Checking
  <2> QED  BY <2>1, <2>6 DEF Verdict
<1> QED  BY <1>2, <1>3 DEF Reset, CreateRoles, ApplyGrants, Initial, Failing, DowngradeStep, Compat

(* What is stored between two commands hides no privilege that was seen.   *)
LEMMA VerdictStays ==
  ASSUME TypeOK, Planned, GrantsPlaced, Checking, Verdict,
         SeedDimensions \/ LoadData \/ InsertLoop \/ UNCHANGED vars
  PROVE  Checking' /\ Verdict' /\ GrantsPlaced'
<1>1. UNCHANGED <<engine, database, roles, grants, schema, probe, job, outcome, before>>
  BY DEF SeedDimensions, LoadData, InsertLoop, Store, vars
<1>2. GrantsPlaced'
  BY <1>1 DEF GrantsPlaced
<1>3. Remains' <=> Remains
  BY <1>1 DEF Remains
<1>4. \A t : Proper(t)' <=> Proper(t)
  BY <1>1 DEF Proper, Entitled, May
<1>5. CASE UNCHANGED vars
  <2>1. UNCHANGED rows
    BY <1>5 DEF vars
  <2>2. \A t : (Masked(t)' <=> Masked(t)) /\ (AsExpected(t)' <=> AsExpected(t))
    <3>1. \A t : Entitled(t)' <=> Entitled(t)
      BY <1>1 DEF Entitled, May
    <3>2. \A t : Finds(t)' <=> Finds(t)
      BY <1>1, <2>1 DEF Finds, HasArtifacts
    <3> QED  BY <2>1, <3>1, <3>2 DEF Masked, HasArtifacts, AsExpected
  <2>3. Checking'
    BY <1>1, <1>3, <1>4, <2>2 DEF Checking, Done
  <2>4. Verdict'
    BY <1>1, <1>3, <1>4, <2>2 DEF Verdict
  <2> QED  BY <1>2, <2>3, <2>4
<1>6. CASE InsertLoop
  <2>1. job.step = "compat"
    BY <1>6 DEF InsertLoop
  <2>2. outcome = "none"
    BY <2>1, NoOutcomeYet
  <2> QED  BY <1>1, <1>2, <2>1, <2>2, CheckingElsewhere
<1>7. CASE SeedDimensions \/ LoadData
  <2>1. job = Idle
    BY <1>7 DEF SeedDimensions, LoadData
  <2>2. job'.step # "check"
    BY <1>1, <2>1, IdleFields
  <2>3. HasArtifacts => HasArtifacts'
    BY <1>7 DEF SeedDimensions, LoadData, Store, HasArtifacts
  <2>4. \A t : Masked(t) => Masked(t)'
    BY <2>3 DEF Masked
  <2>5. Verdict'
    BY <1>1, <1>3, <1>4, <2>4 DEF Verdict
  <2> QED  BY <1>2, <2>2, <2>5 DEF Checking
<1> QED  BY <1>5, <1>6, <1>7

(* The other steps leave the verdict, or end it, and grant only on what is *)
(* there.                                                                  *)
LEMMA CheckingRest ==
  ASSUME TypeOK, Planned, GrantsPlaced,
         \/ GrantByHand \/ Statement \/ RunEnds \/ RunFails
         \/ RepairEnds \/ AdminEnds \/ Killed \/ AdminStatement
  PROVE  Checking' /\ Verdict' /\ GrantsPlaced'
<1>1. CASE GrantByHand
  <2>1. job' = Idle /\ outcome' = "none" /\ UNCHANGED <<engine, schema>>
    BY <1>1 DEF GrantByHand
  <2>2. GrantsPlaced'
    BY <1>1, <2>1 DEF GrantByHand, GrantsPlaced
  <2> QED  BY <2>1, <2>2, IdleFields, CheckingElsewhere
<1>2. CASE Statement
  <2>1. /\ job.step \in Alembic \cup {"repair"} /\ outcome' = outcome /\ engine' = engine
        /\ \/ job' = [job EXCEPT !.plan = Tail(@), !.view = After(Head(job.plan), Seen)]
           \/ job' = [job EXCEPT !.plan = Tail(@)]
        /\ UNCHANGED <<schema, grants>> \/ grants' = GrantsLeft(schema'.objects)
    BY <1>2 DEF Statement
  <2>2. job'.step # "check" /\ outcome' = "none"
    BY <2>1, ShorterJob, Kinds, NoOutcomeYet
  <2>3. GrantsPlaced'
    BY <2>1 DEF GrantsPlaced, GrantsLeft
  <2> QED  BY <2>2, <2>3, CheckingElsewhere
<1>3. CASE RunEnds \/ RunFails
  <2>1. PICK s : AlembicEnds(s)
    BY <1>3 DEF RunEnds, RunFails
  <2>2. job.step \in Alembic
    BY <1>3 DEF RunEnds, RunFails
  <2>3. \/ job' = Idle
        \/ job' = Job("reupgrade", PathUp(s.revision, "0002"), s, TRUE)
        \/ job' = Job("repair", Repairs(s.objects), s, TRUE)
    BY <2>1, Continued DEF AlembicEnds
  <2>4. job'.step \in {"idle", "reupgrade", "repair"}
    <3>1. CASE job' = Idle
      BY <3>1, IdleFields
    <3>2. CASE job' = Job("reupgrade", PathUp(s.revision, "0002"), s, TRUE)
      BY <3>2, JobIs
    <3>3. CASE job' = Job("repair", Repairs(s.objects), s, TRUE)
      BY <3>3, JobIs
    <3> QED  BY <2>3, <3>1, <3>2, <3>3
  <2>5. outcome' \notin {"check passed", "check failed"}
    BY <2>1, <2>2 DEF AlembicEnds, Alembic
  <2>6. GrantsPlaced'
    BY <2>1 DEF AlembicEnds, GrantsPlaced, GrantsLeft
  <2> QED  BY <2>4, <2>5, <2>6, CheckingElsewhere
<1>4. CASE RepairEnds \/ AdminEnds \/ Killed
  <2>1. /\ job' = Idle /\ job # Idle /\ UNCHANGED <<engine, grants, schema>>
        /\ outcome' \in {outcome, "failing"} \cup Admin
    BY <1>4, IdleFields, Kinds DEF RepairEnds, AdminEnds, Killed
  <2>2. outcome' \notin {"check passed", "check failed"}
    BY <2>1 DEF Planned, Admin
  <2>3. GrantsPlaced'
    BY <2>1 DEF GrantsPlaced
  <2> QED  BY <2>1, <2>2, <2>3, IdleFields, CheckingElsewhere
<1>5. CASE AdminStatement
  <2> DEFINE s == Head(job.plan)
  <2>1. /\ job.step \in Admin /\ job.plan # <<>> /\ outcome' = outcome /\ engine' = engine
        /\ \/ AdminAccepted(s) /\ AdminEffect(s) /\ job' = [job EXCEPT !.plan = Tail(@)]
           \/ job' = Idle /\ UNCHANGED <<grants, schema>>
    BY <1>5 DEF AdminStatement
  <2>2. job'.step # "check" /\ outcome' = "none"
    BY <2>1, IdleFields, ShorterJob, Kinds, NoOutcomeYet
  <2>3. s \in AdminStatements
    BY <2>1, ToSetTail DEF Planned
  <2> HIDE DEF s
  <2>4. CASE UNCHANGED <<grants, schema>>
    BY <2>1, <2>2, <2>4, CheckingElsewhere DEF GrantsPlaced
  <2>5. CASE AdminAccepted(s) /\ AdminEffect(s)
    <3> SUFFICES GrantsPlaced'
      BY <2>2, CheckingElsewhere
    <3>1. s.do \in {"dropdb", "createdb", "revoke", "role", "grant", "grantall"}
      BY <2>3, AdminKinds
    <3>2. CASE s.do = "dropdb"
      <4>1. schema' = NoSchema /\ grants' = GrantsLeft({})
        BY <2>5, <3>2, AdminEffects
      <4> QED  BY <2>1, <4>1, EmptySchema DEF GrantsPlaced, GrantsLeft
    <3>3. CASE s.do = "revoke"
      <4>1. schema' = schema /\ grants' = {g \in grants : g.table = "*"}
        BY <2>5, <3>3, AdminEffects
      <4> QED  BY <2>1, <4>1 DEF GrantsPlaced
    <3>4. CASE s.do \notin {"dropdb", "revoke"}
      <4>1. schema' = schema /\ grants' = grants \cup Gives(s)
        BY <2>5, <3>4, AdminEffects
      <4>2. \A g \in Gives(s) : g.table \in schema.objects \cup {"*"}
        <5>1. CASE s.do = "grant"
          BY <2>5, <5>1 DEF Gives, AdminAccepted
        <5>2. CASE s.do = "grantall"
          <6>1. Gives(s) = {Grant(p[1], p[2], t) : p \in s.of, t \in SchemaTables(schema)}
            BY <5>2 DEF Gives
          <6> QED  BY <6>1 DEF Grant, SchemaTables
        <5>3. CASE s.do \notin {"grant", "grantall"}
          BY <5>3 DEF Gives
        <5> QED  BY <5>1, <5>2, <5>3
      <4> QED  BY <2>1, <4>1, <4>2 DEF GrantsPlaced
    <3> QED  BY <3>1, <3>2, <3>3, <3>4
  <2> QED  BY <2>1, <2>4, <2>5
<1> QED  BY <1>1, <1>2, <1>3, <1>4, <1>5

(* The course of the check, its verdict and the places of the grants are   *)
(* inductive.                                                              *)
LEMMA CheckingKept ==
  ASSUME TypeOK, Planned, Ordered, GrantsPlaced, Checking, Verdict, [Next]_vars
  PROVE  Checking' /\ Verdict' /\ GrantsPlaced'
<1>1. CASE Attempt
  <2>1. job.step = "check" /\ outcome' = outcome
    BY <1>1 DEF Attempt
  <2>2. outcome' = "none"
    BY <2>1, NoOutcomeYet
  <2>3. Verdict'
    BY <2>2 DEF Verdict
  <2>4. GrantsPlaced'
    BY <1>1, AttemptEffects
  <2> QED  BY <1>1, <2>3, <2>4, CheckingAttempt
<1>2. CASE CheckEnds
  <2>1. job'.step # "check"
    BY <1>2, IdleFields DEF CheckEnds
  <2>2. Checking'
    BY <2>1 DEF Checking
  <2> QED  BY <1>2, <2>2, VerdictAtEnd
<1> QED  BY <1>1, <1>2, CheckingBegin, VerdictStays, CheckingRest DEF Next
----------------------------------------------------------------------------
(* The inductive invariant holds at the start.                             *)
LEMMA IInvInit == Init => IInv
<1> SUFFICES ASSUME Init PROVE IInv
  OBVIOUS
<1>1. /\ engine \in Engines /\ database = FALSE /\ roles = {} /\ grants = {} /\ schema = NoSchema
      /\ rows = "none" /\ probe = FALSE /\ job = Idle /\ reader = "off" /\ outcome = "none"
  BY DEF Init
<1>2. job.step = "idle" /\ job.view = NoSchema
  BY <1>1, IdleFields
<1>3. job.ok = TRUE /\ job = Job(job.step, job.plan, job.view, job.ok)
  BY <1>1, IdleFields
<1>4. TypeOK
  BY <1>1, <1>2, <1>3, EmptySchema, Levels DEF TypeOK
<1>5. Planned
  BY <1>1, <1>2, <1>3, EmptySchema, Kinds DEF Planned
<1>6. Told
  BY <1>1, <1>2, EmptySchema, ObjectsAtLevels, Kinds DEF Told, Good
<1>7. Repaired /\ Answered /\ Granted
  BY <1>1, <1>2 DEF Repaired, FailingStepCleansUp, Answered, OldQueriesSurvive, Granted
<1>8. Ordered /\ GrantsPlaced
  BY <1>1, <1>2, EmptySchema, Kinds DEF Ordered, GrantsPlaced
<1>9. Checking /\ Verdict
  BY <1>1, <1>2 DEF Checking, Verdict
<1> QED  BY <1>4, <1>5, <1>6, <1>7, <1>8, <1>9 DEF IInv

(* Every step keeps it.                                                    *)
LEMMA IInvNext == IInv /\ [Next]_vars => IInv'
BY TypesKept, ToldKept, RepairedKept, AnsweredKept, GrantedKept, OrderedKept, CheckingKept DEF IInv

(* It holds in every state.                                                *)
LEMMA Invariant == Spec => []IInv
BY IInvInit, IInvNext, PTL DEF Spec

(* Types, in every state (bootstrap.py, migrate.py, roles.py).             *)
THEOREM MigrationsTyped == Spec => []TypeOK
<1>1. IInv => TypeOK
  BY DEF IInv
<1> QED  BY <1>1, Invariant, PTL

(* On PostgreSQL the recorded revision says what the schema is, wherever   *)
(* a command was killed or failed (env.py: one transaction for one         *)
(* alembic command).                                                       *)
THEOREM RevisionIsTrue == Spec => []RevisionTellsSchema
<1>1. IInv => RevisionTellsSchema
  BY DEF IInv, Told, Good, RevisionTellsSchema
<1> QED  BY <1>1, Invariant, PTL

(* The failing step, run to its end, leaves nothing of 0003 and takes      *)
(* nothing else away, on both products and whatever was left by killed     *)
(* attempts (repair_partial).                                              *)
THEOREM RepairLeavesNothing == Spec => []FailingStepCleansUp
<1>1. IInv => FailingStepCleansUp
  BY DEF IInv, Repaired
<1> QED  BY <1>1, Invariant, PTL

(* A reader that was answered before the compatible migration began is     *)
(* answered all along (compat_migration and 0002).                         *)
THEOREM ReaderAnswered == Spec => []OldQueriesSurvive
<1>1. IInv => OldQueriesSurvive
  BY DEF IInv, Answered
<1> QED  BY <1>1, Invariant, PTL

(* On PostgreSQL apply_grants, run to its end, leaves exactly the grants   *)
(* it names, whatever was granted before.                                  *)
THEOREM GrantsAsNamed == Spec => []GrantsExact
<1>1. IInv => GrantsExact
  BY DEF IInv, Granted, GrantsExact, OnTables
<1> QED  BY <1>1, Invariant, PTL

(* A role check that passes found every privilege as it should be, except  *)
(* that its own row may keep it from seeing a backup role that inserts;    *)
(* one that fails found one wrong, or what a killed check left             *)
(* (check_roles), whatever was granted by hand and wherever a command was  *)
(* killed before.                                                          *)
THEOREM RoleCheckTellsTruth == Spec => []RoleCheckHonest
<1>1. IInv => RoleCheckHonest
  BY VerdictIsHonest DEF IInv
<1> QED  BY <1>1, Invariant, PTL
=============================================================================
