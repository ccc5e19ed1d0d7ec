------------------------------- MODULE Schema -------------------------------
(***************************************************************************)
(* The database schema as the Alembic migrations build it                  *)
(* (scripts/db_poc/alembic/versions): which tables, indexes and columns    *)
(* each statement creates or drops, in its order, and when the database    *)
(* refuses a statement.  A column that comes with its table is part of it; *)
(* only the columns that are added later are objects of their own.         *)
(***************************************************************************)
EXTENDS Sequences, SequencesExt

Create(o) == [do |-> "create", of |-> o]
Drop(o) == [do |-> "drop", of |-> o]
Stamp(r) == [do |-> "stamp", of |-> r]

Creates(objects) == [i \in DOMAIN objects |-> Create(objects[i])]
Drops(objects) == [i \in DOMAIN objects |-> Drop(objects[i])]

(* 0001: the catalog, what a run fetched, how it was processed, what was    *)
(* observed, and what waits for a decision.                                 *)
CatalogObjects ==
  <<"card_identity", "ix_card_identity_normalized_name", "shop", "source",
    "card_external_reference">>

RunObjects ==
  <<"ingest_run", "ix_ingest_run_source_started", "raw_artifact",
    "ix_raw_artifact_fetched_at">>

ProcessingObjects ==
  <<"processing_run", "extracted_record", "ix_extracted_record_artifact",
    "ix_extracted_record_processing_run", "observation_candidate",
    "identity_resolution_attempt", "ix_attempt_candidate">>

ObservationObjects ==
  <<"price_observation", "ix_observation_candidate", "ix_observation_card_observed",
    "ix_observation_card_shop_observed", "ix_observation_collected_at",
    "price_observation_correction", "ix_correction_observation">>

ReviewObjects == <<"review_item", "ix_review_state_priority">>

Objects0001 ==
  CatalogObjects \o RunObjects \o ProcessingObjects \o ObservationObjects \o ReviewObjects

(* 0002, the backward compatible change, and 0003, the failing one.         *)
Objects0002 ==
  <<"price_observation.freshness_note", "ix_observation_shop_observed", "price_alert_rule">>

Objects0003 ==
  <<"review_item.triage_note", "migration_probe", "ix_observation_card_unique">>

(* A slip: 0002 builds the large table anew instead of altering it. *)
UpgradeByRebuild ==
  [r \in {"0001", "0002", "0003"} |->
     CASE r = "0001" -> Creates(Objects0001)
       [] r = "0002" -> <<Drop("price_observation"), Create("price_observation")>>
                        \o Creates(Objects0002)
       [] r = "0003" -> Creates(Objects0003)]

(* Every downgrade drops what its upgrade created, last first.              *)
Upgrade ==
  [r \in {"0001", "0002", "0003"} |->
     Creates(CASE r = "0001" -> Objects0001 [] r = "0002" -> Objects0002
               [] r = "0003" -> Objects0003)]

Downgrade ==
  [r \in {"0002", "0003"} |->
     Drops(Reverse(IF r = "0002" THEN Objects0002 ELSE Objects0003))]

(* down_revision, and the order of the revisions.                           *)
Revisions == <<"none", "0001", "0002", "0003">>
Level(r) == CHOOSE i \in DOMAIN Revisions : Revisions[i] = r
Before(r) == Revisions[Level(r) - 1]

(* What alembic executes from one revision to another, a stamp after each   *)
(* migration that lies between the two.                                     *)
Up(r, from, to) ==
  IF Level(from) < Level(r) /\ Level(r) <= Level(to)
  THEN Append(Upgrade[r], Stamp(r)) ELSE <<>>

Down(r, from, to) ==
  IF Level(to) < Level(r) /\ Level(r) <= Level(from)
  THEN Append(Downgrade[r], Stamp(Before(r))) ELSE <<>>

PathUp(from, to) == Up("0001", from, to) \o Up("0002", from, to) \o Up("0003", from, to)
PathDown(from, to) == Down("0003", from, to) \o Down("0002", from, to)

(* What a schema at a revision consists of.                                 *)
ObjectsAt(r) ==
  (IF Level(r) >= 2 THEN ToSet(Objects0001) ELSE {}) \cup
  (IF Level(r) >= 3 THEN ToSet(Objects0002) ELSE {}) \cup
  (IF Level(r) >= 4 THEN ToSet(Objects0003) ELSE {})
----------------------------------------------------------------------------
Tables ==
  {"card_identity", "shop", "source", "card_external_reference", "ingest_run",
   "raw_artifact", "processing_run", "extracted_record", "observation_candidate",
   "identity_resolution_attempt", "price_observation", "price_observation_correction",
   "review_item", "price_alert_rule", "migration_probe", "poc_role_probe"}

Index(table, lead) == [on |-> table, lead |-> lead]

(* Every named index: its table and its first column.                       *)
Indexes ==
  [ix_card_identity_normalized_name |-> Index("card_identity", "normalized_name"),
   ix_ingest_run_source_started |-> Index("ingest_run", "source_id"),
   ix_raw_artifact_fetched_at |-> Index("raw_artifact", "fetched_at"),
   ix_extracted_record_artifact |-> Index("extracted_record", "raw_artifact_id"),
   ix_extracted_record_processing_run |-> Index("extracted_record", "processing_run_id"),
   ix_attempt_candidate |-> Index("identity_resolution_attempt", "observation_candidate_id"),
   ix_observation_candidate |-> Index("price_observation", "observation_candidate_id"),
   ix_observation_card_observed |-> Index("price_observation", "card_identity_id"),
   ix_observation_card_shop_observed |-> Index("price_observation", "card_identity_id"),
   ix_observation_collected_at |-> Index("price_observation", "collected_at"),
   ix_correction_observation |-> Index("price_observation_correction", "price_observation_id"),
   ix_review_state_priority |-> Index("review_item", "state"),
   ix_observation_shop_observed |-> Index("price_observation", "shop_id"),
   ix_observation_card_unique |-> Index("price_observation", "card_identity_id")]

Columns ==
  [o \in {"price_observation.freshness_note", "review_item.triage_note"} |->
     IF o = "review_item.triage_note" THEN "review_item" ELSE "price_observation"]

(* The foreign keys that a named index leads with.  InnoDB keeps an index   *)
(* for each: its own, until a named one takes its place for good.           *)
ForeignKeys ==
  {Index("ingest_run", "source_id"), Index("extracted_record", "raw_artifact_id"),
   Index("extracted_record", "processing_run_id"),
   Index("identity_resolution_attempt", "observation_candidate_id"),
   Index("price_observation", "observation_candidate_id"),
   Index("price_observation", "card_identity_id"), Index("price_observation", "shop_id"),
   Index("price_observation_correction", "price_observation_id")}

(* Errno 1553: the last named index that serves a foreign key stays.        *)
ServesForeignKey(o, objects) ==
  /\ o \in DOMAIN Indexes /\ Indexes[o] \in ForeignKeys
  /\ ~ \E p \in objects \ {o} : p \in DOMAIN Indexes /\ Indexes[p] = Indexes[o]

(* What an index or a column belongs to has to be there.                    *)
Fits(o, objects) ==
  /\ o \in DOMAIN Indexes => Indexes[o].on \in objects
  /\ o \in DOMAIN Columns => Columns[o] \in objects

(* The database accepts the statement; cardsRepeat: some card has two       *)
(* observations, which a unique index on the card does not allow.           *)
Accepted(s, objects, engine, cardsRepeat) ==
  CASE s.do = "create" ->
         /\ s.of \notin objects /\ Fits(s.of, objects)
         /\ s.of = "ix_observation_card_unique" => ~cardsRepeat
    [] s.do = "drop" ->
         /\ s.of \in objects
         /\ engine = "mariadb" => ~ServesForeignKey(s.of, objects)
    [] OTHER -> TRUE

After(s, schema) ==
  CASE s.do = "create" -> [schema EXCEPT !.objects = @ \cup {s.of}]
    [] s.do = "drop" -> [schema EXCEPT !.objects = @ \ {s.of}]
    [] s.do = "stamp" -> [schema EXCEPT !.revision = s.of]
=============================================================================
