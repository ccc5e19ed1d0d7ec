------------------------------ MODULE Batches ------------------------------
(***************************************************************************)
(* The rows the database PoC writes: their identifiers, the references and *)
(* unique keys the schema constrains, and the statements that one stored   *)
(* artifact (dbpoc/workload.py) or one reparsed artifact (dbpoc/ingest.py) *)
(* is inserted by.  A row is reduced to what the constraints look at:      *)
(*   table, id  the primary key of the table;                              *)
(*   refs       the rows it has foreign keys to, as <<table, id>> pairs;   *)
(*   keys       its values in the table's unique constraint.               *)
(* Prices, names, hashes and times are left out.                           *)
(***************************************************************************)
EXTENDS Integers, Sequences, FiniteSets, FiniteSetsExt

CONSTANTS
  WriterStride,    \* WRITER_STRIDE: the width of one writer's id range
  RecordsPerRun,   \* RECORDS_PER_RUN: extracted rows of one artifact
  ReviewEvery,     \* one review item for so many extracted rows
  SeedArtifacts    \* artifacts the bulk load leaves in the database

ASSUME BatchesAssumption ==
  /\ WriterStride \in Nat \ {0}
  /\ RecordsPerRun \in Nat \ {0}
  /\ ReviewEvery \in Nat \ {0}
  /\ SeedArtifacts \in Nat

Row(table, id, refs, keys) ==
  [table |-> table, id |-> id, refs |-> refs, keys |-> keys]

Name(row) == <<row.table, row.id>>

(* The base of the table is left out of the identifier: a primary key is   *)
(* only ever compared with others of its own table.                        *)
Id(writer, counter) == writer * WriterStride + counter

WriterRange(writer) == Id(writer, 0) .. Id(writer, WriterStride - 1)

(* A slip: the runs are counted, as if none had ever been lost. *)
CountSequence(writer, runIds) == Cardinality(runIds \cap WriterRange(writer))

(* next_sequence, over the ids an ingest_run query sees. *)
NextSequence(writer, runIds) ==
  LET mine == runIds \cap WriterRange(writer)
  IN  IF mine = {} THEN 0 ELSE Max(mine) - Id(writer, 0)

(* A slip: an artifact's rows are counted from its own number. *)
PackedCounters(seq, rows) == {seq + i : i \in 0 .. rows - 1}

Counters(seq, rows) == {seq * RecordsPerRun + i : i \in 0 .. rows - 1}

(* idempotency_key.  The slug, price type, date and condition of a key are *)
(* functions of the artifact and the row number.                           *)
IdempotencyKey(artifact, i) == <<artifact, i>>
----------------------------------------------------------------------------
(* Rows shared by a first pass and a reparse: a processing run of an       *)
(* artifact, and the record and candidate of one extracted row.            *)
ProcessingRun(id, artifact, config, attempt) ==
  Row("processing_run", id, {<<"raw_artifact", artifact>>},
      {<<artifact, config, attempt>>})

Record(id, run, artifact) ==
  Row("extracted_record", id,
      {<<"processing_run", run>>, <<"raw_artifact", artifact>>}, {})

Candidate(id, rule) ==
  Row("observation_candidate", id, {<<"extracted_record", id>>}, {<<id, rule>>})

Attempt(id, candidate) ==
  Row("identity_resolution_attempt", id,
      {<<"observation_candidate", candidate>>}, {})

Observation(id, candidate, artifact, key) ==
  Row("price_observation", id,
      {<<"observation_candidate", candidate>>, <<"raw_artifact", artifact>>},
      {key})

(* build_batch and write_batch: the statements of one new artifact, in the *)
(* order they are executed.  The content hash is a function of the         *)
(* artifact id, so its unique constraint repeats the primary key.          *)
BatchStatements(writer, seq, rows) ==
  LET run == Id(writer, seq)
      counters == Counters(seq, rows)
      I(c) == c - seq * RecordsPerRun
  IN  << {Row("ingest_run", run, {}, {})},
         {Row("raw_artifact", run, {<<"ingest_run", run>>}, {})},
         {ProcessingRun(run, run, "v1", 1)},
         {Record(Id(writer, c), run, run) : c \in counters},
         {Candidate(Id(writer, c), "v1") : c \in counters},
         UNION {{Attempt(Id(writer, 2 * c), Id(writer, c)),
                 Attempt(Id(writer, 2 * c + 1), Id(writer, c))} : c \in counters},
         {Observation(Id(writer, c), Id(writer, c), run,
                      IdempotencyKey(run, I(c))) : c \in counters},
         {Row("review_item", Id(writer, c),
              {<<"ingest_run", run>>, <<"raw_artifact", run>>,
               <<"extracted_record", Id(writer, c)>>}, {})
            : c \in {d \in counters : I(d) % ReviewEvery = 0}} >>

(* gen_*: the rows of the seed artifact with index k, already loaded.  The *)
(* key of a seed observation holds the index, not the artifact's id.       *)
SeedRows(k) ==
  LET run == k + 1
      counters == {k * RecordsPerRun + i : i \in 0 .. RecordsPerRun - 1}
  IN  {Row("ingest_run", run, {}, {}),
       Row("raw_artifact", run, {<<"ingest_run", run>>}, {}),
       ProcessingRun(run, run, "v1", 1)}
      \cup UNION {{Record(c + 1, run, run),
                   Candidate(c + 1, "v1"),
                   Attempt(2 * c + 1, c + 1),
                   Attempt(2 * c + 2, c + 1),
                   Observation(c + 1, c + 1, run,
                               IdempotencyKey(k, c - k * RecordsPerRun))}
                    : c \in counters}

(* A slip: the keys are built from the rows' new identifiers. *)
RekeyedStatements(k, writer, seq) ==
  LET run == Id(writer, seq)
      counters == Counters(seq, RecordsPerRun)
  IN  << {ProcessingRun(run, k + 1, "v2", 2)},
         {Record(Id(writer, c), run, k + 1) : c \in counters},
         {Candidate(Id(writer, c), "v2") : c \in counters},
         {Attempt(Id(writer, 2 * c), Id(writer, c)) : c \in counters},
         {Observation(Id(writer, c), Id(writer, c), k + 1,
                      IdempotencyKey(run, c)) : c \in counters} >>

(* _reparse_batch and the loop of reparse: the statements of one reparsed  *)
(* seed artifact.  No ingest run, artifact or review item is written, and  *)
(* the observations carry the keys of the seed's observations.             *)
ReparseStatements(k, writer, seq) ==
  LET run == Id(writer, seq)
      counters == Counters(seq, RecordsPerRun)
      I(c) == c - seq * RecordsPerRun
  IN  << {ProcessingRun(run, k + 1, "v2", 2)},
         {Record(Id(writer, c), run, k + 1) : c \in counters},
         {Candidate(Id(writer, c), "v2") : c \in counters},
         {Attempt(Id(writer, 2 * c), Id(writer, c)) : c \in counters},
         {Observation(Id(writer, c), Id(writer, c), k + 1,
                      IdempotencyKey(k, I(c))) : c \in counters} >>

(* _observation_row of the probe workers: one row that borrows the lowest  *)
(* candidate and artifact stored, and takes the caller's id and key.       *)
ProbeStatements(id, key) == << {Observation(id, 1, 1, key)} >>
============================================================================
