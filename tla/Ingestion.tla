----------------------------- MODULE Ingestion -----------------------------
(***************************************************************************)
(* The write path of the database PoC: writer processes that store an      *)
(* artifact's body, then insert its rows in one transaction, against a     *)
(* server that enforces unique keys and foreign keys.                      *)
(*   daily    ingest.daily_ingest: an error ends the process               *)
(*   bench    bench._writer: an error is recorded, the next batch follows  *)
(*   loop     migrate._insert_loop: an error ends the loop                 *)
(*   reparse  ingest.reparse: an error ends the process                    *)
(*   probe    integrity._concurrent_worker: one row with a shared key      *)
(* A killed client or server loses the open transactions, never a          *)
(* committed one; both may come back.                                      *)
(***************************************************************************)
EXTENDS Batches

CONSTANTS
  Engines,     \* the products compared
  Procs,       \* writer processes
  Kind,        \* what each process runs
  WriterId,    \* the writer id each process builds its row ids with
  BatchRows,   \* rows in a batch of a bench or loop writer
  DailyBatches, \* batches of one run of the daily writer
  MaxBatches,  \* batches begun by the daily, bench and loop writers (bound)
  MaxStarts,   \* runs started (bound)
  MaxFaults    \* killed clients, killed servers and disk errors (bound)

Kinds == {"daily", "bench", "loop", "reparse", "probe"}

ASSUME IngestionAssumption ==
  /\ Engines \subseteq {"postgres", "mariadb"}
  /\ Kind \in [Procs -> Kinds]
  /\ WriterId \in [Procs -> Nat \ {0}]
  /\ BatchRows \in Nat \ {0}
  /\ DailyBatches \in Nat
  /\ MaxBatches \in Nat
  /\ MaxStarts \in Nat
  /\ MaxFaults \in Nat

(* The id ranges are wide enough, for every table: an artifact has twice as *)
(* many attempts as extracted rows, and 10^10 ids are set aside for each    *)
(* writer (ID_BASE, WRITER_STRIDE).  Every writer has a range of its own.   *)
ASSUME IdRangesAssumption ==
  /\ 2 * RecordsPerRun * (SeedArtifacts + 1) < WriterStride
  /\ 2 * RecordsPerRun * (MaxBatches * BatchRows + 1) < WriterStride
  /\ \A p, q \in Procs : WriterId[p] = WriterId[q] => p = q

(* A batch has at most as many rows as an artifact in the bulk load, which  *)
(* is what the callers ask for (60 and 20); a probe borrows a candidate and *)
(* an artifact that the bulk load has left, and raises where there is none. *)
ASSUME LoadAssumption ==
  /\ BatchRows <= RecordsPerRun
  /\ (\E p \in Procs : Kind[p] = "probe") => SeedArtifacts >= 1

VARIABLES
  engine,      \* the product under test
  committed,   \* rows a commit made durable
  pending,     \* rows inserted by the open transaction of each process
  up,          \* the server accepts connections
  bodies,      \* artifact bodies stored completely
  torn,        \* artifact bodies truncated and not yet written
  pc,          \* where each process is
  seqStart,    \* what next_sequence returned to it
  begun,       \* batches it has begun
  todo,        \* statements its transaction still has to execute
  bulk,        \* observations the bulk statement has inserted so far
  rowwise,     \* it inserts observations one by one, under savepoints
  stale,       \* processes whose pooled connection the server dropped
  refused,     \* processes that a constraint refused (history)
  starts,      \* runs started so far
  batches,     \* batches begun so far by writers that store bodies
  faults       \* faults so far

dbVars == <<committed, pending>>
diskVars == <<bodies, torn>>
txnVars == <<todo, bulk, rowwise>>
procVars == <<pc, seqStart, begun>>
boundVars == <<starts, batches, faults>>
vars == <<engine, committed, pending, up, bodies, torn, pc, seqStart, begun,
          todo, bulk, rowwise, stale, refused, starts, batches, faults>>

PCs == {"idle", "loop", "body", "txn", "failed", "done"}

StoresBodies(p) == Kind[p] \in {"daily", "bench", "loop"}

RowsOf(p) == IF Kind[p] = "daily" THEN RecordsPerRun ELSE BatchRows

(* The sequence number of a process's n-th batch.                           *)
(* The loop writer passes the number of rows it has committed as the offset *)
(* of the next batch, the others count batches.                             *)
SeqOf(p, n) ==
  IF Kind[p] = "loop"
  THEN seqStart[p] + (n - 1) * BatchRows + 1
  ELSE seqStart[p] + n

ProbeKey == <<"probe">>

SeedAll == UNION {SeedRows(k) : k \in 0 .. SeedArtifacts - 1}

RunIds == {r.id : r \in {s \in committed : s.table = "ingest_run"}}
----------------------------------------------------------------------------
(* What the server checks when a process inserts a row.                    *)

(* A slip: the unique constraints are missing, the primary keys are there. *)
ClashOfIds(r, s) == r.table = s.table /\ r.id = s.id

Clash(r, s) ==
  /\ r.table = s.table
  /\ r.id = s.id \/ r.keys \cap s.keys # {}

Clashes(r, rows) == \E s \in rows : Clash(r, s)

KeyClashes(r, rows) ==
  \E s \in rows : r.table = s.table /\ r.keys \cap s.keys # {}

Visible(p) == committed \cup pending[p]

InFlight(p) == UNION {pending[q] : q \in Procs \ {p}}

Orphan(p, r) == ~ r.refs \subseteq {Name(s) : s \in Visible(p)}

Connected(p) == pc[p] = "txn" /\ up /\ p \notin stale

AtObservations(p) ==
  todo[p] # <<>> /\ \A r \in Head(todo[p]) : r.table = "price_observation"

AtPlain(p) == todo[p] # <<>> /\ ~AtObservations(p)

(* The rows of an observation statement are sent in the order of their ids. *)
NextRow(p) == CHOOSE r \in Head(todo[p]) : \A s \in Head(todo[p]) : r.id <= s.id

(* A unique index makes a statement wait while another open transaction     *)
(* holds one of its keys.                                                   *)
Waits(p) ==
  \/ AtPlain(p) /\ \E r \in Head(todo[p]) : Clashes(r, InFlight(p))
  \/ AtObservations(p) /\ Clashes(NextRow(p), InFlight(p))
----------------------------------------------------------------------------
Init ==
  /\ engine \in Engines
  /\ committed = SeedAll
  /\ pending = [p \in Procs |-> {}]
  /\ up = TRUE
  /\ bodies = {k + 1 : k \in 0 .. SeedArtifacts - 1}
  /\ torn = {}
  /\ pc = [p \in Procs |-> "idle"]
  /\ seqStart = [p \in Procs |-> 0]
  /\ begun = [p \in Procs |-> 0]
  /\ todo = [p \in Procs |-> <<>>]
  /\ bulk = [p \in Procs |-> {}]
  /\ rowwise = [p \in Procs |-> FALSE]
  /\ stale = {}
  /\ refused = {}
  /\ starts = 0
  /\ batches = 0
  /\ faults = 0

(* A step is run, or run again after it ended or failed.  Every run opens a *)
(* new engine and, the probes excepted, continues its writer's sequence.    *)
Start(p) ==
  /\ \/ pc[p] = "idle"
     \/ pc[p] \in {"failed", "done"} /\ Kind[p] # "probe"
  /\ starts < MaxStarts
  /\ up
  /\ starts' = starts + 1
  /\ seqStart' = [seqStart EXCEPT ![p] =
                    IF Kind[p] = "probe" THEN 0 ELSE NextSequence(WriterId[p], RunIds)]
  /\ begun' = [begun EXCEPT ![p] = 0]
  /\ pc' = [pc EXCEPT ![p] = "loop"]
  /\ stale' = stale \ {p}
  /\ UNCHANGED <<engine, dbVars, up, diskVars, txnVars, refused, batches, faults>>

(* A slip: the old body counts as stored while it is written over. *)
BeginBodyInPlace(p) ==
  /\ pc[p] = "loop" /\ StoresBodies(p)
  /\ Kind[p] = "daily" => begun[p] < DailyBatches
  /\ batches < MaxBatches
  /\ batches' = batches + 1
  /\ begun' = [begun EXCEPT ![p] = @ + 1]
  /\ torn' = torn \cup {Id(WriterId[p], SeqOf(p, begun[p] + 1))}
  /\ pc' = [pc EXCEPT ![p] = "body"]
  /\ UNCHANGED <<engine, dbVars, up, bodies, seqStart, txnVars, stale, refused,
                 starts, faults>>

(* build_batch ends with materialize_artifact, whose write_text truncates   *)
(* the file and then fills it.                                              *)
BeginBody(p) ==
  /\ pc[p] = "loop" /\ StoresBodies(p)
  /\ Kind[p] = "daily" => begun[p] < DailyBatches
  /\ batches < MaxBatches
  /\ batches' = batches + 1
  /\ begun' = [begun EXCEPT ![p] = @ + 1]
  /\ LET ref == Id(WriterId[p], SeqOf(p, begun[p] + 1))
     IN  /\ bodies' = bodies \ {ref}
         /\ torn' = torn \cup {ref}
  /\ pc' = [pc EXCEPT ![p] = "body"]
  /\ UNCHANGED <<engine, dbVars, up, seqStart, txnVars, stale, refused, starts,
                 faults>>

(* A slip: the metadata transaction begins before the body is on disk. *)
FinishBodyLater(p) ==
  /\ pc[p] = "body"
  /\ todo' = [todo EXCEPT ![p] = BatchStatements(WriterId[p], SeqOf(p, begun[p]), RowsOf(p))]
  /\ pc' = [pc EXCEPT ![p] = "txn"]
  /\ UNCHANGED <<engine, dbVars, up, diskVars, seqStart, begun, bulk, rowwise, stale,
                 refused, boundVars>>

FinishBody(p) ==
  /\ pc[p] = "body"
  /\ LET ref == Id(WriterId[p], SeqOf(p, begun[p]))
     IN  /\ bodies' = bodies \cup {ref}
         /\ torn' = torn \ {ref}
  /\ todo' = [todo EXCEPT ![p] = BatchStatements(WriterId[p], SeqOf(p, begun[p]), RowsOf(p))]
  /\ pc' = [pc EXCEPT ![p] = "txn"]
  /\ UNCHANGED <<engine, dbVars, up, seqStart, begun, bulk, rowwise, stale,
                 refused, boundVars>>

(* A full disk ends every writer: the bench writer builds its batch outside *)
(* the block that records errors.                                           *)
BodyFails(p) ==
  /\ pc[p] = "body" /\ faults < MaxFaults
  /\ faults' = faults + 1
  /\ pc' = [pc EXCEPT ![p] = "failed"]
  /\ UNCHANGED <<engine, dbVars, up, diskVars, seqStart, begun, txnVars, stale,
                 refused, starts, batches>>

(* reparse takes the stored artifacts in the order of their index.          *)
BeginReparse(p) ==
  /\ pc[p] = "loop" /\ Kind[p] = "reparse"
  /\ begun[p] < SeedArtifacts
  /\ begun' = [begun EXCEPT ![p] = @ + 1]
  /\ todo' = [todo EXCEPT ![p] =
                ReparseStatements(begun[p], WriterId[p], SeqOf(p, begun[p] + 1))]
  /\ pc' = [pc EXCEPT ![p] = "txn"]
  /\ UNCHANGED <<engine, dbVars, up, diskVars, seqStart, bulk, rowwise, stale,
                 refused, boundVars>>

BeginProbe(p) ==
  /\ pc[p] = "loop" /\ Kind[p] = "probe"
  /\ todo' = [todo EXCEPT ![p] = ProbeStatements(Id(WriterId[p], 1), ProbeKey)]
  /\ pc' = [pc EXCEPT ![p] = "txn"]
  /\ UNCHANGED <<engine, dbVars, up, diskVars, seqStart, begun, bulk, rowwise,
                 stale, refused, boundVars>>

(* daily and reparse work through their artifacts; the bench deadline and   *)
(* the loop's stop event may end the others at any batch.                   *)
Finish(p) ==
  /\ pc[p] = "loop"
  /\ Kind[p] = "daily" => begun[p] = DailyBatches
  /\ Kind[p] = "reparse" => begun[p] = SeedArtifacts
  /\ Kind[p] # "probe"
  /\ pc' = [pc EXCEPT ![p] = "done"]
  /\ UNCHANGED <<engine, dbVars, up, diskVars, seqStart, begun, txnVars, stale,
                 refused, boundVars>>
----------------------------------------------------------------------------
(* The statement queue after the rows of its first statement are reduced    *)
(* to `rows`.                                                               *)
Rest(p, rows) ==
  IF rows = {} THEN Tail(todo[p]) ELSE <<rows>> \o Tail(todo[p])

(* An exception leaves eng.begin(), which rolls the transaction back.  Only *)
(* the bench writer goes on with its next batch.                            *)
Raise(p) ==
  /\ pending' = [pending EXCEPT ![p] = {}]
  /\ todo' = [todo EXCEPT ![p] = <<>>]
  /\ bulk' = [bulk EXCEPT ![p] = {}]
  /\ rowwise' = [rowwise EXCEPT ![p] = FALSE]
  /\ pc' = [pc EXCEPT ![p] = IF Kind[p] = "bench" THEN "loop" ELSE "failed"]
  /\ UNCHANGED <<engine, committed, up, diskVars, seqStart, begun, boundVars>>

(* A constraint the writers do not expect to be refused by: a duplicate or  *)
(* a missing parent outside price_observation; a missing parent of an       *)
(* observation; on PostgreSQL its primary key, which ON CONFLICT does not   *)
(* name.                                                                    *)
Unexpected(p) ==
  \/ /\ AtPlain(p)
     /\ \E r \in Head(todo[p]) :
          Clashes(r, Visible(p) \cup (Head(todo[p]) \ {r})) \/ Orphan(p, r)
  \/ /\ AtObservations(p) /\ ~KeyClashes(NextRow(p), Visible(p))
     /\ \/ engine = "postgres" /\ Clashes(NextRow(p), Visible(p))
        \/ ~Clashes(NextRow(p), Visible(p)) /\ Orphan(p, NextRow(p))

(* One statement of write_batch, or of reparse, that inserts into a table   *)
(* other than price_observation.                                            *)
Execute(p) ==
  /\ Connected(p) /\ AtPlain(p) /\ ~Waits(p) /\ ~Unexpected(p)
  /\ pending' = [pending EXCEPT ![p] = @ \cup Head(todo[p])]
  /\ todo' = [todo EXCEPT ![p] = Tail(@)]
  /\ UNCHANGED <<engine, committed, up, diskVars, procVars, bulk, rowwise, stale,
                 refused, boundVars>>

Refuse(p) ==
  /\ Connected(p) /\ ~Waits(p) /\ Unexpected(p)
  /\ refused' = refused \cup {p}
  /\ Raise(p)
  /\ UNCHANGED stale

(* insert_observations reaches a row whose keys nobody holds.               *)
AppendObservation(p) ==
  /\ Connected(p) /\ AtObservations(p) /\ ~Waits(p)
  /\ LET r == NextRow(p)
         left == Head(todo[p]) \ {r}
     IN  /\ ~Clashes(r, Visible(p)) /\ ~Orphan(p, r)
         /\ pending' = [pending EXCEPT ![p] = @ \cup {r}]
         /\ todo' = [todo EXCEPT ![p] = Rest(p, left)]
         /\ bulk' = [bulk EXCEPT ![p] =
                       IF left = {} \/ rowwise[p] THEN {} ELSE @ \cup {r}]
         /\ rowwise' = [rowwise EXCEPT ![p] = @ /\ left # {}]
  /\ UNCHANGED <<engine, committed, up, diskVars, procVars, stale, refused, boundVars>>

(* A slip: the row is left out for a key no commit has confirmed yet. *)
DoNothingEarly(p) ==
  /\ Connected(p) /\ AtObservations(p)
  /\ engine = "postgres"
  /\ LET r == NextRow(p)
         left == Head(todo[p]) \ {r}
     IN  /\ KeyClashes(r, Visible(p) \cup InFlight(p))
         /\ todo' = [todo EXCEPT ![p] = Rest(p, left)]
         /\ bulk' = [bulk EXCEPT ![p] = IF left = {} THEN {} ELSE @]
  /\ UNCHANGED <<engine, dbVars, up, diskVars, procVars, rowwise, stale, refused,
                 boundVars>>

(* PostgreSQL, ON CONFLICT (idempotency_key) DO NOTHING: the row is left    *)
(* out.                                                                     *)
DoNothing(p) ==
  /\ Connected(p) /\ AtObservations(p) /\ ~Waits(p)
  /\ engine = "postgres"
  /\ LET r == NextRow(p)
         left == Head(todo[p]) \ {r}
     IN  /\ KeyClashes(r, Visible(p))
         /\ todo' = [todo EXCEPT ![p] = Rest(p, left)]
         /\ bulk' = [bulk EXCEPT ![p] = IF left = {} THEN {} ELSE @]
  /\ UNCHANGED <<engine, dbVars, up, diskVars, procVars, rowwise, stale, refused,
                 boundVars>>

(* A slip: the bulk statement is tried again instead of row by row. *)
BulkDuplicateAgain(p) ==
  /\ Connected(p) /\ AtObservations(p) /\ ~Waits(p)
  /\ engine = "mariadb" /\ ~rowwise[p]
  /\ Clashes(NextRow(p), Visible(p))
  /\ pending' = [pending EXCEPT ![p] = @ \ bulk[p]]
  /\ todo' = [todo EXCEPT ![p] = Rest(p, Head(@) \cup bulk[p])]
  /\ bulk' = [bulk EXCEPT ![p] = {}]
  /\ UNCHANGED <<engine, committed, up, diskVars, procVars, rowwise, stale, refused,
                 boundVars>>

(* MariaDB: a duplicate undoes the bulk statement, and insert_observations  *)
(* starts over row by row.                                                  *)
BulkDuplicate(p) ==
  /\ Connected(p) /\ AtObservations(p) /\ ~Waits(p)
  /\ engine = "mariadb" /\ ~rowwise[p]
  /\ Clashes(NextRow(p), Visible(p))
  /\ pending' = [pending EXCEPT ![p] = @ \ bulk[p]]
  /\ todo' = [todo EXCEPT ![p] = Rest(p, Head(@) \cup bulk[p])]
  /\ bulk' = [bulk EXCEPT ![p] = {}]
  /\ rowwise' = [rowwise EXCEPT ![p] = TRUE]
  /\ UNCHANGED <<engine, committed, up, diskVars, procVars, stale, refused, boundVars>>

(* MariaDB, row by row: is_duplicate_key accepts any duplicate, of the      *)
(* idempotency key or of the primary key.                                   *)
SkipDuplicate(p) ==
  /\ Connected(p) /\ AtObservations(p) /\ ~Waits(p)
  /\ engine = "mariadb" /\ rowwise[p]
  /\ LET r == NextRow(p)
         left == Head(todo[p]) \ {r}
     IN  /\ Clashes(r, Visible(p))
         /\ todo' = [todo EXCEPT ![p] = Rest(p, left)]
         /\ rowwise' = [rowwise EXCEPT ![p] = left # {}]
  /\ UNCHANGED <<engine, dbVars, up, diskVars, procVars, bulk, stale, refused,
                 boundVars>>

(* innodb_lock_wait_timeout: MariaDB gives up a wait, PostgreSQL waits on.  *)
WaitTimeout(p) ==
  /\ Connected(p) /\ Waits(p)
  /\ engine = "mariadb"
  /\ Raise(p)
  /\ UNCHANGED <<stale, refused>>

Commit(p) ==
  /\ Connected(p) /\ todo[p] = <<>>
  /\ committed' = committed \cup pending[p]
  /\ pending' = [pending EXCEPT ![p] = {}]
  /\ pc' = [pc EXCEPT ![p] = IF Kind[p] = "probe" THEN "done" ELSE "loop"]
  /\ UNCHANGED <<engine, up, diskVars, seqStart, begun, txnVars, stale, refused,
                 boundVars>>
----------------------------------------------------------------------------
(* The server is down, or the pooled connection is one it dropped.  Either  *)
(* way the pool opens a new connection for the next transaction.            *)
LostConnection(p) ==
  /\ pc[p] = "txn" /\ ~Connected(p)
  /\ stale' = stale \ {p}
  /\ Raise(p)
  /\ UNCHANGED refused

(* A slip: what the killed client had inserted stays. *)
KillClientKeepsRows(p) ==
  /\ pc[p] \in {"loop", "body", "txn"} /\ faults < MaxFaults
  /\ faults' = faults + 1
  /\ committed' = committed \cup pending[p]
  /\ pending' = [pending EXCEPT ![p] = {}]
  /\ todo' = [todo EXCEPT ![p] = <<>>]
  /\ bulk' = [bulk EXCEPT ![p] = {}]
  /\ rowwise' = [rowwise EXCEPT ![p] = FALSE]
  /\ pc' = [pc EXCEPT ![p] = "failed"]
  /\ UNCHANGED <<engine, up, diskVars, seqStart, begun, stale, refused, starts,
                 batches>>

(* The client process is killed; the server rolls its transaction back.     *)
KillClient(p) ==
  /\ pc[p] \in {"loop", "body", "txn"} /\ faults < MaxFaults
  /\ faults' = faults + 1
  /\ pending' = [pending EXCEPT ![p] = {}]
  /\ todo' = [todo EXCEPT ![p] = <<>>]
  /\ bulk' = [bulk EXCEPT ![p] = {}]
  /\ rowwise' = [rowwise EXCEPT ![p] = FALSE]
  /\ pc' = [pc EXCEPT ![p] = "failed"]
  /\ UNCHANGED <<engine, committed, up, diskVars, seqStart, begun, stale, refused,
                 starts, batches>>

(* The server is killed.  A commit it was working on may have become        *)
(* durable although the client never hears of it.                           *)
KillServer ==
  /\ up /\ faults < MaxFaults
  /\ faults' = faults + 1
  /\ up' = FALSE
  /\ \E durable \in SUBSET {p \in Procs : Connected(p) /\ todo[p] = <<>>} :
       committed' = committed \cup UNION {pending[p] : p \in durable}
  /\ pending' = [p \in Procs |-> {}]
  /\ stale' = {p \in Procs : pc[p] \in {"loop", "body", "txn"}}
  /\ UNCHANGED <<engine, diskVars, procVars, txnVars, refused, starts, batches>>

(* instances.sh starts the instance again; recovery keeps what is durable.  *)
StartServer ==
  /\ ~up
  /\ up' = TRUE
  /\ UNCHANGED <<engine, dbVars, diskVars, procVars, txnVars, stale, refused,
                 boundVars>>
----------------------------------------------------------------------------
Transact(p) ==
  \/ Execute(p) \/ Refuse(p)
  \/ AppendObservation(p) \/ DoNothing(p) \/ BulkDuplicate(p) \/ SkipDuplicate(p)
  \/ Commit(p) \/ LostConnection(p)

Next ==
  \/ \E p \in Procs :
       \/ Start(p) \/ BeginBody(p) \/ FinishBody(p) \/ BodyFails(p)
       \/ BeginReparse(p) \/ BeginProbe(p) \/ Finish(p)
       \/ Transact(p) \/ WaitTimeout(p) \/ KillClient(p)
  \/ KillServer \/ StartServer

Spec == Init /\ [][Next]_vars

(* A client that is inside a transaction keeps going: nothing in write_batch *)
(* waits for anything but the server, which answers what is not blocked.     *)
FairSpec == Spec /\ \A p \in Procs : WF_vars(Transact(p))
----------------------------------------------------------------------------
Observations == {r \in committed : r.table = "price_observation"}

Artifacts == {r.id : r \in {s \in committed : s.table = "raw_artifact"}}

(* Types and bounds of the writers; a body is stored or torn, never both    *)
(* (workload.py, ingest.py).                                                *)
TypeOK ==
  /\ engine \in Engines
  /\ up \in BOOLEAN
  /\ DOMAIN pending = Procs
  /\ pc \in [Procs -> PCs]
  /\ seqStart \in [Procs -> Nat]
  /\ begun \in [Procs -> Nat]
  /\ DOMAIN todo = Procs
  /\ DOMAIN bulk = Procs
  /\ rowwise \in [Procs -> BOOLEAN]
  /\ stale \subseteq Procs
  /\ refused \subseteq Procs
  /\ starts \in 0 .. MaxStarts
  /\ batches \in 0 .. MaxBatches
  /\ faults \in 0 .. MaxFaults
  /\ bodies \cap torn = {}

(* Whatever transactions overlap, retry or die, one observation is          *)
(* confirmed for each idempotency key (workload.insert_observations).       *)
OneObservationPerKey ==
  \A r, s \in Observations : r.keys \cap s.keys # {} => r = s

(* A committed artifact row has its whole body on disk, also when a writer  *)
(* died while storing a body and another run continues its sequence         *)
(* (workload.materialize_artifact, next_sequence).                          *)
ArtifactBodiesStored == Artifacts \subseteq bodies

(* A batch is visible as a whole or not at all: its rows are committed with *)
(* their parents, and an observation that was left out as a duplicate has   *)
(* its key confirmed by another row (write_batch, insert_observations).     *)
Whole(rows) ==
  \A r \in rows :
    IF r.table = "price_observation"
    THEN \E o \in Observations : o.keys = r.keys
    ELSE r \in committed

Statements(p) ==
  IF Kind[p] = "reparse"
  THEN {ReparseStatements(k, WriterId[p], k + 1) : k \in 0 .. SeedArtifacts - 1}
  ELSE {BatchStatements(WriterId[p], id - Id(WriterId[p], 0), RowsOf(p))
          : id \in RunIds \cap WriterRange(WriterId[p])}

BatchesWhole ==
  /\ LET names == {Name(s) : s \in committed}
     IN  \A r \in committed : r.refs \subseteq names
  /\ \A p \in Procs : Kind[p] # "probe" =>
       \A statements \in Statements(p) :
         statements[1] \subseteq committed =>
           \A i \in 1 .. Len(statements) : Whole(statements[i])

(* Writers that record an ingest run never meet a row of their own, or of   *)
(* another writer, and insert parents before children: no constraint ever   *)
(* refuses them (next_sequence, _id, write_batch).                          *)
OnlyReparseRefused == \A p \in refused : Kind[p] = "reparse"

(* The first reparse is not refused either.  It records no ingest run, so   *)
(* the next one starts at the same sequence number.                         *)
ReparseContinuesItsRange == \A p \in refused : Kind[p] # "reparse"

(* When no fault or lock timeout ended a probe, the two of them leave       *)
(* exactly one row with the key they share (check_idempotent_concurrent).   *)
ProbesKeepOne ==
  LET probes == {p \in Procs : Kind[p] = "probe"}
      kept == {o \in Observations : o.keys = {ProbeKey}}
  IN  /\ Cardinality(kept) <= 1
      /\ (\E p \in probes : pc[p] = "done") => Cardinality(kept) = 1

(* A reparse transaction never confirms an observation: each one it derives *)
(* has the key of the seed observation it repeats (_reparse_batch).         *)
ReparseAddsNothing ==
  [][\A r \in Observations' \ Observations :
       \A p \in Procs : Kind[p] = "reparse" => r.id \notin WriterRange(WriterId[p])]_vars

(* Every transaction ends, in a commit or in an error: waiting for another  *)
(* transaction's key never becomes waiting in a circle.                     *)
TransactionsEnd == \A p \in Procs : pc[p] = "txn" ~> pc[p] # "txn"

(* The store behind the writers keeps the promises of ObservationStore.     *)
ArtifactOf(r) ==
  CHOOSE a \in {ref[2] : ref \in {n \in r.refs : n[1] = "raw_artifact"}} : TRUE

Store == INSTANCE ObservationStore WITH
  observations <- {[id |-> r.id, key |-> r.keys, artifact |-> ArtifactOf(r)]
                     : r \in Observations},
  artifacts <- Artifacts

ImplementsStore == Store!Spec
============================================================================
