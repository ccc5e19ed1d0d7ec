-------------------------- MODULE IngestionProofs --------------------------
(***************************************************************************)
(* What holds of the write path for any number of writers, of any kinds,   *)
(* with any ids, batch sizes, runs and faults.  The unique indexes are     *)
(* checked against every row inserted, committed or not, so no two rows    *)
(* ever hold the same value, whatever ids the writers choose.  That no     *)
(* body of a committed artifact is written over needs more: each writer    *)
(* keeps to a range of ids of its own (IdRangesAssumption) and continues   *)
(* it behind every header committed there, so its batches stay ahead of    *)
(* what is stored.  On both the writers implement ObservationStore.        *)
(*                                                                         *)
(* The second half follows a batch row by row (BatchInv): the rows a       *)
(* transaction has left and those it has inserted make up its batch, and   *)
(* the rows still to come clash with nothing that is there.                *)
(***************************************************************************)
EXTENDS Ingestion, WellFoundedInduction, SequenceTheorems, FiniteSetTheorems, TLAPS

(* Every row inserted and not rolled back.                                 *)
Rows == committed \cup UNION {pending[p] : p \in Procs}

(* No two of the rows share an id in a table or a unique key.              *)
AllDistinct(rows) == \A r, s \in rows : Clash(r, s) => r = s

(* No two rows, committed or not, clash.                                   *)
IndexesHold ==
  /\ pending = [p \in Procs |-> pending[p]]
  /\ AllDistinct(Rows)
----------------------------------------------------------------------------
(* Multiples of a positive number are at least that number apart.          *)
LEMMA Apart ==
  ASSUME NEW n \in Nat \ {0}, NEW a \in Nat, NEW b \in Nat, a < b
  PROVE  a * n + n <= b * n
<1>1. PICK d \in Nat : b = a + 1 + d
  <2>1. b - a - 1 \in Nat
    OBVIOUS
  <2>2. b = a + 1 + (b - a - 1)
    OBVIOUS
  <2> QED  BY <2>1, <2>2
<1>2. b * n = a * n + n + d * n
  BY <1>1
<1>3. d * n \in Nat
  OBVIOUS
<1>4. a * n \in Nat
  OBVIOUS
<1> QED  BY <1>2, <1>3, <1>4

(* The extracted rows of two seed artifacts have different numbers.        *)
LEMMA SeedCounters ==
  ASSUME NEW k \in Nat, NEW m \in Nat, NEW c \in Int,
         c \in {k * RecordsPerRun + i : i \in 0 .. RecordsPerRun - 1},
         c \in {m * RecordsPerRun + i : i \in 0 .. RecordsPerRun - 1}
  PROVE  k = m
<1> USE BatchesAssumption
<1>1. PICK i \in 0 .. RecordsPerRun - 1 : c = k * RecordsPerRun + i
  OBVIOUS
<1>2. PICK j \in 0 .. RecordsPerRun - 1 : c = m * RecordsPerRun + j
  OBVIOUS
<1>3. k * RecordsPerRun \in Int /\ m * RecordsPerRun \in Int
  OBVIOUS
<1>4. ~ (k < m)
  <2> SUFFICES ASSUME k < m PROVE FALSE
    OBVIOUS
  <2>1. k * RecordsPerRun + RecordsPerRun <= m * RecordsPerRun
    BY Apart
  <2> QED  BY <2>1, <1>1, <1>2, <1>3
<1>5. ~ (m < k)
  <2> SUFFICES ASSUME m < k PROVE FALSE
    OBVIOUS
  <2>1. m * RecordsPerRun + RecordsPerRun <= k * RecordsPerRun
    BY Apart
  <2> QED  BY <2>1, <1>1, <1>2, <1>3
<1> QED  BY <1>4, <1>5

(* The numbers of the observations of a seed artifact.                     *)
SeedNumbers(k) == {k * RecordsPerRun + i : i \in 0 .. RecordsPerRun - 1}

(* The rows of a seed artifact, one disjunct for each table.               *)
LEMMA SeedForms ==
  ASSUME NEW k \in Nat, NEW r \in SeedRows(k)
  PROVE  \/ r = Row("ingest_run", k + 1, {}, {})
         \/ r = Row("raw_artifact", k + 1, {<<"ingest_run", k + 1>>}, {})
         \/ r = ProcessingRun(k + 1, k + 1, "v1", 1)
         \/ \E c \in SeedNumbers(k) :
              \/ r = Record(c + 1, k + 1, k + 1)
              \/ r = Candidate(c + 1, "v1")
              \/ r = Attempt(2 * c + 1, c + 1)
              \/ r = Attempt(2 * c + 2, c + 1)
              \/ r = Observation(c + 1, c + 1, k + 1,
                                 IdempotencyKey(k, c - k * RecordsPerRun))
  BY DEF SeedRows, SeedNumbers

(* They are integers.                                                      *)
LEMMA SeedNumbersInt ==
  ASSUME NEW k \in Nat
  PROVE  SeedNumbers(k) \subseteq Int /\ k * RecordsPerRun \in Int
<1> USE BatchesAssumption
<1>1. k * RecordsPerRun \in Int
  OBVIOUS
<1> QED  BY <1>1 DEF SeedNumbers

(* The bulk load leaves no two rows with the same key or identifier.       *)
LEMMA SeedDistinct == AllDistinct(SeedAll)
<1> SUFFICES ASSUME NEW k \in 0 .. SeedArtifacts - 1, NEW m \in 0 .. SeedArtifacts - 1,
                    NEW r \in SeedRows(k), NEW s \in SeedRows(m), Clash(r, s)
             PROVE  r = s
  BY DEF AllDistinct, SeedAll
<1> k \in Nat /\ m \in Nat
  BY BatchesAssumption
<1>0. r.table = s.table /\ (r.id = s.id \/ r.keys \cap s.keys # {})
  BY DEF Clash
<1>1. CASE r = Row("ingest_run", k + 1, {}, {})
  <2>1. s = Row("ingest_run", m + 1, {}, {})
    BY <1>0, <1>1, SeedForms DEF Row, ProcessingRun, Record, Candidate, Attempt, Observation
  <2> QED  BY <1>0, <1>1, <2>1 DEF Row
<1>2. CASE r = Row("raw_artifact", k + 1, {<<"ingest_run", k + 1>>}, {})
  <2>1. s = Row("raw_artifact", m + 1, {<<"ingest_run", m + 1>>}, {})
    BY <1>0, <1>2, SeedForms DEF Row, ProcessingRun, Record, Candidate, Attempt, Observation
  <2>2. k = m
    BY <1>0, <1>2, <2>1 DEF Row
  <2> QED  BY <1>2, <2>1, <2>2
<1>3. CASE r = ProcessingRun(k + 1, k + 1, "v1", 1)
  <2>1. s = ProcessingRun(m + 1, m + 1, "v1", 1)
    BY <1>0, <1>3, SeedForms DEF Row, ProcessingRun, Record, Candidate, Attempt, Observation
  <2>2. k = m
    BY <1>0, <1>3, <2>1 DEF ProcessingRun, Row
  <2> QED  BY <1>3, <2>1, <2>2
<1>4. ASSUME NEW c \in SeedNumbers(k)
      PROVE  /\ r = Record(c + 1, k + 1, k + 1) => r = s
             /\ r = Candidate(c + 1, "v1") => r = s
             /\ r = Attempt(2 * c + 1, c + 1) => r = s
             /\ r = Attempt(2 * c + 2, c + 1) => r = s
             /\ r = Observation(c + 1, c + 1, k + 1,
                                IdempotencyKey(k, c - k * RecordsPerRun)) => r = s
  <2> c \in Int
    BY SeedNumbersInt
  <2>1. ASSUME r = Record(c + 1, k + 1, k + 1) PROVE r = s
    <3>1. PICK d \in SeedNumbers(m) : s = Record(d + 1, m + 1, m + 1)
      BY <1>0, <2>1, SeedForms DEF Row, ProcessingRun, Record, Candidate, Attempt, Observation
    <3>2. d \in Int
      BY SeedNumbersInt
    <3>3. c = d
      BY <1>0, <2>1, <3>1, <3>2 DEF Record, Row
    <3>4. k = m
      BY <3>3, SeedCounters DEF SeedNumbers
    <3> QED  BY <2>1, <3>1, <3>3, <3>4
  <2>2. ASSUME r = Candidate(c + 1, "v1") PROVE r = s
    <3>1. PICK d \in SeedNumbers(m) : s = Candidate(d + 1, "v1")
      BY <1>0, <2>2, SeedForms DEF Row, ProcessingRun, Record, Candidate, Attempt, Observation
    <3>2. d \in Int
      BY SeedNumbersInt
    <3>3. c = d
      BY <1>0, <2>2, <3>1, <3>2 DEF Candidate, Row
    <3> QED  BY <2>2, <3>1, <3>3
  <2>3. ASSUME r = Attempt(2 * c + 1, c + 1) \/ r = Attempt(2 * c + 2, c + 1) PROVE r = s
    <3>1. PICK d \in SeedNumbers(m) :
            s = Attempt(2 * d + 1, d + 1) \/ s = Attempt(2 * d + 2, d + 1)
      BY <1>0, <2>3, SeedForms DEF Row, ProcessingRun, Record, Candidate, Attempt, Observation
    <3>2. d \in Int
      BY SeedNumbersInt
    <3>3. r.id = s.id
      BY <1>0, <2>3, <3>1 DEF Attempt, Row
    <3>4. r.id \in {2 * c + 1, 2 * c + 2} /\ s.id \in {2 * d + 1, 2 * d + 2}
      BY <2>3, <3>1 DEF Attempt, Row
    <3>5. c = d
      BY <3>2, <3>3, <3>4
    <3>6. CASE r = Attempt(2 * c + 1, c + 1)
      <4>1. s # Attempt(2 * c + 2, c + 1)
        BY <3>3, <3>6 DEF Attempt, Row
      <4> QED  BY <3>1, <3>5, <3>6, <4>1
    <3>7. CASE r = Attempt(2 * c + 2, c + 1)
      <4>1. s # Attempt(2 * c + 1, c + 1)
        BY <3>3, <3>7 DEF Attempt, Row
      <4> QED  BY <3>1, <3>5, <3>7, <4>1
    <3> QED  BY <2>3, <3>6, <3>7
  <2>4. ASSUME r = Observation(c + 1, c + 1, k + 1,
                               IdempotencyKey(k, c - k * RecordsPerRun)) PROVE r = s
    <3>1. PICK d \in SeedNumbers(m) :
            s = Observation(d + 1, d + 1, m + 1,
                            IdempotencyKey(m, d - m * RecordsPerRun))
      BY <1>0, <2>4, SeedForms DEF Row, ProcessingRun, Record, Candidate, Attempt, Observation
    <3>2. d \in Int
      BY SeedNumbersInt
    <3>3. c = d /\ k = m
      <4>1. CASE r.id = s.id
        <5>1. c = d
          BY <4>1, <2>4, <3>1, <3>2 DEF Observation, Row
        <5> QED  BY <5>1, SeedCounters DEF SeedNumbers
      <4>2. CASE r.keys \cap s.keys # {}
        <5>1. IdempotencyKey(k, c - k * RecordsPerRun)
                = IdempotencyKey(m, d - m * RecordsPerRun)
          BY <4>2, <2>4, <3>1 DEF Observation, Row
        <5>2. k = m /\ c - k * RecordsPerRun = d - m * RecordsPerRun
          BY <5>1 DEF IdempotencyKey
        <5> QED  BY <5>2, <3>2, SeedNumbersInt
      <4> QED  BY <1>0, <4>1, <4>2
    <3> QED  BY <2>4, <3>1, <3>3
  <2> QED  BY <2>1, <2>2, <2>3, <2>4
<1> QED  BY <1>1, <1>2, <1>3, <1>4, SeedForms
----------------------------------------------------------------------------
(* The seed does not.                                                      *)
LEMMA InitIndexes == Init => IndexesHold
<1> SUFFICES ASSUME Init PROVE IndexesHold
  OBVIOUS
<1>1. pending = [p \in Procs |-> {}]
  BY DEF Init
<1>2. Rows = SeedAll
  BY <1>1 DEF Init, Rows
<1> QED  BY <1>1, <1>2, SeedDistinct DEF IndexesHold

(* A transaction that gains rows clashing with nobody's keeps the indexes. *)
LEMMA Insert ==
  ASSUME NEW p \in Procs, NEW new, IndexesHold,
         AllDistinct(new),
         \A r \in new : \A s \in Rows : ~Clash(r, s),
         committed' = committed,
         pending' = [pending EXCEPT ![p] = @ \cup new]
  PROVE  IndexesHold'
<1>1. pending' = [q \in Procs |-> pending'[q]]
  BY DEF IndexesHold
<1>2. Rows' \subseteq Rows \cup new
  BY DEF IndexesHold, Rows
<1>3. \A r \in Rows, s \in new : ~Clash(r, s)
  BY DEF Clash
<1> QED  BY <1>1, <1>2, <1>3 DEF IndexesHold, AllDistinct

(* A step that only moves or drops rows keeps them too.                    *)
LEMMA Keep ==
  ASSUME IndexesHold, Rows' \subseteq Rows,
         pending' = [q \in Procs |-> pending'[q]]
  PROVE  IndexesHold'
  BY DEF IndexesHold, AllDistinct

(* What a writer that does not wait sees is everything there is.           *)
LEMMA Everything ==
  ASSUME NEW p \in Procs
  PROVE  Rows = Visible(p) \cup InFlight(p)
  BY DEF Rows, Visible, InFlight

(* Every step keeps the indexes.                                           *)
LEMMA NextIndexes == IndexesHold /\ [Next]_vars => IndexesHold'
<1> SUFFICES ASSUME IndexesHold, [Next]_vars PROVE IndexesHold'
  OBVIOUS
<1>1. ASSUME NEW p \in Procs, Execute(p) PROVE IndexesHold'
  <2>1. /\ \A r \in Head(todo[p]) : ~Clashes(r, InFlight(p))
        /\ \A r \in Head(todo[p]) :
             ~Clashes(r, Visible(p) \cup (Head(todo[p]) \ {r}))
    BY <1>1 DEF Execute, Waits, Unexpected
  <2>2. AllDistinct(Head(todo[p]))
    BY <2>1 DEF AllDistinct, Clashes
  <2>3. \A r \in Head(todo[p]) : \A s \in Rows : ~Clash(r, s)
    BY <2>1, Everything DEF Clashes
  <2> QED  BY <1>1, <2>2, <2>3, Insert DEF Execute
<1>2. ASSUME NEW p \in Procs, AppendObservation(p) PROVE IndexesHold'
  <2> DEFINE r == NextRow(p)
  <2>1. ~Clashes(r, InFlight(p)) /\ ~Clashes(r, Visible(p))
    BY <1>2 DEF AppendObservation, Waits
  <2>2. AllDistinct({r})
    BY DEF AllDistinct
  <2>3. \A t \in {r} : \A s \in Rows : ~Clash(t, s)
    BY <2>1, Everything DEF Clashes
  <2>4. committed' = committed /\ pending' = [pending EXCEPT ![p] = @ \cup {r}]
    BY <1>2 DEF AppendObservation
  <2> HIDE DEF r
  <2> QED  BY <2>2, <2>3, <2>4, Insert
<1>3. ASSUME NEW p \in Procs,
             committed' = committed,
             \E kept \in SUBSET pending[p] : pending' = [pending EXCEPT ![p] = kept]
      PROVE  IndexesHold'
  <2>1. pending' = [q \in Procs |-> pending'[q]]
    BY <1>3 DEF IndexesHold
  <2>2. Rows' \subseteq Rows
    BY <1>3 DEF Rows, IndexesHold
  <2> QED  BY <2>1, <2>2, Keep
<1>4. ASSUME NEW p \in Procs, Commit(p) PROVE IndexesHold'
  <2>1. pending' = [q \in Procs |-> pending'[q]]
    BY <1>4 DEF Commit, IndexesHold
  <2>2. Rows' \subseteq Rows
    BY <1>4 DEF Commit, Rows, IndexesHold
  <2> QED  BY <2>1, <2>2, Keep
<1>5. ASSUME KillServer PROVE IndexesHold'
  <2>1. pending' = [q \in Procs |-> pending'[q]]
    BY <1>5 DEF KillServer
  <2>2. Rows' \subseteq Rows
    BY <1>5 DEF KillServer, Rows, IndexesHold
  <2> QED  BY <2>1, <2>2, Keep
<1>6. ASSUME UNCHANGED dbVars PROVE IndexesHold'
  BY <1>6 DEF dbVars, IndexesHold, Rows, AllDistinct
<1>7. ASSUME NEW p \in Procs,
             Refuse(p) \/ BulkDuplicate(p) \/ WaitTimeout(p) \/ LostConnection(p)
             \/ KillClient(p)
      PROVE  IndexesHold'
  <2>1. committed' = committed
    BY <1>7 DEF Refuse, BulkDuplicate, WaitTimeout, LostConnection, KillClient, Raise
  <2>2. \/ pending' = [pending EXCEPT ![p] = {}]
        \/ pending' = [pending EXCEPT ![p] = @ \ bulk[p]]
    BY <1>7 DEF Refuse, BulkDuplicate, WaitTimeout, LostConnection, KillClient, Raise
  <2>3. pending[p] \ bulk[p] \in SUBSET pending[p] /\ {} \in SUBSET pending[p]
    OBVIOUS
  <2>4. \E kept \in SUBSET pending[p] : pending' = [pending EXCEPT ![p] = kept]
    BY <2>2, <2>3
  <2> QED  BY <1>3, <2>1, <2>4
<1>8. ASSUME NEW p \in Procs,
             \/ Start(p) \/ BeginBody(p) \/ FinishBody(p) \/ BodyFails(p)
             \/ BeginReparse(p) \/ BeginProbe(p) \/ Finish(p)
             \/ DoNothing(p) \/ SkipDuplicate(p)
      PROVE  IndexesHold'
  <2>1. UNCHANGED dbVars
    BY <1>8 DEF dbVars, Start, BeginBody, FinishBody, BodyFails, BeginReparse,
                BeginProbe, Finish, DoNothing, SkipDuplicate
  <2> QED  BY <1>6, <2>1
<1>9. ASSUME StartServer \/ UNCHANGED vars PROVE IndexesHold'
  BY <1>6, <1>9 DEF StartServer, vars, dbVars
<1> QED
  BY <1>1, <1>2, <1>4, <1>5, <1>7, <1>8, <1>9 DEF Next, Transact

(* One observation is confirmed for each idempotency key, whatever the     *)
(* writers are and however they overlap, fail and start again.             *)
THEOREM ObservationKeysUnique == Spec => []OneObservationPerKey
<1>1. IndexesHold => OneObservationPerKey
  BY DEF IndexesHold, AllDistinct, Rows, OneObservationPerKey, Observations, Clash
<1> QED  BY <1>1, InitIndexes, NextIndexes, PTL DEF Spec

(* No step takes back or rewrites a committed row: every table the writers *)
(* insert into is append-only for them, through faults and restarts.       *)
THEOREM CommittedRowsStay == Spec => [][committed \subseteq committed']_vars
<1>1. [Next]_vars => committed \subseteq committed'
  BY DEF Next, Transact, vars, dbVars, Start, BeginBody, FinishBody, BodyFails,
         BeginReparse, BeginProbe, Finish, Execute, Refuse, Raise, AppendObservation,
         DoNothing, BulkDuplicate, SkipDuplicate, WaitTimeout, Commit, LostConnection,
         KillClient, KillServer, StartServer
<1> QED  BY <1>1, PTL DEF Spec
----------------------------------------------------------------------------
(* The statements of the transaction that a process has begun last.        *)
Batch(p) ==
  IF StoresBodies(p) THEN BatchStatements(WriterId[p], SeqOf(p, begun[p]), RowsOf(p))
  ELSE IF Kind[p] = "reparse"
  THEN ReparseStatements(begun[p] - 1, WriterId[p], SeqOf(p, begun[p]))
  ELSE ProbeStatements(Id(WriterId[p], 1), ProbeKey)

(* The rows of some statements.                                            *)
AllRows(statements) == UNION {statements[i] : i \in 1 .. Len(statements)}

(* The rows of the transaction that a process has begun last.              *)
OwnRows(p) == AllRows(Batch(p))

(* Only writers with bodies are at a body, and whoever is past it has      *)
(* begun a batch.                                                          *)
Phases ==
  \A p \in Procs :
    /\ pc[p] = "body" => StoresBodies(p)
    /\ pc[p] \in {"body", "txn"} => Kind[p] = "probe" \/ begun[p] >= 1

(* An open transaction has inserted, and will insert, rows of its own      *)
(* batch.                                                                  *)
OwnBatch ==
  /\ pending = [p \in Procs |-> pending[p]]
  /\ todo = [p \in Procs |-> todo[p]]
  /\ bulk = [p \in Procs |-> bulk[p]]
  /\ \A p \in Procs :
       IF pc[p] = "txn"
       THEN /\ todo[p] \in Seq((SUBSET OwnRows(p)) \ {{}})
            /\ pending[p] \cup bulk[p] \subseteq OwnRows(p)
       ELSE todo[p] = <<>> /\ pending[p] = {} /\ bulk[p] = {}

(* What the ORM holds back are observations, and the statement that        *)
(* stores them is the next.                                                *)
BulkObserves ==
  \A p \in Procs :
    /\ bulk[p] # {} => AtObservations(p) /\ todo[p] # <<>> /\ ~rowwise[p]
    /\ \A r \in bulk[p] : r.table = "price_observation"

(* The process has read where its range ends.                              *)
Running(p) == pc[p] \in {"loop", "body", "txn"}

(* How far a process has got in its range.                                 *)
Reached(p) == IF begun[p] = 0 THEN seqStart[p] ELSE SeqOf(p, begun[p])

(* The ids of the runs and the artifacts that are committed.               *)
HeaderIds == {r.id : r \in {s \in committed : s.table \in {"ingest_run", "raw_artifact"}}}

(* No header in the range of a writer is behind the counter of batches,    *)
(* and none is behind a writer of that range that runs.                    *)
Ahead ==
  \A p \in Procs : StoresBodies(p) =>
    /\ \A id \in HeaderIds \cap WriterRange(WriterId[p]) :
         id <= Id(WriterId[p], batches * BatchRows)
    /\ Running(p) =>
         /\ Reached(p) <= batches * BatchRows
         /\ \A id \in HeaderIds \cap WriterRange(WriterId[p]) :
              id <= Id(WriterId[p], Reached(p))

(* The body of every committed artifact is whole, and that of a            *)
(* transaction that may commit.                                            *)
BodiesKept ==
  /\ Artifacts \subseteq bodies
  /\ \A p \in Procs : pc[p] = "txn" /\ StoresBodies(p) =>
       Id(WriterId[p], SeqOf(p, begun[p])) \in bodies

(* The rows, as others refer to them.                                      *)
Names(rows) == {Name(r) : r \in rows}

(* What rows of some tables look like; no row refers to an observation.    *)
Shaped(r) ==
  /\ r.id \in Nat
  /\ \A n \in r.refs : n[1] # "price_observation"
  /\ r.table = "raw_artifact" => r.refs = {<<"ingest_run", r.id>>}
  /\ r.table = "price_observation" =>
       \E c, a, k : r = Observation(r.id, c, a, k)

(* What a committed row refers to is committed; what a pending row refers  *)
(* to is committed or pending with it.                                     *)
Parents ==
  /\ \A r \in committed : Shaped(r) /\ r.refs \subseteq Names(committed)
  /\ \A p \in Procs : \A r \in pending[p] : r.refs \subseteq Names(committed \cup pending[p])
----------------------------------------------------------------------------
(* A nonempty set of naturals has a least element.                         *)
LEMMA Least ==
  ASSUME NEW S \in SUBSET Nat, S # {}
  PROVE  \E m \in S : \A n \in S : m <= n
<1>1. PICK m \in S : \A n \in S : ~ (<<n, m>> \in OpToRel(<, Nat))
  BY NatLessThanWellFounded, WFMin
<1>2. \A n \in S : ~ (n < m)
  BY <1>1 DEF OpToRel
<1> QED  BY <1>2

(* Max is the largest element of a nonempty finite range.                  *)
LEMMA Largest ==
  ASSUME NEW lo \in Int, NEW hi \in Int, NEW S \in SUBSET (lo .. hi), S # {}
  PROVE  Max(S) \in S /\ \A n \in S : n <= Max(S)
<1> DEFINE T == {hi - n : n \in S}
<1>1. T \in SUBSET Nat /\ T # {}
  OBVIOUS
<1>2. PICK m \in T : \A n \in T : m <= n
  BY <1>1, Least
<1>3. PICK x \in S : m = hi - x
  OBVIOUS
<1>4. \A n \in S : x >= n
  BY <1>2, <1>3
<1> QED  BY <1>4 DEF Max

(* Ids are counted from the start of a range.                              *)
LEMMA IdNat ==
  ASSUME NEW w \in Nat, NEW c \in Nat
  PROVE  Id(w, c) \in Nat /\ Id(w, 0) \in Nat /\ Id(w, c) = Id(w, 0) + c
<1>1. w * WriterStride \in Nat
  BY BatchesAssumption
<1> QED  BY <1>1 DEF Id

(* next_sequence continues behind every id of the range.                   *)
LEMMA Continues ==
  ASSUME NEW w \in Nat, NEW ids
  PROVE  /\ NextSequence(w, ids) \in Nat
         /\ \A id \in ids \cap WriterRange(w) : id <= Id(w, NextSequence(w, ids))
         /\ \/ NextSequence(w, ids) = 0
            \/ Id(w, NextSequence(w, ids)) \in ids \cap WriterRange(w)
<1> DEFINE mine == ids \cap WriterRange(w)
<1>0. Id(w, 0) \in Nat /\ Id(w, WriterStride - 1) \in Nat
  BY IdNat, BatchesAssumption
<1>1. mine \in SUBSET (Id(w, 0) .. Id(w, WriterStride - 1))
  BY DEF WriterRange
<1>2. CASE mine = {}
  BY <1>2 DEF NextSequence
<1>3. CASE mine # {}
  <2>1. Max(mine) \in mine /\ \A n \in mine : n <= Max(mine)
    <3>1. PICK lo \in Int, hi \in Int : lo = Id(w, 0) /\ hi = Id(w, WriterStride - 1)
      BY <1>0
    <3>2. mine \in SUBSET (lo .. hi)
      BY <1>1, <3>1
    <3> HIDE DEF mine
    <3> QED  BY <1>3, <3>2, Largest
  <2>2. NextSequence(w, ids) = Max(mine) - Id(w, 0)
    BY <1>3 DEF NextSequence
  <2>3. NextSequence(w, ids) \in Nat
    BY <1>0, <1>1, <2>1, <2>2
  <2>4. Id(w, NextSequence(w, ids)) = Max(mine)
    BY <1>0, <1>1, <2>1, <2>2, <2>3, IdNat
  <2> QED  BY <2>1, <2>3, <2>4
<1> QED  BY <1>2, <1>3
----------------------------------------------------------------------------
(* The initial state has its types.                                        *)
LEMMA InitTypes == Init => TypeOK
  BY IngestionAssumption DEF Init, TypeOK, PCs

(* Every step keeps the types.                                             *)
LEMMA NextTypes == TypeOK /\ [Next]_vars => TypeOK'
<1> SUFFICES ASSUME TypeOK, [Next]_vars PROVE TypeOK'
  OBVIOUS
<1> USE IngestionAssumption DEF TypeOK, PCs, dbVars, diskVars, txnVars, procVars, boundVars
<1>1. ASSUME NEW p \in Procs, Start(p) PROVE TypeOK'
  <2>1. WriterId[p] \in Nat
    OBVIOUS
  <2>2. NextSequence(WriterId[p], RunIds) \in Nat
    BY <2>1, Continues
  <2>3. (IF Kind[p] = "probe" THEN 0 ELSE NextSequence(WriterId[p], RunIds)) \in Nat
    BY <2>2
  <2> QED  BY <1>1, <2>3 DEF Start
<1>2. ASSUME NEW p \in Procs, BeginBody(p) \/ FinishBody(p) \/ BodyFails(p) PROVE TypeOK'
  BY <1>2 DEF BeginBody, FinishBody, BodyFails
<1>3. ASSUME NEW p \in Procs, BeginReparse(p) \/ BeginProbe(p) \/ Finish(p) PROVE TypeOK'
  BY <1>3 DEF BeginReparse, BeginProbe, Finish
<1>4. ASSUME NEW p \in Procs, Raise(p), stale' \subseteq Procs, refused' \subseteq Procs
      PROVE  TypeOK'
  BY <1>4 DEF Raise
<1>5. ASSUME NEW p \in Procs, Refuse(p) \/ WaitTimeout(p) \/ LostConnection(p) PROVE TypeOK'
  BY <1>4, <1>5 DEF Refuse, WaitTimeout, LostConnection
<1>6. ASSUME NEW p \in Procs, Execute(p) \/ DoNothing(p) PROVE TypeOK'
  BY <1>6 DEF Execute, DoNothing
<1>7. ASSUME NEW p \in Procs, AppendObservation(p) PROVE TypeOK'
  BY <1>7 DEF AppendObservation
<1>8. ASSUME NEW p \in Procs, BulkDuplicate(p) \/ SkipDuplicate(p) PROVE TypeOK'
  BY <1>8 DEF BulkDuplicate, SkipDuplicate
<1>9. ASSUME NEW p \in Procs, Commit(p) PROVE TypeOK'
  <2>1. pc' \in [Procs -> PCs]
    BY <1>9 DEF Commit
  <2>2. UNCHANGED <<engine, up, bodies, torn, seqStart, begun, todo, bulk, rowwise, stale,
                    refused, starts, batches, faults>>
    BY <1>9 DEF Commit
  <2>3. DOMAIN pending' = Procs
    BY <1>9 DEF Commit
  <2> QED  BY <2>1, <2>2, <2>3
<1>10. ASSUME NEW p \in Procs, KillClient(p) PROVE TypeOK'
  BY <1>10 DEF KillClient
<1>11. ASSUME KillServer PROVE TypeOK'
  <2>1. UNCHANGED <<engine, bodies, torn, pc, seqStart, begun, todo, bulk, rowwise,
                    refused, starts, batches>>
    BY <1>11 DEF KillServer
  <2>2. up' \in BOOLEAN /\ DOMAIN pending' = Procs /\ stale' \subseteq Procs
    BY <1>11 DEF KillServer
  <2>3. faults' \in 0 .. MaxFaults
    <3>1. faults < MaxFaults /\ faults' = faults + 1 /\ faults \in 0 .. MaxFaults
      BY <1>11 DEF KillServer
    <3> QED  BY <3>1 
  <2> QED  BY <2>1, <2>2, <2>3
<1>12. ASSUME StartServer PROVE TypeOK'
  BY <1>12 DEF StartServer
<1>13. ASSUME UNCHANGED vars PROVE TypeOK'
  BY <1>13 DEF vars
<1> QED
  BY <1>1, <1>2, <1>3, <1>5, <1>6, <1>7, <1>8, <1>9, <1>10, <1>11, <1>12,
     <1>13 DEF Next, Transact
----------------------------------------------------------------------------
(* The counters of a batch.                                                *)
LEMMA CountersNat ==
  ASSUME NEW seq \in Nat, NEW rows \in Nat
  PROVE  Counters(seq, rows) \subseteq Nat
<1>1. seq * RecordsPerRun \in Nat
  BY BatchesAssumption
<1> QED  BY <1>1 DEF Counters

(* A batch has a first counter.                                            *)
LEMMA FirstCounter ==
  ASSUME NEW seq \in Nat, NEW rows \in Nat \ {0}
  PROVE  seq * RecordsPerRun \in Counters(seq, rows)
<1>1. seq * RecordsPerRun \in Nat
  BY BatchesAssumption
<1>2. 0 \in 0 .. rows - 1
  OBVIOUS
<1> QED  BY <1>1, <1>2 DEF Counters

(* A batch of the insert loop has eight statements, none of them empty.    *)
LEMMA BatchIsSequence ==
  ASSUME NEW w \in Nat, NEW seq \in Nat, NEW rows \in Nat \ {0}
  PROVE  /\ Len(BatchStatements(w, seq, rows)) = 8
         /\ \A i \in 1 .. 8 : BatchStatements(w, seq, rows)[i] # {}
<1>1. seq * RecordsPerRun \in Counters(seq, rows)
  BY FirstCounter
<1>2. (seq * RecordsPerRun - seq * RecordsPerRun) % ReviewEvery = 0
  <2>1. seq * RecordsPerRun \in Nat
    BY BatchesAssumption
  <2>2. seq * RecordsPerRun - seq * RecordsPerRun = 0
    BY <2>1
  <2> QED  BY <2>2, BatchesAssumption
<1>3. Len(BatchStatements(w, seq, rows)) = 8
  BY DEF BatchStatements
<1>4. /\ BatchStatements(w, seq, rows)[1] # {}
      /\ BatchStatements(w, seq, rows)[2] # {}
      /\ BatchStatements(w, seq, rows)[3] # {}
  BY DEF BatchStatements
<1>5. BatchStatements(w, seq, rows)[4] # {}
  BY <1>1 DEF BatchStatements
<1>6. BatchStatements(w, seq, rows)[5] # {}
  BY <1>1 DEF BatchStatements
<1>7. BatchStatements(w, seq, rows)[6] # {}
  BY <1>1 DEF BatchStatements
<1>8. BatchStatements(w, seq, rows)[7] # {}
  BY <1>1 DEF BatchStatements
<1>9. BatchStatements(w, seq, rows)[8] # {}
  BY <1>1, <1>2 DEF BatchStatements
<1>10. \A i \in 1 .. 8 : BatchStatements(w, seq, rows)[i] # {}
  <2>1. \A i \in 1 .. 8 : i = 1 \/ i = 2 \/ i = 3 \/ i = 4 \/ i = 5 \/ i = 6 \/ i = 7 \/ i = 8
    OBVIOUS
  <2> QED  BY <1>4, <1>5, <1>6, <1>7, <1>8, <1>9, <2>1
<1> QED  BY <1>3, <1>10

(* They insert the rows of the batch.                                      *)
LEMMA BatchStatementsOk ==
  ASSUME NEW w \in Nat, NEW seq \in Nat, NEW rows \in Nat \ {0}
  PROVE  BatchStatements(w, seq, rows)
           \in Seq((SUBSET AllRows(BatchStatements(w, seq, rows))) \ {{}})
<1>1. BatchStatements(w, seq, rows) = [i \in 1 .. 8 |-> BatchStatements(w, seq, rows)[i]]
  BY DEF BatchStatements
<1>2. \A i \in 1 .. 8 :
        BatchStatements(w, seq, rows)[i]
          \in (SUBSET AllRows(BatchStatements(w, seq, rows))) \ {{}}
  BY BatchIsSequence DEF AllRows
<1> QED  BY <1>1, <1>2

(* What each of the eight statements of a batch inserts.                   *)
NewRow(i, r, w, seq, rows) ==
  \/ i = 1 /\ r = Row("ingest_run", Id(w, seq), {}, {})
  \/ i = 2 /\ r = Row("raw_artifact", Id(w, seq), {<<"ingest_run", Id(w, seq)>>}, {})
  \/ i = 3 /\ r = ProcessingRun(Id(w, seq), Id(w, seq), "v1", 1)
  \/ \E c \in Counters(seq, rows) :
       \/ i = 4 /\ r = Record(Id(w, c), Id(w, seq), Id(w, seq))
       \/ i = 5 /\ r = Candidate(Id(w, c), "v1")
       \/ i = 6 /\ \/ r = Attempt(Id(w, 2 * c), Id(w, c))
                   \/ r = Attempt(Id(w, 2 * c + 1), Id(w, c))
       \/ i = 7 /\ r = Observation(Id(w, c), Id(w, c), Id(w, seq),
                         IdempotencyKey(Id(w, seq), c - seq * RecordsPerRun))
       \/ i = 8 /\ r = Row("review_item", Id(w, c),
                         {<<"ingest_run", Id(w, seq)>>, <<"raw_artifact", Id(w, seq)>>,
                          <<"extracted_record", Id(w, c)>>}, {})

(* What each of the five statements of a reparse inserts.                  *)
ReparsedRow(i, r, k, w, seq) ==
  \/ i = 1 /\ r = ProcessingRun(Id(w, seq), k + 1, "v2", 2)
  \/ \E c \in Counters(seq, RecordsPerRun) :
       \/ i = 2 /\ r = Record(Id(w, c), Id(w, seq), k + 1)
       \/ i = 3 /\ r = Candidate(Id(w, c), "v2")
       \/ i = 4 /\ r = Attempt(Id(w, 2 * c), Id(w, c))
       \/ i = 5 /\ r = Observation(Id(w, c), Id(w, c), k + 1,
                         IdempotencyKey(k, c - seq * RecordsPerRun))

(* What each of the eight statements inserts.                              *)
LEMMA BatchForms ==
  ASSUME NEW w \in Nat, NEW seq \in Nat, NEW rows \in Nat \ {0},
         NEW i \in 1 .. 8, NEW r \in BatchStatements(w, seq, rows)[i]
  PROVE  NewRow(i, r, w, seq, rows)
<1>0. i = 1 \/ i = 2 \/ i = 3 \/ i = 4 \/ i = 5 \/ i = 6 \/ i = 7 \/ i = 8
  OBVIOUS
<1>1. CASE i = 1
  BY <1>1 DEF BatchStatements, NewRow
<1>2. CASE i = 2
  BY <1>2 DEF BatchStatements, NewRow
<1>3. CASE i = 3
  BY <1>3 DEF BatchStatements, NewRow
<1>4. CASE i = 4
  BY <1>4 DEF BatchStatements, NewRow
<1>5. CASE i = 5
  BY <1>5 DEF BatchStatements, NewRow
<1>6. CASE i = 6
  BY <1>6 DEF BatchStatements, NewRow
<1>7. CASE i = 7
  BY <1>7 DEF BatchStatements, NewRow
<1>8. CASE i = 8
  BY <1>8 DEF BatchStatements, NewRow
<1> QED  BY <1>0, <1>1, <1>2, <1>3, <1>4, <1>5, <1>6, <1>7, <1>8

(* A reparse has five statements, none of them empty.                      *)
LEMMA ReparseForms ==
  ASSUME NEW k \in Nat, NEW w \in Nat, NEW seq \in Nat
  PROVE  /\ Len(ReparseStatements(k, w, seq)) = 5
         /\ \A i \in 1 .. 5 : ReparseStatements(k, w, seq)[i] # {}
         /\ \A i \in 1 .. 5 : \A r \in ReparseStatements(k, w, seq)[i] :
              ReparsedRow(i, r, k, w, seq)
<1>1. seq * RecordsPerRun \in Counters(seq, RecordsPerRun)
  BY FirstCounter, BatchesAssumption
<1>2. Len(ReparseStatements(k, w, seq)) = 5
  BY DEF ReparseStatements
<1>3. ASSUME NEW i \in 1 .. 5
      PROVE  /\ ReparseStatements(k, w, seq)[i] # {}
             /\ \A r \in ReparseStatements(k, w, seq)[i] : ReparsedRow(i, r, k, w, seq)
  <2>0. i = 1 \/ i = 2 \/ i = 3 \/ i = 4 \/ i = 5
    OBVIOUS
  <2>1. CASE i = 1
    BY <2>1 DEF ReparseStatements, ReparsedRow
  <2>2. CASE i = 2
    BY <1>1, <2>2 DEF ReparseStatements, ReparsedRow
  <2>3. CASE i = 3
    BY <1>1, <2>3 DEF ReparseStatements, ReparsedRow
  <2>4. CASE i = 4
    BY <1>1, <2>4 DEF ReparseStatements, ReparsedRow
  <2>5. CASE i = 5
    BY <1>1, <2>5 DEF ReparseStatements, ReparsedRow
  <2> QED  BY <2>0, <2>1, <2>2, <2>3, <2>4, <2>5
<1> QED  BY <1>2, <1>3

(* They insert the rows of the reparse.                                    *)
LEMMA ReparseStatementsOk ==
  ASSUME NEW k \in Nat, NEW w \in Nat, NEW seq \in Nat
  PROVE  ReparseStatements(k, w, seq)
           \in Seq((SUBSET AllRows(ReparseStatements(k, w, seq))) \ {{}})
<1>1. ReparseStatements(k, w, seq) = [i \in 1 .. 5 |-> ReparseStatements(k, w, seq)[i]]
  BY DEF ReparseStatements
<1>2. \A i \in 1 .. 5 :
        ReparseStatements(k, w, seq)[i]
          \in (SUBSET AllRows(ReparseStatements(k, w, seq))) \ {{}}
  BY ReparseForms DEF AllRows
<1> QED  BY <1>1, <1>2

(* A probe has one statement.                                              *)
LEMMA ProbeForms ==
  ASSUME NEW id, NEW key
  PROVE  /\ Len(ProbeStatements(id, key)) = 1
         /\ ProbeStatements(id, key)[1] = {Observation(id, 1, 1, key)}
  BY DEF ProbeStatements

(* It inserts the row of the probe.                                        *)
LEMMA ProbeStatementsOk ==
  ASSUME NEW id, NEW key
  PROVE  ProbeStatements(id, key)
           \in Seq((SUBSET AllRows(ProbeStatements(id, key))) \ {{}})
<1>1. ProbeStatements(id, key) = [i \in 1 .. 1 |-> ProbeStatements(id, key)[i]]
  BY DEF ProbeStatements
<1>2. \A i \in 1 .. 1 :
        ProbeStatements(id, key)[i] \in (SUBSET AllRows(ProbeStatements(id, key))) \ {{}}
  BY ProbeForms DEF AllRows
<1> QED  BY <1>1, <1>2

(* Sequence numbers.                                                       *)
LEMMA SeqNat ==
  ASSUME TypeOK, NEW p \in Procs, NEW n \in Nat, n >= 1
  PROVE  SeqOf(p, n) \in Nat
<1>1. (n - 1) * BatchRows \in Nat
  BY IngestionAssumption
<1>2. seqStart[p] \in Nat
  BY DEF TypeOK
<1> QED  BY <1>1, <1>2 DEF SeqOf

(* A batch has rows.                                                       *)
LEMMA RowsPositive ==
  ASSUME NEW p \in Procs PROVE RowsOf(p) \in Nat \ {0}
  BY IngestionAssumption, BatchesAssumption DEF RowsOf

(* A row of any of the batches is well shaped.                             *)
LEMMA RowShaped ==
  ASSUME NEW id \in Nat, NEW r,
         \/ r = Row("ingest_run", id, {}, {})
         \/ r = Row("raw_artifact", id, {<<"ingest_run", id>>}, {})
         \/ \E a, v, n : r = ProcessingRun(id, a, v, n)
         \/ \E run, a : r = Record(id, run, a)
         \/ \E v : r = Candidate(id, v)
         \/ \E c : r = Attempt(id, c)
         \/ \E c, a, key : r = Observation(id, c, a, key)
         \/ \E n, a, c : r = Row("review_item", id,
                                 {<<"ingest_run", n>>, <<"raw_artifact", a>>,
                                  <<"extracted_record", c>>}, {})
  PROVE  Shaped(r)
<1>1. CASE r = Row("ingest_run", id, {}, {})
  BY <1>1 DEF Shaped, Row
<1>2. CASE r = Row("raw_artifact", id, {<<"ingest_run", id>>}, {})
  BY <1>2 DEF Shaped, Row
<1>3. CASE \E a, v, n : r = ProcessingRun(id, a, v, n)
  BY <1>3 DEF Shaped, Row, ProcessingRun
<1>4. CASE \E run, a : r = Record(id, run, a)
  BY <1>4 DEF Shaped, Row, Record
<1>5. CASE \E v : r = Candidate(id, v)
  BY <1>5 DEF Shaped, Row, Candidate
<1>6. CASE \E c : r = Attempt(id, c)
  BY <1>6 DEF Shaped, Row, Attempt
<1>7. CASE \E c, a, key : r = Observation(id, c, a, key)
  <2>1. PICK c, a, key : r = Observation(id, c, a, key)
    BY <1>7
  <2>2. /\ r.id = id /\ r.table = "price_observation"
        /\ r.refs = {<<"observation_candidate", c>>, <<"raw_artifact", a>>}
    BY <2>1 DEF Observation, Row
  <2>3. \A n \in r.refs : n[1] # "price_observation"
    BY <2>2
  <2>4. \E x, y, z : r = Observation(r.id, x, y, z)
    BY <2>1, <2>2
  <2> QED  BY <2>2, <2>3, <2>4 DEF Shaped
<1>8. CASE \E n, a, c : r = Row("review_item", id,
                                {<<"ingest_run", n>>, <<"raw_artifact", a>>,
                                 <<"extracted_record", c>>}, {})
  BY <1>8 DEF Shaped, Row
<1> QED  BY <1>1, <1>2, <1>3, <1>4, <1>5, <1>6, <1>7, <1>8

(* Ids of a writer's rows are numbers.                                     *)
LEMMA CounterIds ==
  ASSUME NEW w \in Nat, NEW seq \in Nat, NEW rows \in Nat, NEW c \in Counters(seq, rows)
  PROVE  Id(w, c) \in Nat /\ Id(w, 2 * c) \in Nat /\ Id(w, 2 * c + 1) \in Nat
<1>1. c \in Nat /\ 2 * c \in Nat /\ 2 * c + 1 \in Nat
  BY CountersNat
<1> QED  BY <1>1, IdNat

(* The rows of a batch have their shapes; its headers have the number of   *)
(* the batch.                                                              *)
LEMMA NewRowShaped ==
  ASSUME NEW w \in Nat, NEW seq \in Nat, NEW rows \in Nat, NEW i, NEW r,
         NewRow(i, r, w, seq, rows)
  PROVE  Shaped(r) /\ (r.table \in {"ingest_run", "raw_artifact"} => r.id = Id(w, seq))
<1>1. r.table \in {"ingest_run", "raw_artifact"} => r.id = Id(w, seq)
  BY DEF NewRow, Row, ProcessingRun, Record, Candidate, Attempt, Observation
<1>2. Id(w, seq) \in Nat
  BY IdNat
<1>3. CASE r = Row("ingest_run", Id(w, seq), {}, {})
  BY <1>1, <1>2, <1>3, RowShaped
<1>4. CASE r = Row("raw_artifact", Id(w, seq), {<<"ingest_run", Id(w, seq)>>}, {})
  BY <1>1, <1>2, <1>4, RowShaped
<1>5. CASE r = ProcessingRun(Id(w, seq), Id(w, seq), "v1", 1)
  BY <1>1, <1>2, <1>5, RowShaped
<1>6. ASSUME NEW c \in Counters(seq, rows) PROVE Id(w, c) \in Nat
  BY CounterIds
<1>7. CASE \E c \in Counters(seq, rows) : r = Record(Id(w, c), Id(w, seq), Id(w, seq))
  BY <1>1, <1>6, <1>7, RowShaped
<1>8. CASE \E c \in Counters(seq, rows) : r = Candidate(Id(w, c), "v1")
  BY <1>1, <1>6, <1>8, RowShaped
<1>9. CASE \E c \in Counters(seq, rows) :
             r = Attempt(Id(w, 2 * c), Id(w, c)) \/ r = Attempt(Id(w, 2 * c + 1), Id(w, c))
  <2>1. ASSUME NEW c \in Counters(seq, rows)
        PROVE  Id(w, 2 * c) \in Nat /\ Id(w, 2 * c + 1) \in Nat
    BY CounterIds
  <2> QED  BY <1>1, <1>9, <2>1, RowShaped
<1>10. CASE \E c \in Counters(seq, rows) :
              r = Observation(Id(w, c), Id(w, c), Id(w, seq),
                    IdempotencyKey(Id(w, seq), c - seq * RecordsPerRun))
  BY <1>1, <1>6, <1>10, RowShaped
<1>11. CASE \E c \in Counters(seq, rows) :
              r = Row("review_item", Id(w, c),
                    {<<"ingest_run", Id(w, seq)>>, <<"raw_artifact", Id(w, seq)>>,
                     <<"extracted_record", Id(w, c)>>}, {})
  BY <1>1, <1>6, <1>11, RowShaped
<1> QED  BY <1>3, <1>4, <1>5, <1>7, <1>8, <1>9, <1>10, <1>11 DEF NewRow

(* The rows of a reparse have theirs; it has no headers.                   *)
LEMMA ReparsedRowShaped ==
  ASSUME NEW w \in Nat, NEW seq \in Nat, NEW k \in Nat, NEW i, NEW r,
         ReparsedRow(i, r, k, w, seq)
  PROVE  Shaped(r) /\ r.table \notin {"ingest_run", "raw_artifact"}
<1>1. r.table \notin {"ingest_run", "raw_artifact"}
  BY DEF ReparsedRow, Row, ProcessingRun, Record, Candidate, Attempt, Observation
<1>2. Id(w, seq) \in Nat
  BY IdNat
<1>3. CASE r = ProcessingRun(Id(w, seq), k + 1, "v2", 2)
  BY <1>1, <1>2, <1>3, RowShaped
<1>4. ASSUME NEW c \in Counters(seq, RecordsPerRun)
      PROVE  Id(w, c) \in Nat /\ Id(w, 2 * c) \in Nat
  BY CounterIds, BatchesAssumption
<1>5. CASE \E c \in Counters(seq, RecordsPerRun) :
             \/ r = Record(Id(w, c), Id(w, seq), k + 1)
             \/ r = Candidate(Id(w, c), "v2")
  BY <1>1, <1>4, <1>5, RowShaped
<1>6. CASE \E c \in Counters(seq, RecordsPerRun) :
             \/ r = Attempt(Id(w, 2 * c), Id(w, c))
             \/ r = Observation(Id(w, c), Id(w, c), k + 1,
                      IdempotencyKey(k, c - seq * RecordsPerRun))
  BY <1>1, <1>4, <1>6, RowShaped
<1> QED  BY <1>3, <1>5, <1>6 DEF ReparsedRow

(* What the rows of a batch look like.                                     *)
OwnShape(p, r) ==
  /\ Shaped(r)
  /\ r.table \in {"ingest_run", "raw_artifact"} =>
       StoresBodies(p) /\ r.id = Id(WriterId[p], SeqOf(p, begun[p]))

(* The rows of an open transaction have their shapes.                      *)
LEMMA OwnShapes ==
  ASSUME TypeOK, Phases, NEW p \in Procs, pc[p] = "txn", NEW r \in OwnRows(p)
  PROVE  OwnShape(p, r)
<1> DEFINE w == WriterId[p]
           seq == SeqOf(p, begun[p])
<1>w. w \in Nat
  BY IngestionAssumption
<1>1. CASE StoresBodies(p)
  <2>s. seq \in Nat
    BY <1>1, SeqNat DEF Phases, StoresBodies, TypeOK
  <2>1. Batch(p) = BatchStatements(w, seq, RowsOf(p))
    BY <1>1 DEF Batch
  <2>2. Len(Batch(p)) = 8
    BY <1>w, <2>s, <2>1, BatchIsSequence, RowsPositive
  <2>3. PICK i \in 1 .. 8 : r \in Batch(p)[i]
    BY <2>2 DEF OwnRows, AllRows
  <2>4. NewRow(i, r, w, seq, RowsOf(p))
    BY <1>w, <2>s, <2>1, <2>3, RowsPositive, BatchForms
  <2> QED  BY <1>w, <1>1, <2>s, <2>4, RowsPositive, NewRowShaped DEF OwnShape
<1>2. CASE ~StoresBodies(p) /\ Kind[p] = "reparse"
  <2>s. seq \in Nat /\ begun[p] - 1 \in Nat
    BY <1>2, SeqNat DEF Phases, TypeOK
  <2>1. Batch(p) = ReparseStatements(begun[p] - 1, w, seq)
    BY <1>2 DEF Batch
  <2>2. Len(Batch(p)) = 5
    BY <1>w, <2>s, <2>1, ReparseForms
  <2>3. PICK i \in 1 .. 5 : r \in Batch(p)[i]
    BY <2>2 DEF OwnRows, AllRows
  <2>4. ReparsedRow(i, r, begun[p] - 1, w, seq)
    BY <1>w, <2>s, <2>1, <2>3, ReparseForms
  <2> QED  BY <1>w, <2>s, <2>4, ReparsedRowShaped DEF OwnShape
<1>3. CASE ~StoresBodies(p) /\ Kind[p] # "reparse"
  <2>1. Batch(p) = ProbeStatements(Id(w, 1), ProbeKey)
    BY <1>3 DEF Batch
  <2>2. r = Observation(Id(w, 1), 1, 1, ProbeKey)
    BY <2>1, ProbeForms DEF OwnRows, AllRows
  <2>3. Id(w, 1) \in Nat
    BY <1>w, IdNat
  <2>4. r.table = "price_observation"
    BY <2>2 DEF Observation, Row
  <2> QED  BY <2>2, <2>3, <2>4, RowShaped DEF OwnShape
<1> QED  BY <1>1, <1>2, <1>3

----------------------------------------------------------------------------
(* The ORM appends the observation with the least id.                      *)
LEMMA NextRowIsFirst ==
  ASSUME TypeOK, Phases, OwnBatch, NEW p \in Procs, pc[p] = "txn", todo[p] # <<>>
  PROVE  NextRow(p) \in Head(todo[p]) /\ \A s \in Head(todo[p]) : NextRow(p).id <= s.id
<1>1. Head(todo[p]) \in (SUBSET OwnRows(p)) \ {{}}
  <2> DEFINE S == (SUBSET OwnRows(p)) \ {{}}
  <2>1. todo[p] \in Seq(S)
    BY DEF OwnBatch
  <2> HIDE DEF S
  <2>2. Head(todo[p]) \in S
    BY <2>1
  <2> QED  BY <2>2 DEF S
<1>2. \A r \in Head(todo[p]) : r.id \in Nat
  BY <1>1, OwnShapes DEF OwnShape, Shaped
<1>3. {r.id : r \in Head(todo[p])} \in SUBSET Nat /\ {r.id : r \in Head(todo[p])} # {}
  BY <1>1, <1>2
<1>4. PICK m \in {r.id : r \in Head(todo[p])} : \A n \in {r.id : r \in Head(todo[p])} : m <= n
  BY <1>3, Least
<1>5. \E r \in Head(todo[p]) : \A s \in Head(todo[p]) : r.id <= s.id
  BY <1>4
<1> QED  BY <1>5 DEF NextRow

(* What is left of a transaction when its next statement is cut.           *)
LEMMA RestOfBatch ==
  ASSUME OwnBatch, NEW p \in Procs, pc[p] = "txn", todo[p] # <<>>,
         NEW rows, rows \subseteq OwnRows(p)
  PROVE  /\ Rest(p, rows) \in Seq((SUBSET OwnRows(p)) \ {{}})
         /\ rows # {} => Rest(p, rows) # <<>> /\ Head(Rest(p, rows)) = rows
<1> DEFINE S == (SUBSET OwnRows(p)) \ {{}}
<1>1. todo[p] \in Seq(S)
  BY DEF OwnBatch
<1>2. Tail(todo[p]) \in Seq(S)
  <2> HIDE DEF S
  <2> QED  BY <1>1
<1>3. CASE rows = {}
  BY <1>2, <1>3 DEF Rest
<1>4. CASE rows # {}
  <2>1. rows \in S
    BY <1>4
  <2>2. Rest(p, rows) = <<rows>> \o Tail(todo[p])
    BY <1>4 DEF Rest
  <2> HIDE DEF S
  <2>3. /\ <<rows>> \o Tail(todo[p]) \in Seq(S)
        /\ <<rows>> \o Tail(todo[p]) # <<>>
        /\ Head(<<rows>> \o Tail(todo[p])) = rows
    BY <1>2, <2>1
  <2> QED  BY <2>2, <2>3 DEF S
<1> QED  BY <1>3, <1>4

(* Nothing has begun at first.                                             *)
LEMMA InitPhases == Init => Phases /\ OwnBatch /\ BulkObserves
  BY DEF Init, Phases, OwnBatch, BulkObserves

(* Every step keeps the phases.                                            *)
LEMMA NextPhases == TypeOK /\ Phases /\ [Next]_vars => Phases'
<1> SUFFICES ASSUME TypeOK, Phases, [Next]_vars PROVE Phases'
  OBVIOUS
<1> USE DEF TypeOK, Phases, dbVars, diskVars, txnVars, procVars, boundVars
<1>1. ASSUME NEW p \in Procs, Start(p) PROVE Phases'
  <2>1. /\ pc' = [pc EXCEPT ![p] = "loop"]
        /\ begun' = [begun EXCEPT ![p] = 0]
    BY <1>1 DEF Start
  <2> QED  BY <2>1
<1>2. ASSUME NEW p \in Procs, BodyFails(p) \/ Finish(p) PROVE Phases'
  <2>1. /\ pc' = [pc EXCEPT ![p] = "failed"] \/ pc' = [pc EXCEPT ![p] = "done"]
        /\ begun' = begun
    BY <1>2 DEF BodyFails, Finish
  <2> QED  BY <2>1
<1>3. ASSUME NEW p \in Procs, BeginBody(p) PROVE Phases'
  BY <1>3 DEF BeginBody
<1>4. ASSUME NEW p \in Procs, FinishBody(p) PROVE Phases'
  BY <1>4 DEF FinishBody
<1>5. ASSUME NEW p \in Procs, BeginReparse(p) PROVE Phases'
  BY <1>5 DEF BeginReparse
<1>6. ASSUME NEW p \in Procs, BeginProbe(p) PROVE Phases'
  BY <1>6 DEF BeginProbe
<1>7. ASSUME NEW p \in Procs, Raise(p) PROVE Phases'
  BY <1>7 DEF Raise
<1>8. ASSUME NEW p \in Procs,
             Execute(p) \/ DoNothing(p) \/ AppendObservation(p) \/ BulkDuplicate(p)
             \/ SkipDuplicate(p)
      PROVE  Phases'
  <2>1. UNCHANGED <<pc, begun>>
    BY <1>8 DEF Execute, DoNothing, AppendObservation, BulkDuplicate, SkipDuplicate
  <2> QED  BY <2>1
<1>9. ASSUME NEW p \in Procs, Commit(p) PROVE Phases'
  BY <1>9 DEF Commit
<1>10. ASSUME NEW p \in Procs, KillClient(p) PROVE Phases'
  BY <1>10 DEF KillClient
<1>11. ASSUME KillServer \/ StartServer \/ UNCHANGED vars PROVE Phases'
  <2>1. UNCHANGED <<pc, begun>>
    BY <1>11 DEF KillServer, StartServer, vars
  <2> QED  BY <2>1
<1>12. ASSUME NEW p \in Procs, Refuse(p) \/ WaitTimeout(p) \/ LostConnection(p) PROVE Phases'
  BY <1>7, <1>12 DEF Refuse, WaitTimeout, LostConnection
<1> QED
  BY <1>1, <1>2, <1>3, <1>4, <1>5, <1>6, <1>8, <1>9, <1>10, <1>11, <1>12 DEF Next, Transact

(* A process whose transaction moves on, begins or ends.                   *)
OwnPart(p) ==
  IF pc[p] = "txn"
  THEN /\ todo[p] \in Seq((SUBSET OwnRows(p)) \ {{}})
       /\ pending[p] \cup bulk[p] \subseteq OwnRows(p)
  ELSE todo[p] = <<>> /\ pending[p] = {} /\ bulk[p] = {}

(* The step of one process leaves the transactions of the others alone.    *)
LEMMA OwnBatchStep ==
  ASSUME TypeOK, OwnBatch, NEW p \in Procs, OwnPart(p)',
         pending' = [pending EXCEPT ![p] = pending'[p]],
         todo' = [todo EXCEPT ![p] = todo'[p]],
         bulk' = [bulk EXCEPT ![p] = bulk'[p]],
         \A q \in Procs \ {p} : /\ pc'[q] = pc[q]
                                /\ begun'[q] = begun[q]
                                /\ seqStart'[q] = seqStart[q]
  PROVE  OwnBatch'
<1>1. /\ pending' = [q \in Procs |-> pending'[q]]
      /\ todo' = [q \in Procs |-> todo'[q]]
      /\ bulk' = [q \in Procs |-> bulk'[q]]
  BY DEF OwnBatch
<1>2. ASSUME NEW q \in Procs \ {p} PROVE OwnPart(q)'
  <2>1. OwnRows(q)' = OwnRows(q)
    BY <1>2 DEF OwnRows, Batch, SeqOf
  <2>2. pending'[q] = pending[q] /\ todo'[q] = todo[q] /\ bulk'[q] = bulk[q] /\ pc'[q] = pc[q]
    BY <1>2 DEF OwnBatch
  <2>3. OwnPart(q)
    BY <1>2 DEF OwnBatch, OwnPart
  <2> QED  BY <2>1, <2>2, <2>3 DEF OwnPart
<1> QED  BY <1>1, <1>2 DEF OwnBatch, OwnPart

(* The rows of its batch do not change under a process.                    *)
LEMMA SameRows ==
  ASSUME NEW p \in Procs, begun'[p] = begun[p], seqStart'[p] = seqStart[p]
  PROVE  OwnRows(p)' = OwnRows(p)
  BY DEF OwnRows, Batch, SeqOf

(* Every step keeps transactions to their own batches.                     *)
LEMMA NextOwnBatch ==
  TypeOK /\ Phases /\ OwnBatch /\ BulkObserves /\ [Next]_vars => OwnBatch'
<1> SUFFICES ASSUME TypeOK, Phases, OwnBatch, BulkObserves, [Next]_vars PROVE OwnBatch'
  OBVIOUS
<1>0. /\ \A p \in Procs : OwnPart(p)
      /\ pending = [q \in Procs |-> pending[q]]
      /\ todo = [q \in Procs |-> todo[q]]
      /\ bulk = [q \in Procs |-> bulk[q]]
      /\ pc = [q \in Procs |-> pc[q]]
      /\ begun = [q \in Procs |-> begun[q]]
      /\ seqStart = [q \in Procs |-> seqStart[q]]
  BY DEF OwnBatch, OwnPart, TypeOK
<1> USE DEF dbVars, diskVars, txnVars, procVars, boundVars
(* Steps outside a transaction.                                            *)
<1>1. ASSUME NEW p \in Procs,
             UNCHANGED <<pending, todo, bulk>>,
             pc[p] # "txn", pc'[p] # "txn",
             \A q \in Procs \ {p} : /\ pc'[q] = pc[q]
                                    /\ begun'[q] = begun[q]
                                    /\ seqStart'[q] = seqStart[q]
      PROVE  OwnBatch'
  <2>1. OwnPart(p)'
    BY <1>0, <1>1 DEF OwnPart
  <2>2. /\ pending' = [pending EXCEPT ![p] = pending'[p]]
        /\ todo' = [todo EXCEPT ![p] = todo'[p]]
        /\ bulk' = [bulk EXCEPT ![p] = bulk'[p]]
    BY <1>0, <1>1
  <2> QED  BY <1>1, <2>1, <2>2, OwnBatchStep
<1>2. ASSUME NEW p \in Procs, Start(p) PROVE OwnBatch'
  <2>1. /\ UNCHANGED <<pending, todo, bulk>>
        /\ pc' = [pc EXCEPT ![p] = "loop"]
        /\ begun' = [begun EXCEPT ![p] = begun'[p]]
        /\ seqStart' = [seqStart EXCEPT ![p] = seqStart'[p]]
        /\ pc[p] # "txn"
    BY <1>0, <1>2 DEF Start
  <2> QED  BY <1>0, <1>1, <2>1
<1>3. ASSUME NEW p \in Procs, BeginBody(p) \/ BodyFails(p) \/ Finish(p) PROVE OwnBatch'
  <2>1. /\ UNCHANGED <<pending, todo, bulk, seqStart>>
        /\ \/ pc' = [pc EXCEPT ![p] = "body"]
           \/ pc' = [pc EXCEPT ![p] = "failed"]
           \/ pc' = [pc EXCEPT ![p] = "done"]
        /\ begun' = begun \/ begun' = [begun EXCEPT ![p] = @ + 1]
        /\ pc[p] # "txn"
    BY <1>3 DEF BeginBody, BodyFails, Finish
  <2> QED  BY <1>0, <1>1, <2>1
(* A transaction begins.                                                   *)
<1>4. ASSUME NEW p \in Procs,
             UNCHANGED <<pending, bulk, seqStart>>,
             pc[p] # "txn", pc' = [pc EXCEPT ![p] = "txn"],
             begun' = begun \/ begun' = [begun EXCEPT ![p] = @ + 1],
             todo' = [todo EXCEPT ![p] = Batch(p)'],
             Batch(p)' \in Seq((SUBSET OwnRows(p)') \ {{}})
      PROVE  OwnBatch'
  <2>1. pending'[p] = {} /\ bulk'[p] = {} /\ todo'[p] = Batch(p)' /\ pc'[p] = "txn"
    BY <1>0, <1>4 DEF OwnPart
  <2>2. OwnPart(p)'
    BY <1>4, <2>1 DEF OwnPart
  <2>3. /\ pending' = [pending EXCEPT ![p] = pending'[p]]
        /\ todo' = [todo EXCEPT ![p] = todo'[p]]
        /\ bulk' = [bulk EXCEPT ![p] = bulk'[p]]
    BY <1>0, <1>4, <2>1
  <2>4. \A q \in Procs \ {p} : /\ pc'[q] = pc[q]
                               /\ begun'[q] = begun[q]
                               /\ seqStart'[q] = seqStart[q]
    BY <1>0, <1>4
  <2> QED  BY <2>2, <2>3, <2>4, OwnBatchStep
<1>5. ASSUME NEW p \in Procs, FinishBody(p) PROVE OwnBatch'
  <2>1. StoresBodies(p) /\ begun[p] >= 1 /\ pc[p] = "body"
    BY <1>5 DEF FinishBody, Phases, StoresBodies
  <2>2. /\ UNCHANGED <<pending, bulk, seqStart, begun>>
        /\ pc' = [pc EXCEPT ![p] = "txn"]
        /\ todo' = [todo EXCEPT ![p] =
                      BatchStatements(WriterId[p], SeqOf(p, begun[p]), RowsOf(p))]
    BY <1>5 DEF FinishBody
  <2>3. Batch(p)' = BatchStatements(WriterId[p], SeqOf(p, begun[p]), RowsOf(p))
    BY <2>1, <2>2 DEF Batch, SeqOf, StoresBodies, RowsOf
  <2>4. SeqOf(p, begun[p]) \in Nat /\ WriterId[p] \in Nat
    BY <2>1, SeqNat, IngestionAssumption DEF TypeOK
  <2>5. Batch(p)' \in Seq((SUBSET OwnRows(p)') \ {{}})
    BY <2>3, <2>4, RowsPositive, BatchStatementsOk DEF OwnRows
  <2> QED  BY <1>4, <2>1, <2>2, <2>3, <2>5
<1>6. ASSUME NEW p \in Procs, BeginReparse(p) PROVE OwnBatch'
  <2>1. /\ UNCHANGED <<pending, bulk, seqStart>>
        /\ pc[p] = "loop" /\ Kind[p] = "reparse"
        /\ pc' = [pc EXCEPT ![p] = "txn"]
        /\ begun' = [begun EXCEPT ![p] = @ + 1]
        /\ todo' = [todo EXCEPT ![p] =
                      ReparseStatements(begun[p], WriterId[p], SeqOf(p, begun[p] + 1))]
    BY <1>6 DEF BeginReparse
  <2>2. begun[p] \in Nat /\ begun'[p] = begun[p] + 1 /\ begun'[p] - 1 = begun[p]
    BY <2>1 DEF TypeOK
  <2>3. Batch(p)' = ReparseStatements(begun[p], WriterId[p], SeqOf(p, begun[p] + 1))
    <3>1. Batch(p)' = ReparseStatements(begun'[p] - 1, WriterId[p], SeqOf(p, begun[p])')
      BY <2>1 DEF Batch, StoresBodies
    <3>2. SeqOf(p, begun[p])' = SeqOf(p, begun[p] + 1)
      BY <2>1, <2>2 DEF SeqOf
    <3> QED  BY <2>2, <3>1, <3>2
  <2>4. SeqOf(p, begun[p] + 1) \in Nat /\ WriterId[p] \in Nat
    BY <2>2, SeqNat, IngestionAssumption
  <2>5. Batch(p)' \in Seq((SUBSET OwnRows(p)') \ {{}})
    BY <2>2, <2>3, <2>4, ReparseStatementsOk DEF OwnRows
  <2> QED  BY <1>4, <2>1, <2>3, <2>5
<1>7. ASSUME NEW p \in Procs, BeginProbe(p) PROVE OwnBatch'
  <2>1. /\ UNCHANGED <<pending, bulk, seqStart, begun>>
        /\ pc[p] = "loop" /\ Kind[p] = "probe"
        /\ pc' = [pc EXCEPT ![p] = "txn"]
        /\ todo' = [todo EXCEPT ![p] = ProbeStatements(Id(WriterId[p], 1), ProbeKey)]
    BY <1>7 DEF BeginProbe
  <2>2. Batch(p)' = ProbeStatements(Id(WriterId[p], 1), ProbeKey)
    BY <2>1 DEF Batch, StoresBodies
  <2>3. Batch(p)' \in Seq((SUBSET OwnRows(p)') \ {{}})
    BY <2>2, ProbeStatementsOk DEF OwnRows
  <2> QED  BY <1>4, <2>1, <2>2, <2>3
(* A transaction moves on.                                                 *)
<1>8. ASSUME NEW p \in Procs,
             UNCHANGED <<pc, begun, seqStart>>, pc[p] = "txn",
             pending' = [pending EXCEPT ![p] = pending'[p]],
             todo' = [todo EXCEPT ![p] = todo'[p]],
             bulk' = [bulk EXCEPT ![p] = bulk'[p]],
             todo'[p] \in Seq((SUBSET OwnRows(p)) \ {{}}),
             pending'[p] \cup bulk'[p] \subseteq OwnRows(p)
      PROVE  OwnBatch'
  <2>1. OwnRows(p)' = OwnRows(p)
    BY <1>8, SameRows
  <2>2. OwnPart(p)'
    BY <1>8, <2>1 DEF OwnPart
  <2> QED  BY <1>8, <2>2, OwnBatchStep
<1>9. ASSUME NEW p \in Procs, Execute(p) PROVE OwnBatch'
  <2>1. /\ UNCHANGED <<pc, begun, seqStart, bulk>> /\ pc[p] = "txn" /\ todo[p] # <<>>
        /\ pending' = [pending EXCEPT ![p] = @ \cup Head(todo[p])]
        /\ todo' = [todo EXCEPT ![p] = Tail(@)]
    BY <1>9 DEF Execute, Connected, AtPlain
  <2>2. /\ todo[p] \in Seq((SUBSET OwnRows(p)) \ {{}})
        /\ pending[p] \cup bulk[p] \subseteq OwnRows(p)
    BY <1>0, <2>1 DEF OwnPart
  <2>3. Head(todo[p]) \subseteq OwnRows(p) /\ Tail(todo[p]) \in Seq((SUBSET OwnRows(p)) \ {{}})
    BY <2>1, <2>2
  <2>4. /\ pending'[p] = pending[p] \cup Head(todo[p])
        /\ todo'[p] = Tail(todo[p])
        /\ bulk'[p] = bulk[p]
        /\ pending' = [pending EXCEPT ![p] = pending'[p]]
        /\ todo' = [todo EXCEPT ![p] = todo'[p]]
        /\ bulk' = [bulk EXCEPT ![p] = bulk'[p]]
    BY <1>0, <2>1
  <2> QED  BY <1>8, <2>1, <2>2, <2>3, <2>4
<1>10. ASSUME NEW p \in Procs, AppendObservation(p) \/ DoNothing(p) \/ SkipDuplicate(p)
       PROVE  OwnBatch'
  <2> DEFINE r == NextRow(p)
             left == Head(todo[p]) \ {r}
  <2>1. UNCHANGED <<pc, begun, seqStart>> /\ pc[p] = "txn" /\ todo[p] # <<>>
    BY <1>10 DEF AppendObservation, DoNothing, SkipDuplicate, Connected, AtObservations
  <2>2. /\ pending' = [pending EXCEPT ![p] = @ \cup {r}] \/ pending' = pending
        /\ todo' = [todo EXCEPT ![p] = Rest(p, left)]
        /\ \/ bulk' = bulk
           \/ bulk' = [bulk EXCEPT ![p] = bulk'[p]] /\ bulk'[p] \subseteq bulk[p] \cup {r}
    BY <1>0, <1>10 DEF AppendObservation, DoNothing, SkipDuplicate
  <2>3. /\ todo[p] \in Seq((SUBSET OwnRows(p)) \ {{}})
        /\ pending[p] \cup bulk[p] \subseteq OwnRows(p)
    BY <1>0, <2>1 DEF OwnPart
  <2>4. r \in OwnRows(p) /\ left \subseteq OwnRows(p)
    BY <2>1, <2>3, NextRowIsFirst
  <2>5. Rest(p, left) \in Seq((SUBSET OwnRows(p)) \ {{}})
    BY <2>1, <2>4, RestOfBatch
  <2> HIDE DEF r, left
  <2>6. /\ pending'[p] \subseteq pending[p] \cup {r}
        /\ todo'[p] = Rest(p, left)
        /\ bulk'[p] \subseteq bulk[p] \cup {r}
        /\ pending' = [pending EXCEPT ![p] = pending'[p]]
        /\ todo' = [todo EXCEPT ![p] = todo'[p]]
        /\ bulk' = [bulk EXCEPT ![p] = bulk'[p]]
    BY <1>0, <2>2
  <2> QED  BY <1>8, <2>1, <2>3, <2>4, <2>5, <2>6
<1>11. ASSUME NEW p \in Procs, BulkDuplicate(p) PROVE OwnBatch'
  <2>1. /\ UNCHANGED <<pc, begun, seqStart>> /\ pc[p] = "txn" /\ todo[p] # <<>>
        /\ pending' = [pending EXCEPT ![p] = @ \ bulk[p]]
        /\ todo' = [todo EXCEPT ![p] = Rest(p, Head(@) \cup bulk[p])]
        /\ bulk' = [bulk EXCEPT ![p] = {}]
    BY <1>11 DEF BulkDuplicate, Connected, AtObservations
  <2>2. /\ todo[p] \in Seq((SUBSET OwnRows(p)) \ {{}})
        /\ pending[p] \cup bulk[p] \subseteq OwnRows(p)
    BY <1>0, <2>1 DEF OwnPart
  <2>3. Head(todo[p]) \cup bulk[p] \subseteq OwnRows(p)
    BY <2>1, <2>2
  <2>4. Rest(p, Head(todo[p]) \cup bulk[p]) \in Seq((SUBSET OwnRows(p)) \ {{}})
    BY <2>1, <2>3, RestOfBatch
  <2>5. /\ pending'[p] \subseteq pending[p]
        /\ todo'[p] = Rest(p, Head(todo[p]) \cup bulk[p])
        /\ bulk'[p] = {}
        /\ pending' = [pending EXCEPT ![p] = pending'[p]]
        /\ todo' = [todo EXCEPT ![p] = todo'[p]]
        /\ bulk' = [bulk EXCEPT ![p] = bulk'[p]]
    BY <1>0, <2>1
  <2> QED  BY <1>8, <2>1, <2>2, <2>4, <2>5
(* A transaction ends.                                                     *)
<1>12. ASSUME NEW p \in Procs,
              UNCHANGED <<begun, seqStart>>,
              pc' = [pc EXCEPT ![p] = pc'[p]], pc'[p] # "txn",
              pending' = [pending EXCEPT ![p] = {}],
              todo' = [todo EXCEPT ![p] = <<>>],
              bulk' = [bulk EXCEPT ![p] = {}]
       PROVE  OwnBatch'
  <2>1. pending'[p] = {} /\ todo'[p] = <<>> /\ bulk'[p] = {}
    BY <1>0, <1>12
  <2>2. OwnPart(p)'
    BY <1>12, <2>1 DEF OwnPart
  <2>3. /\ pending' = [pending EXCEPT ![p] = pending'[p]]
        /\ todo' = [todo EXCEPT ![p] = todo'[p]]
        /\ bulk' = [bulk EXCEPT ![p] = bulk'[p]]
    BY <1>12, <2>1
  <2>4. \A q \in Procs \ {p} : /\ pc'[q] = pc[q]
                               /\ begun'[q] = begun[q]
                               /\ seqStart'[q] = seqStart[q]
    BY <1>0, <1>12
  <2> QED  BY <2>2, <2>3, <2>4, OwnBatchStep
<1>13. ASSUME NEW p \in Procs,
              Refuse(p) \/ WaitTimeout(p) \/ LostConnection(p) \/ KillClient(p)
       PROVE  OwnBatch'
  <2>1. /\ UNCHANGED <<begun, seqStart>>
        /\ \/ pc' = [pc EXCEPT ![p] = "failed"]
           \/ pc' = [pc EXCEPT ![p] = "loop"]
        /\ pending' = [pending EXCEPT ![p] = {}]
        /\ todo' = [todo EXCEPT ![p] = <<>>]
        /\ bulk' = [bulk EXCEPT ![p] = {}]
    BY <1>13 DEF Refuse, WaitTimeout, LostConnection, KillClient, Raise
  <2> QED  BY <1>0, <1>12, <2>1
<1>14. ASSUME NEW p \in Procs, Commit(p) PROVE OwnBatch'
  <2>1. /\ UNCHANGED <<begun, seqStart, todo, bulk>>
        /\ pc' = [pc EXCEPT ![p] = "done"] \/ pc' = [pc EXCEPT ![p] = "loop"]
        /\ pending' = [pending EXCEPT ![p] = {}]
        /\ todo[p] = <<>>
    BY <1>14 DEF Commit
  <2>2. bulk[p] = {}
    BY <2>1 DEF BulkObserves
  <2>3. todo' = [todo EXCEPT ![p] = <<>>] /\ bulk' = [bulk EXCEPT ![p] = {}]
    BY <1>0, <2>1, <2>2
  <2> QED  BY <1>0, <1>12, <2>1, <2>3
<1>15. ASSUME KillServer PROVE OwnBatch'
  <2>1. UNCHANGED <<pc, begun, seqStart, todo, bulk>> /\ pending' = [q \in Procs |-> {}]
    BY <1>15 DEF KillServer
  <2>2. ASSUME NEW q \in Procs PROVE OwnPart(q)'
    <3>1. OwnRows(q)' = OwnRows(q)
      BY <2>1, SameRows
    <3> QED  BY <1>0, <2>1, <3>1 DEF OwnPart
  <2> QED  BY <1>0, <2>1, <2>2 DEF OwnBatch, OwnPart
<1>16. ASSUME StartServer \/ UNCHANGED vars PROVE OwnBatch'
  <2>1. UNCHANGED <<pc, begun, seqStart, todo, bulk, pending>>
    BY <1>16 DEF StartServer, vars
  <2>2. ASSUME NEW q \in Procs PROVE OwnPart(q)'
    <3>1. OwnRows(q)' = OwnRows(q)
      BY <2>1, SameRows
    <3> QED  BY <1>0, <2>1, <3>1 DEF OwnPart
  <2> QED  BY <1>0, <2>1, <2>2 DEF OwnBatch, OwnPart
<1> QED
  BY <1>2, <1>3, <1>5, <1>6, <1>7, <1>9, <1>10, <1>11, <1>13, <1>14, <1>15, <1>16
     DEF Next, Transact
----------------------------------------------------------------------------
(* BulkObserves, for one process.                                          *)
BulkPart(p) ==
  /\ bulk[p] # {} => AtObservations(p) /\ todo[p] # <<>> /\ ~rowwise[p]
  /\ \A r \in bulk[p] : r.table = "price_observation"

(* The step of one process leaves the others' statements alone.            *)
LEMMA BulkStep ==
  ASSUME BulkObserves, NEW p \in Procs, BulkPart(p)',
         \A q \in Procs \ {p} : /\ todo'[q] = todo[q]
                                /\ bulk'[q] = bulk[q]
                                /\ rowwise'[q] = rowwise[q]
  PROVE  BulkObserves'
<1>1. ASSUME NEW q \in Procs \ {p} PROVE BulkPart(q)'
  <2>1. BulkPart(q)
    BY <1>1 DEF BulkObserves, BulkPart
  <2>2. AtObservations(q)' <=> AtObservations(q)
    BY <1>1 DEF AtObservations
  <2> QED  BY <1>1, <2>1, <2>2 DEF BulkPart
<1> QED  BY <1>1 DEF BulkObserves, BulkPart

(* Every step keeps what the ORM holds back.                               *)
LEMMA NextBulkObserves ==
  TypeOK /\ Phases /\ OwnBatch /\ BulkObserves /\ [Next]_vars => BulkObserves'
<1> SUFFICES ASSUME TypeOK, Phases, OwnBatch, BulkObserves, [Next]_vars PROVE BulkObserves'
  OBVIOUS
<1>0. /\ todo = [q \in Procs |-> todo[q]]
      /\ bulk = [q \in Procs |-> bulk[q]]
      /\ rowwise = [q \in Procs |-> rowwise[q]]
  BY DEF OwnBatch, TypeOK
<1> USE DEF dbVars, diskVars, txnVars, procVars, boundVars
<1>1. ASSUME UNCHANGED <<todo, bulk, rowwise>> PROVE BulkObserves'
  BY <1>1 DEF BulkObserves, AtObservations
<1>2. ASSUME NEW p \in Procs,
             Start(p) \/ BeginBody(p) \/ BodyFails(p) \/ Finish(p) \/ Commit(p)
      PROVE  BulkObserves'
  <2>1. UNCHANGED <<todo, bulk, rowwise>>
    BY <1>2 DEF Start, BeginBody, BodyFails, Finish, Commit
  <2> QED  BY <1>1, <2>1
<1>3. ASSUME NEW p \in Procs, bulk'[p] = {},
             todo' = [todo EXCEPT ![p] = todo'[p]],
             bulk' = [bulk EXCEPT ![p] = bulk'[p]],
             rowwise' = [rowwise EXCEPT ![p] = rowwise'[p]]
      PROVE  BulkObserves'
  <2>1. BulkPart(p)'
    BY <1>3 DEF BulkPart
  <2>2. \A q \in Procs \ {p} : /\ todo'[q] = todo[q]
                               /\ bulk'[q] = bulk[q]
                               /\ rowwise'[q] = rowwise[q]
    BY <1>0, <1>3
  <2> QED  BY <2>1, <2>2, BulkStep
<1>4. ASSUME NEW p \in Procs, FinishBody(p) \/ BeginReparse(p) \/ BeginProbe(p)
      PROVE  BulkObserves'
  <2>1. /\ UNCHANGED <<bulk, rowwise>> /\ pc[p] # "txn"
        /\ todo' = [todo EXCEPT ![p] = todo'[p]]
    BY <1>0, <1>4 DEF FinishBody, BeginReparse, BeginProbe
  <2>2. bulk[p] = {}
    BY <2>1 DEF OwnBatch
  <2> QED  BY <1>0, <1>3, <2>1, <2>2
<1>5. ASSUME NEW p \in Procs, Execute(p) PROVE BulkObserves'
  <2>1. UNCHANGED <<bulk, rowwise>> /\ todo' = [todo EXCEPT ![p] = todo'[p]]
    BY <1>0, <1>5 DEF Execute
  <2>2. bulk[p] = {}
    BY <1>5 DEF Execute, AtPlain, BulkObserves
  <2> QED  BY <1>0, <1>3, <2>1, <2>2
<1>6. ASSUME NEW p \in Procs, BulkDuplicate(p) PROVE BulkObserves'
  <2>1. /\ bulk' = [bulk EXCEPT ![p] = {}]
        /\ todo' = [todo EXCEPT ![p] = todo'[p]]
        /\ rowwise' = [rowwise EXCEPT ![p] = rowwise'[p]]
    BY <1>0, <1>6 DEF BulkDuplicate
  <2> QED  BY <1>0, <1>3, <2>1
<1>7. ASSUME NEW p \in Procs, Refuse(p) \/ WaitTimeout(p) \/ LostConnection(p) \/ KillClient(p)
      PROVE  BulkObserves'
  <2>1. /\ bulk' = [bulk EXCEPT ![p] = {}]
        /\ todo' = [todo EXCEPT ![p] = todo'[p]]
        /\ rowwise' = [rowwise EXCEPT ![p] = rowwise'[p]]
    BY <1>0, <1>7 DEF Refuse, WaitTimeout, LostConnection, KillClient, Raise
  <2> QED  BY <1>0, <1>3, <2>1
<1>8. ASSUME NEW p \in Procs, SkipDuplicate(p) PROVE BulkObserves'
  <2>1. /\ UNCHANGED bulk /\ rowwise[p]
        /\ todo' = [todo EXCEPT ![p] = todo'[p]]
        /\ rowwise' = [rowwise EXCEPT ![p] = rowwise'[p]]
    BY <1>0, <1>8 DEF SkipDuplicate
  <2>2. bulk[p] = {}
    BY <2>1 DEF BulkObserves
  <2> QED  BY <1>0, <1>3, <2>1, <2>2
<1>9. ASSUME NEW p \in Procs, AppendObservation(p) \/ DoNothing(p), bulk'[p] # {}
      PROVE  BulkObserves'
  <2> DEFINE r == NextRow(p)
             left == Head(todo[p]) \ {r}
  <2>1. /\ pc[p] = "txn" /\ todo[p] # <<>>
        /\ \A s \in Head(todo[p]) : s.table = "price_observation"
    BY <1>9 DEF AppendObservation, DoNothing, Connected, AtObservations
  <2>2. /\ todo' = [todo EXCEPT ![p] = Rest(p, left)]
        /\ bulk' = [bulk EXCEPT ![p] = bulk'[p]]
        /\ rowwise' = [rowwise EXCEPT ![p] = rowwise'[p]]
    BY <1>0, <1>9 DEF AppendObservation, DoNothing
  <2>3. r \in Head(todo[p])
    BY <2>1, NextRowIsFirst
  <2>4. left # {} /\ bulk'[p] \subseteq bulk[p] \cup {r}
    BY <1>0, <1>9 DEF AppendObservation, DoNothing
  <2>5. ~rowwise'[p]
    <3>1. CASE AppendObservation(p)
      <4>1. ~rowwise[p]
        BY <1>0, <1>9, <3>1 DEF AppendObservation
      <4> QED  BY <1>0, <3>1, <4>1 DEF AppendObservation
    <3>2. CASE DoNothing(p)
      <4>1. rowwise' = rowwise /\ bulk[p] # {}
        BY <1>0, <1>9, <3>2 DEF DoNothing
      <4> QED  BY <4>1 DEF BulkObserves
    <3> QED  BY <1>9, <3>1, <3>2
  <2>6. Head(todo[p]) \in SUBSET OwnRows(p)
    <3> DEFINE S == (SUBSET OwnRows(p)) \ {{}}
    <3>1. todo[p] \in Seq(S)
      BY <2>1 DEF OwnBatch
    <3> HIDE DEF S
    <3>2. Head(todo[p]) \in S
      BY <2>1, <3>1
    <3> QED  BY <3>2 DEF S
  <2>7. Rest(p, left) # <<>> /\ Head(Rest(p, left)) = left
    BY <2>1, <2>4, <2>6, RestOfBatch
  <2>8. todo'[p] = Rest(p, left)
    BY <1>0, <2>2
  <2>9. AtObservations(p)' /\ todo'[p] # <<>>
    BY <2>1, <2>7, <2>8 DEF AtObservations
  <2>10. \A s \in bulk'[p] : s.table = "price_observation"
    BY <2>1, <2>3, <2>4 DEF BulkObserves
  <2>11. BulkPart(p)'
    BY <2>5, <2>9, <2>10 DEF BulkPart
  <2>12. \A q \in Procs \ {p} : /\ todo'[q] = todo[q]
                                /\ bulk'[q] = bulk[q]
                                /\ rowwise'[q] = rowwise[q]
    BY <1>0, <2>2
  <2> QED  BY <2>11, <2>12, BulkStep
<1>10. ASSUME NEW p \in Procs, AppendObservation(p) \/ DoNothing(p), bulk'[p] = {}
       PROVE  BulkObserves'
  <2>1. /\ todo' = [todo EXCEPT ![p] = todo'[p]]
        /\ bulk' = [bulk EXCEPT ![p] = bulk'[p]]
        /\ rowwise' = [rowwise EXCEPT ![p] = rowwise'[p]]
    BY <1>0, <1>10 DEF AppendObservation, DoNothing
  <2> QED  BY <1>3, <1>10, <2>1
<1>11. ASSUME KillServer \/ StartServer \/ UNCHANGED vars PROVE BulkObserves'
  <2>1. UNCHANGED <<todo, bulk, rowwise>>
    BY <1>11 DEF KillServer, StartServer, vars
  <2> QED  BY <1>1, <2>1
<1> QED
  BY <1>2, <1>4, <1>5, <1>6, <1>7, <1>8, <1>9, <1>10, <1>11 DEF Next, Transact

(* The inductive invariant of transactions alone.                          *)
Txns == TypeOK /\ Phases /\ OwnBatch /\ BulkObserves

(* The first part of the invariant holds at first.                         *)
LEMMA InitTxns == Init => Txns
  BY InitTypes, InitPhases DEF Txns

(* Every step keeps it.                                                    *)
LEMMA NextTxns == Txns /\ [Next]_vars => Txns'
  BY NextTypes, NextPhases, NextOwnBatch, NextBulkObserves DEF Txns
----------------------------------------------------------------------------
(* Id ranges.                                                              *)
LEMMA Multiple ==
  ASSUME NEW n \in Nat \ {0}, NEW y \in Nat
  PROVE  n * y \in Nat /\ y <= n * y
<1>1. PICK d \in Nat : n = 1 + d
  <2>1. n - 1 \in Nat /\ n = 1 + (n - 1)
    OBVIOUS
  <2> QED  BY <2>1
<1>2. n * y = y + d * y
  BY <1>1
<1>3. d * y \in Nat
  OBVIOUS
<1> QED  BY <1>2, <1>3

(* A range is wider than what the batches, or the seed, use of it.         *)
LEMMA Wide ==
  /\ MaxBatches * BatchRows \in Nat
  /\ MaxBatches * BatchRows < WriterStride
  /\ SeedArtifacts < WriterStride
<1> USE BatchesAssumption, IngestionAssumption
<1>1. 2 * RecordsPerRun \in Nat \ {0}
  OBVIOUS
<1>2. MaxBatches * BatchRows \in Nat
  OBVIOUS
<1>3. PICK x \in Nat : x = MaxBatches * BatchRows
  BY <1>2
<1>4. x + 1 <= (2 * RecordsPerRun) * (x + 1)
  BY <1>1, Multiple
<1>5. SeedArtifacts + 1 <= (2 * RecordsPerRun) * (SeedArtifacts + 1)
  BY <1>1, Multiple
<1>6. (2 * RecordsPerRun) * (x + 1) < WriterStride
  BY <1>3, IdRangesAssumption
<1>7. (2 * RecordsPerRun) * (SeedArtifacts + 1) < WriterStride
  BY IdRangesAssumption
<1>8. (2 * RecordsPerRun) * (x + 1) \in Nat /\ (2 * RecordsPerRun) * (SeedArtifacts + 1) \in Nat
  BY <1>1, Multiple
<1> QED  BY <1>2, <1>3, <1>4, <1>5, <1>6, <1>7, <1>8

(* Ids of different ranges differ (IdRangesAssumption).                    *)
LEMMA RangesApart ==
  ASSUME NEW v \in Nat, NEW w \in Nat, v # w, NEW s \in Nat, s < WriterStride
  PROVE  Id(v, s) \notin WriterRange(w)
<1> USE BatchesAssumption
<1>1. v * WriterStride \in Nat /\ w * WriterStride \in Nat
  OBVIOUS
<1>2. ASSUME v < w PROVE v * WriterStride + WriterStride <= w * WriterStride
  BY <1>2, Apart
<1>3. ASSUME w < v PROVE w * WriterStride + WriterStride <= v * WriterStride
  BY <1>3, Apart
<1>4. v < w \/ w < v
  OBVIOUS
<1> QED  BY <1>1, <1>2, <1>3, <1>4 DEF WriterRange, Id

(* An id below the stride is in its range.                                 *)
LEMMA InRange ==
  ASSUME NEW w \in Nat, NEW s \in Nat, s < WriterStride
  PROVE  Id(w, s) \in WriterRange(w)
<1>1. w * WriterStride \in Nat
  BY BatchesAssumption
<1> QED  BY <1>1, BatchesAssumption DEF WriterRange, Id

(* Ids are ordered as their sequences are.                                 *)
LEMMA IdOrder ==
  ASSUME NEW w \in Nat, NEW s \in Nat, NEW t \in Nat
  PROVE  /\ s <= t <=> Id(w, s) <= Id(w, t)
         /\ s < t => ~ (Id(w, t) <= Id(w, s))
<1>1. w * WriterStride \in Nat
  BY BatchesAssumption
<1> QED  BY <1>1 DEF Id

(* Where a writer's sequence stands, and how far a new batch takes it.     *)
LEMMA ReachedNat ==
  ASSUME TypeOK, NEW p \in Procs
  PROVE  Reached(p) \in Nat
<1>1. CASE begun[p] = 0
  BY <1>1 DEF Reached, TypeOK
<1>2. CASE begun[p] # 0
  <2>1. begun[p] \in Nat /\ begun[p] >= 1
    BY <1>2 DEF TypeOK
  <2> QED  BY <1>2, <2>1, SeqNat DEF Reached
<1> QED  BY <1>1, <1>2

(* The next batch lies behind the one before and not farther than a        *)
(* batch.                                                                  *)
LEMMA Advance ==
  ASSUME TypeOK, NEW p \in Procs
  PROVE  /\ SeqOf(p, begun[p] + 1) \in Nat
         /\ Reached(p) < SeqOf(p, begun[p] + 1)
         /\ SeqOf(p, begun[p] + 1) <= Reached(p) + BatchRows
<1> DEFINE n == begun[p]
<1>0. n \in Nat /\ seqStart[p] \in Nat /\ BatchRows \in Nat \ {0}
  BY IngestionAssumption DEF TypeOK
<1>1. SeqOf(p, n + 1) \in Nat
  BY <1>0, SeqNat
<1>2. CASE n = 0
  <2>1. SeqOf(p, n + 1) = seqStart[p] + 1
    <3>1. ((n + 1) - 1) * BatchRows = 0
      BY <1>0, <1>2
    <3> QED  BY <1>0, <1>2, <3>1 DEF SeqOf
  <2>2. Reached(p) = seqStart[p]
    BY <1>2 DEF Reached
  <2> QED  BY <1>0, <1>1, <2>1, <2>2
<1>3. CASE n # 0
  <2>1. Reached(p) = SeqOf(p, n)
    BY <1>3 DEF Reached
  <2>2. CASE Kind[p] = "loop"
    <3>1. ((n + 1) - 1) * BatchRows = (n - 1) * BatchRows + BatchRows
      BY <1>0
    <3>2. PICK x \in Nat : x = (n - 1) * BatchRows
      <4>1. n - 1 \in Nat
        BY <1>0, <1>3
      <4> QED  BY <1>0, <4>1
    <3>3. /\ SeqOf(p, n + 1) = seqStart[p] + (x + BatchRows) + 1
          /\ SeqOf(p, n) = seqStart[p] + x + 1
      BY <2>2, <3>1, <3>2 DEF SeqOf
    <3>4. PICK y \in Nat, b \in Nat \ {0} : y = seqStart[p] /\ b = BatchRows
      BY <1>0
    <3>5. SeqOf(p, n + 1) = y + (x + b) + 1 /\ Reached(p) = y + x + 1
      BY <2>1, <3>3, <3>4
    <3> QED  BY <1>1, <3>4, <3>5
  <2>3. CASE Kind[p] # "loop"
    <3>1. SeqOf(p, n + 1) = seqStart[p] + (n + 1) /\ SeqOf(p, n) = seqStart[p] + n
      BY <2>3 DEF SeqOf
    <3> QED  BY <1>0, <1>1, <2>1, <3>1
  <2> QED  BY <2>2, <2>3
<1> QED  BY <1>2, <1>3
----------------------------------------------------------------------------
(* The header rows of a batch, in the ids of its writer.                   *)
LEMMA HeadersOfOthers ==
  ASSUME Txns, Ahead, NEW p \in Procs, NEW q \in Procs, pc[q] = "txn",
         NEW r \in pending[q], r.table \in {"ingest_run", "raw_artifact"},
         r.id \in WriterRange(WriterId[p])
  PROVE  q = p /\ StoresBodies(p) /\ r.id = Id(WriterId[p], Reached(p))
<1>1. r \in OwnRows(q)
  BY DEF Txns, OwnBatch
<1>2. StoresBodies(q) /\ r.id = Id(WriterId[q], SeqOf(q, begun[q]))
  BY <1>1, OwnShapes DEF OwnShape, Txns
<1>3. begun[q] \in Nat /\ begun[q] >= 1
  BY <1>2 DEF Txns, Phases, TypeOK, StoresBodies
<1>4. Reached(q) = SeqOf(q, begun[q]) /\ Reached(q) \in Nat
  BY <1>3, ReachedNat DEF Reached, Txns
<1>5. Reached(q) <= batches * BatchRows
  BY <1>2 DEF Ahead, Running
<1>6. Reached(q) < WriterStride
  <2>1. batches \in Nat /\ batches <= MaxBatches /\ MaxBatches \in Nat
    BY IngestionAssumption DEF Txns, TypeOK
  <2>2. batches * BatchRows <= MaxBatches * BatchRows
    <3>1. CASE batches = MaxBatches
      BY <2>1, <3>1, Wide
    <3>2. CASE batches < MaxBatches
      BY <2>1, <3>2, Apart, IngestionAssumption
    <3> QED  BY <2>1, <3>1, <3>2
  <2>3. batches * BatchRows \in Nat
    BY <2>1, IngestionAssumption
  <2> QED  BY <1>4, <1>5, <2>2, <2>3, Wide, BatchesAssumption
<1>7. WriterId[q] \in Nat /\ WriterId[p] \in Nat
  BY IngestionAssumption
<1>8. WriterId[q] = WriterId[p]
  BY <1>2, <1>4, <1>6, <1>7, RangesApart
<1>9. q = p
  BY <1>8, IdRangesAssumption
<1> QED  BY <1>2, <1>4, <1>9

(* A step that commits the rows of some transactions, and begins no batch. *)
Commits(done) ==
  /\ done \subseteq {p \in Procs : pc[p] = "txn"}
  /\ committed' = committed \cup UNION {pending[p] : p \in done}

(* A step that commits rows of open transactions, and begins no batch,     *)
(* keeps Ahead.                                                            *)
LEMMA AheadStep ==
  ASSUME Txns, Ahead, NEW done, Commits(done), batches' = batches,
         \A p \in Procs : StoresBodies(p) =>
           /\ seqStart'[p] = seqStart[p] /\ begun'[p] = begun[p]
           /\ Running(p)' => Running(p)
  PROVE  Ahead'
<1>1. ASSUME NEW p \in Procs, StoresBodies(p), NEW id \in HeaderIds' \cap WriterRange(WriterId[p])
      PROVE  /\ id <= Id(WriterId[p], batches * BatchRows)
             /\ Running(p) => id <= Id(WriterId[p], Reached(p))
  <2>1. CASE id \in HeaderIds
    BY <1>1, <2>1 DEF Ahead
  <2>2. CASE id \notin HeaderIds
    <3>1. PICK q \in done : \E r \in pending[q] : r.table \in {"ingest_run", "raw_artifact"} /\ r.id = id
      BY <1>1, <2>2 DEF HeaderIds, Commits
    <3>2. q \in Procs /\ pc[q] = "txn"
      BY <3>1 DEF Commits
    <3>3. q = p /\ id = Id(WriterId[p], Reached(p))
      BY <1>1, <3>1, <3>2, HeadersOfOthers
    <3>4. Reached(p) <= batches * BatchRows
      BY <1>1, <3>2, <3>3 DEF Ahead, Running
    <3>5. Reached(p) \in Nat /\ batches * BatchRows \in Nat /\ WriterId[p] \in Nat
      BY ReachedNat, IngestionAssumption DEF Txns, TypeOK
    <3> QED  BY <3>3, <3>4, <3>5, IdOrder
  <2> QED  BY <2>1, <2>2
<1>2. \A p \in Procs : StoresBodies(p) => Reached(p)' = Reached(p)
  BY DEF Reached, SeqOf
<1>3. \A p \in Procs : StoresBodies(p) /\ Running(p)' => Reached(p) <= batches * BatchRows
  BY DEF Ahead
<1> QED  BY <1>1, <1>2, <1>3 DEF Ahead

(* Every other step commits what some transactions hold, or nothing.       *)
Quiet(done) ==
  /\ Commits(done)
  /\ UNCHANGED <<seqStart, batches, bodies>>
  /\ \A p \in Procs :
       /\ StoresBodies(p) => begun'[p] = begun[p]
       /\ Running(p)' => Running(p)
       /\ StoresBodies(p) /\ pc'[p] = "txn" => pc[p] = "txn"

(* Every other step lets a writer start, or begins or finishes a body.     *)
LEMMA Steps ==
  ASSUME TypeOK, [Next]_vars
  PROVE  \/ \E done : Quiet(done)
         \/ \E p \in Procs : Start(p) \/ BeginBody(p) \/ FinishBody(p)
<1>0. /\ pc = [q \in Procs |-> pc[q]]
      /\ begun = [q \in Procs |-> begun[q]]
  BY DEF TypeOK
<1> USE DEF dbVars, diskVars, txnVars, procVars, boundVars
<1>1. ASSUME committed' = committed, UNCHANGED <<seqStart, batches, bodies>>,
             \A p \in Procs :
               /\ StoresBodies(p) => begun'[p] = begun[p]
               /\ Running(p)' => Running(p)
               /\ StoresBodies(p) /\ pc'[p] = "txn" => pc[p] = "txn"
      PROVE  \E done : Quiet(done)
  <2>1. Quiet({})
    BY <1>1 DEF Quiet, Commits
  <2> QED  BY <2>1
<1>2. ASSUME NEW p \in Procs, BodyFails(p) \/ Finish(p) \/ KillClient(p)
      PROVE  \E done : Quiet(done)
  <2>1. /\ committed' = committed /\ UNCHANGED <<seqStart, batches, bodies, begun>>
        /\ pc' = [pc EXCEPT ![p] = "failed"] \/ pc' = [pc EXCEPT ![p] = "done"]
    BY <1>2 DEF BodyFails, Finish, KillClient
  <2> QED  BY <1>0, <1>1, <2>1 DEF Running
<1>3. ASSUME NEW p \in Procs, Refuse(p) \/ WaitTimeout(p) \/ LostConnection(p)
      PROVE  \E done : Quiet(done)
  <2>1. /\ committed' = committed /\ UNCHANGED <<seqStart, batches, bodies, begun>>
        /\ pc' = [pc EXCEPT ![p] = "failed"] \/ pc' = [pc EXCEPT ![p] = "loop"]
        /\ pc[p] = "txn"
    BY <1>3 DEF Refuse, WaitTimeout, LostConnection, Raise, Connected
  <2> QED  BY <1>0, <1>1, <2>1 DEF Running
<1>4. ASSUME NEW p \in Procs, BeginReparse(p) PROVE \E done : Quiet(done)
  <2>1. /\ committed' = committed /\ UNCHANGED <<seqStart, batches, bodies>>
        /\ pc' = [pc EXCEPT ![p] = "txn"] /\ begun' = [begun EXCEPT ![p] = @ + 1]
        /\ pc[p] = "loop" /\ ~StoresBodies(p)
    BY <1>4 DEF BeginReparse, StoresBodies
  <2> QED  BY <1>0, <1>1, <2>1 DEF Running
<1>5. ASSUME NEW p \in Procs, BeginProbe(p) PROVE \E done : Quiet(done)
  <2>1. /\ committed' = committed /\ UNCHANGED <<seqStart, batches, bodies, begun>>
        /\ pc' = [pc EXCEPT ![p] = "txn"]
        /\ pc[p] = "loop" /\ ~StoresBodies(p)
    BY <1>5 DEF BeginProbe, StoresBodies
  <2> QED  BY <1>0, <1>1, <2>1 DEF Running
<1>6. ASSUME NEW p \in Procs,
             Execute(p) \/ DoNothing(p) \/ AppendObservation(p) \/ BulkDuplicate(p)
             \/ SkipDuplicate(p)
      PROVE  \E done : Quiet(done)
  <2>1. committed' = committed /\ UNCHANGED <<pc, seqStart, batches, bodies, begun>>
    BY <1>6 DEF Execute, DoNothing, AppendObservation, BulkDuplicate, SkipDuplicate
  <2> QED  BY <1>1, <2>1 DEF Running
<1>7. ASSUME NEW p \in Procs, Commit(p) PROVE \E done : Quiet(done)
  <2>1. /\ committed' = committed \cup pending[p] /\ pc[p] = "txn"
        /\ UNCHANGED <<seqStart, batches, bodies, begun>>
        /\ pc' = [pc EXCEPT ![p] = "done"] \/ pc' = [pc EXCEPT ![p] = "loop"]
    BY <1>7 DEF Commit, Connected
  <2>2. Commits({p})
    BY <2>1 DEF Commits
  <2>3. Quiet({p})
    BY <1>0, <2>1, <2>2 DEF Quiet, Running
  <2> QED  BY <2>3
<1>8. ASSUME KillServer PROVE \E done : Quiet(done)
  <2>1. UNCHANGED <<pc, seqStart, batches, bodies, begun>>
    BY <1>8 DEF KillServer
  <2>2. PICK done \in SUBSET {p \in Procs : Connected(p) /\ todo[p] = <<>>} :
          committed' = committed \cup UNION {pending[p] : p \in done}
    BY <1>8 DEF KillServer
  <2>3. Commits(done)
    BY <2>2 DEF Commits, Connected
  <2>4. Quiet(done)
    BY <2>1, <2>3 DEF Quiet, Running
  <2> QED  BY <2>4
<1>9. ASSUME StartServer \/ UNCHANGED vars PROVE \E done : Quiet(done)
  <2>1. committed' = committed /\ UNCHANGED <<pc, seqStart, batches, bodies, begun>>
    BY <1>9 DEF StartServer, vars
  <2> QED  BY <1>1, <2>1 DEF Running
<1> QED
  BY <1>2, <1>3, <1>4, <1>5, <1>6, <1>7, <1>8, <1>9 DEF Next, Transact
----------------------------------------------------------------------------
(* Committed rows name committed parents.                                  *)
LEMMA ParentName ==
  ASSUME NEW rows, NEW table, NEW id, <<table, id>> \in Names(rows)
  PROVE  \E r \in rows : r.table = table /\ r.id = id
  BY DEF Names, Name

(* Every header is that of a committed run.                                *)
LEMMA ArtifactsHaveRuns ==
  ASSUME Parents PROVE HeaderIds = RunIds
<1>1. ASSUME NEW r \in committed, r.table = "raw_artifact" PROVE r.id \in RunIds
  <2>1. <<"ingest_run", r.id>> \in Names(committed)
    BY <1>1 DEF Parents, Shaped
  <2> QED  BY <2>1, ParentName DEF RunIds
<1> QED  BY <1>1 DEF HeaderIds, RunIds

(* The seed's rows have their shapes and their parents.                    *)
LEMMA SeedShapes == 
  ASSUME NEW k \in Nat, NEW r \in SeedRows(k)
  PROVE  /\ Shaped(r) /\ r.refs \subseteq Names(SeedRows(k))
         /\ r.table \in {"ingest_run", "raw_artifact"} => r.id = k + 1
<1>0. /\ Name(Row("ingest_run", k + 1, {}, {})) = <<"ingest_run", k + 1>>
      /\ Name(Row("raw_artifact", k + 1, {<<"ingest_run", k + 1>>}, {})) = <<"raw_artifact", k + 1>>
      /\ Name(ProcessingRun(k + 1, k + 1, "v1", 1)) = <<"processing_run", k + 1>>
      /\ \A id, run, a : Name(Record(id, run, a)) = <<"extracted_record", id>>
      /\ \A id, v : Name(Candidate(id, v)) = <<"observation_candidate", id>>
  BY DEF Name, Row, ProcessingRun, Record, Candidate
<1>1. /\ <<"ingest_run", k + 1>> \in Names(SeedRows(k))
      /\ <<"raw_artifact", k + 1>> \in Names(SeedRows(k))
      /\ <<"processing_run", k + 1>> \in Names(SeedRows(k))
  <2>1. /\ Row("ingest_run", k + 1, {}, {}) \in SeedRows(k)
        /\ Row("raw_artifact", k + 1, {<<"ingest_run", k + 1>>}, {}) \in SeedRows(k)
        /\ ProcessingRun(k + 1, k + 1, "v1", 1) \in SeedRows(k)
    BY DEF SeedRows
  <2> QED  BY <1>0, <2>1 DEF Names
<1>2. ASSUME NEW c \in SeedNumbers(k)
      PROVE  /\ <<"extracted_record", c + 1>> \in Names(SeedRows(k))
             /\ <<"observation_candidate", c + 1>> \in Names(SeedRows(k))
  <2>1. Record(c + 1, k + 1, k + 1) \in SeedRows(k) /\ Candidate(c + 1, "v1") \in SeedRows(k)
    BY DEF SeedRows, SeedNumbers
  <2> QED  BY <1>0, <2>1 DEF Names
<1>3. ASSUME NEW c \in SeedNumbers(k)
      PROVE  c \in Nat /\ c + 1 \in Nat /\ 2 * c + 1 \in Nat /\ 2 * c + 2 \in Nat
  <2>1. k * RecordsPerRun \in Nat
    BY BatchesAssumption
  <2>2. c \in Nat
    BY <2>1, BatchesAssumption DEF SeedNumbers
  <2> QED  BY <2>2
<1>k. k + 1 \in Nat
  OBVIOUS
<1>4. CASE r = Row("ingest_run", k + 1, {}, {})
  <2>1. Shaped(r)
    BY <1>k, <1>4, RowShaped
  <2>2. r.refs = {} /\ r.id = k + 1
    BY <1>4 DEF Row
  <2> QED  BY <2>1, <2>2
<1>5. CASE r = Row("raw_artifact", k + 1, {<<"ingest_run", k + 1>>}, {})
  <2>1. Shaped(r)
    BY <1>k, <1>5, RowShaped
  <2>2. r.refs = {<<"ingest_run", k + 1>>} /\ r.id = k + 1
    BY <1>5 DEF Row
  <2> QED  BY <1>1, <2>1, <2>2
<1>6. CASE r = ProcessingRun(k + 1, k + 1, "v1", 1)
  <2>1. Shaped(r)
    BY <1>k, <1>6, RowShaped
  <2>2. r.refs = {<<"raw_artifact", k + 1>>} /\ r.table = "processing_run"
    BY <1>6 DEF Row, ProcessingRun
  <2> QED  BY <1>1, <2>1, <2>2
<1>7. ASSUME NEW c \in SeedNumbers(k), r = Record(c + 1, k + 1, k + 1)
      PROVE  Shaped(r) /\ r.refs \subseteq Names(SeedRows(k)) /\ r.table = "extracted_record"
  <2>1. Shaped(r)
    BY <1>3, <1>7, RowShaped
  <2> QED  BY <1>1, <1>7, <2>1 DEF Row, Record
<1>8. ASSUME NEW c \in SeedNumbers(k), r = Candidate(c + 1, "v1")
      PROVE  Shaped(r) /\ r.refs \subseteq Names(SeedRows(k)) /\ r.table = "observation_candidate"
  <2>1. Shaped(r)
    BY <1>3, <1>8, RowShaped
  <2> QED  BY <1>2, <1>8, <2>1 DEF Row, Candidate
<1>9. ASSUME NEW c \in SeedNumbers(k),
             r = Attempt(2 * c + 1, c + 1) \/ r = Attempt(2 * c + 2, c + 1)
      PROVE  Shaped(r) /\ r.refs \subseteq Names(SeedRows(k))
             /\ r.table = "identity_resolution_attempt"
  <2>1. Shaped(r)
    BY <1>3, <1>9, RowShaped
  <2>2. /\ r.refs = {<<"observation_candidate", c + 1>>}
        /\ r.table = "identity_resolution_attempt"
    BY <1>9 DEF Row, Attempt
  <2> QED  BY <1>2, <2>1, <2>2
<1>10. ASSUME NEW c \in SeedNumbers(k),
              r = Observation(c + 1, c + 1, k + 1, IdempotencyKey(k, c - k * RecordsPerRun))
       PROVE  Shaped(r) /\ r.refs \subseteq Names(SeedRows(k)) /\ r.table = "price_observation"
  <2>1. Shaped(r)
    BY <1>3, <1>10, RowShaped
  <2> QED  BY <1>1, <1>2, <1>10, <2>1 DEF Row, Observation
<1> QED  BY <1>4, <1>5, <1>6, <1>7, <1>8, <1>9, <1>10, SeedForms
----------------------------------------------------------------------------
(* The seed's headers are below the writers' ranges.                       *)
LEMMA SeedHeaders ==
  ASSUME Init, NEW r \in committed
  PROVE  /\ Shaped(r) /\ r.refs \subseteq Names(committed)
         /\ r.table \in {"ingest_run", "raw_artifact"} => r.id \in 1 .. SeedArtifacts
<1>1. PICK k \in 0 .. SeedArtifacts - 1 : r \in SeedRows(k)
  BY DEF Init, SeedAll
<1>2. k \in Nat /\ k + 1 \in 1 .. SeedArtifacts
  BY BatchesAssumption
<1>3. SeedRows(k) \subseteq committed
  BY DEF Init, SeedAll
<1>4. Names(SeedRows(k)) \subseteq Names(committed)
  BY <1>3 DEF Names
<1> QED  BY <1>1, <1>2, <1>4, SeedShapes

(* The seed satisfies the second part of the invariant.                    *)
LEMMA InitAhead == Init => Ahead /\ BodiesKept /\ Parents
<1> SUFFICES ASSUME Init PROVE Ahead /\ BodiesKept /\ Parents
  OBVIOUS
<1>1. ASSUME NEW p \in Procs, NEW id \in HeaderIds PROVE id \notin WriterRange(WriterId[p])
  <2>1. id \in 1 .. SeedArtifacts
    BY SeedHeaders DEF HeaderIds
  <2>2. PICK w \in Nat \ {0} : w = WriterId[p]
    BY IngestionAssumption
  <2>3. WriterStride \in Nat \ {0} /\ SeedArtifacts \in Nat /\ SeedArtifacts < WriterStride
    BY Wide, BatchesAssumption
  <2>4. WriterStride <= w * WriterStride /\ w * WriterStride \in Nat
    BY <2>2, <2>3, Multiple
  <2> QED  BY <2>1, <2>2, <2>3, <2>4 DEF WriterRange, Id
<1>2. \A p \in Procs : ~Running(p)
  BY DEF Init, Running
<1>3. Ahead
  BY <1>1, <1>2 DEF Ahead
<1>4. BodiesKept
  <2>1. bodies = {k + 1 : k \in 0 .. SeedArtifacts - 1}
    BY DEF Init
  <2>2. Artifacts \subseteq 1 .. SeedArtifacts
    BY SeedHeaders DEF Artifacts
  <2>3. ASSUME NEW id \in 1 .. SeedArtifacts PROVE id \in bodies
    <3>1. id - 1 \in 0 .. SeedArtifacts - 1 /\ id = (id - 1) + 1
      BY BatchesAssumption
    <3> QED  BY <2>1, <3>1
  <2>4. \A p \in Procs : pc[p] # "txn"
    BY DEF Init
  <2> QED  BY <2>2, <2>3, <2>4 DEF BodiesKept
<1>5. Parents
  <2>1. \A p \in Procs : pending[p] = {}
    BY DEF Init
  <2> QED  BY <2>1, SeedHeaders DEF Parents
<1> QED  BY <1>3, <1>4, <1>5

(* The bound of one more batch.                                            *)
LEMMA OneMore ==
  ASSUME TypeOK
  PROVE  /\ batches * BatchRows \in Nat /\ (batches + 1) * BatchRows \in Nat
         /\ (batches + 1) * BatchRows = batches * BatchRows + BatchRows
         /\ BatchRows \in Nat
  BY IngestionAssumption DEF TypeOK

(* How far the sequence of a process reaches into its range.               *)
LEMMA Within ==
  ASSUME TypeOK, NEW s \in Nat, s <= batches * BatchRows
  PROVE  s < WriterStride
<1>1. batches \in Nat /\ batches <= MaxBatches /\ MaxBatches \in Nat
  BY IngestionAssumption DEF TypeOK
<1>2. batches * BatchRows <= MaxBatches * BatchRows
  <2>1. CASE batches = MaxBatches
    BY <1>1, <2>1, Wide
  <2>2. CASE batches < MaxBatches
    BY <1>1, <2>2, Apart, IngestionAssumption
  <2> QED  BY <1>1, <2>1, <2>2
<1>3. batches * BatchRows \in Nat
  BY OneMore
<1> QED  BY <1>2, <1>3, Wide, BatchesAssumption

(* Every step keeps the writers ahead of what is committed.                *)
LEMMA NextAhead == Txns /\ Ahead /\ Parents /\ [Next]_vars => Ahead'
<1> SUFFICES ASSUME Txns, Ahead, Parents, [Next]_vars PROVE Ahead'
  OBVIOUS
<1>0. /\ TypeOK
      /\ pc = [q \in Procs |-> pc[q]]
      /\ begun = [q \in Procs |-> begun[q]]
      /\ seqStart = [q \in Procs |-> seqStart[q]]
  BY DEF Txns, TypeOK
<1> USE DEF dbVars, diskVars, txnVars, procVars, boundVars
<1>1. ASSUME NEW done, Quiet(done) PROVE Ahead'
  BY <1>1, AheadStep DEF Quiet
<1>2. ASSUME NEW p \in Procs, FinishBody(p) PROVE Ahead'
  <2>1. /\ committed' = committed /\ UNCHANGED <<seqStart, batches, begun>>
        /\ pc' = [pc EXCEPT ![p] = "txn"] /\ pc[p] = "body"
    BY <1>2 DEF FinishBody
  <2>2. Commits({})
    BY <2>1 DEF Commits
  <2>3. \A q \in Procs : Running(q)' => Running(q)
    BY <1>0, <2>1 DEF Running
  <2> QED  BY <2>1, <2>2, <2>3, AheadStep
<1>3. ASSUME NEW p \in Procs, Start(p) PROVE Ahead'
  <2>1. /\ UNCHANGED <<committed, batches>>
        /\ seqStart' = [seqStart EXCEPT ![p] = seqStart'[p]]
        /\ begun' = [begun EXCEPT ![p] = 0]
        /\ pc' = [pc EXCEPT ![p] = "loop"]
    BY <1>0, <1>3 DEF Start
  <2>2. HeaderIds' = HeaderIds /\ HeaderIds = RunIds
    BY <1>0, <2>1, ArtifactsHaveRuns DEF HeaderIds
  <2>3. ASSUME NEW q \in Procs \ {p}
        PROVE  Reached(q)' = Reached(q) /\ Running(q)' = Running(q)
    BY <1>0, <2>1, <2>3 DEF Reached, SeqOf, Running
  <2>4. ASSUME StoresBodies(p)
        PROVE  /\ Reached(p)' <= batches * BatchRows
               /\ \A id \in HeaderIds \cap WriterRange(WriterId[p]) :
                    id <= Id(WriterId[p], Reached(p)')
    <3>1. WriterId[p] \in Nat
      BY IngestionAssumption
    <3>2. Reached(p)' = NextSequence(WriterId[p], RunIds)
      BY <1>0, <1>3, <2>1, <2>4 DEF Reached, Start, StoresBodies
    <3>3. /\ Reached(p)' \in Nat
          /\ \A id \in RunIds \cap WriterRange(WriterId[p]) : id <= Id(WriterId[p], Reached(p)')
          /\ \/ Reached(p)' = 0
             \/ Id(WriterId[p], Reached(p)') \in RunIds \cap WriterRange(WriterId[p])
      BY <3>1, <3>2, Continues
    <3>4. Reached(p)' <= batches * BatchRows
      <4>1. CASE Reached(p)' = 0
        BY <1>0, <4>1, OneMore
      <4>2. CASE Id(WriterId[p], Reached(p)') \in RunIds \cap WriterRange(WriterId[p])
        <5>1. Id(WriterId[p], Reached(p)') <= Id(WriterId[p], batches * BatchRows)
          BY <2>2, <2>4, <4>2 DEF Ahead
        <5> QED  BY <1>0, <3>1, <3>3, <5>1, OneMore, IdOrder
      <4> QED  BY <3>3, <4>1, <4>2
    <3> QED  BY <2>2, <3>3, <3>4
  <2> QED  BY <2>1, <2>2, <2>3, <2>4 DEF Ahead
<1>4. ASSUME NEW p \in Procs, BeginBody(p) PROVE Ahead'
  <2>1. /\ UNCHANGED <<committed, seqStart>> /\ batches' = batches + 1
        /\ begun' = [begun EXCEPT ![p] = @ + 1]
        /\ pc' = [pc EXCEPT ![p] = "body"]
        /\ pc[p] = "loop"
    BY <1>4 DEF BeginBody
  <2>2. HeaderIds' = HeaderIds
    BY <2>1 DEF HeaderIds
  <2>3. ASSUME NEW q \in Procs \ {p}
        PROVE  Reached(q)' = Reached(q) /\ Running(q)' = Running(q)
    BY <1>0, <2>1, <2>3 DEF Reached, SeqOf, Running
  <2>4. /\ Reached(p)' \in Nat
        /\ Reached(p) < Reached(p)' /\ Reached(p)' <= Reached(p) + BatchRows
    <3>1. begun[p] \in Nat /\ begun'[p] = begun[p] + 1 /\ begun'[p] # 0
      BY <1>0, <2>1 DEF TypeOK
    <3>2. Reached(p)' = SeqOf(p, begun[p] + 1)
      BY <2>1, <3>1 DEF Reached, SeqOf
    <3> QED  BY <1>0, <3>2, Advance
  <2>5. batches' * BatchRows = batches * BatchRows + BatchRows
    BY <1>0, <2>1, OneMore
  <2>6. ASSUME NEW q \in Procs, StoresBodies(q),
               NEW id \in HeaderIds \cap WriterRange(WriterId[q])
        PROVE  /\ id <= Id(WriterId[q], batches' * BatchRows)
               /\ Running(q) => id <= Id(WriterId[q], Reached(q))
    <3>1. PICK w \in Nat : w = WriterId[q]
      BY IngestionAssumption
    <3>2. PICK x \in Nat, b \in Nat : x = batches * BatchRows /\ b = BatchRows
      BY <1>0, OneMore
    <3>3. id <= Id(w, x) /\ id \in Int
      BY <2>6, <3>1, <3>2 DEF Ahead, WriterRange
    <3>4. PICK y \in Nat : y = x + b /\ x <= y
      BY <3>2
    <3>5. Id(w, x) \in Nat /\ Id(w, y) \in Nat
      BY <3>1, <3>2, <3>4, IdNat
    <3>6. Id(w, x) <= Id(w, y)
      BY <3>1, <3>2, <3>4, IdOrder
    <3>7. id <= Id(w, x + b)
      BY <3>3, <3>4, <3>5, <3>6
    <3> QED  BY <2>5, <2>6, <3>1, <3>2, <3>7 DEF Ahead
  <2>7. ASSUME NEW q \in Procs, StoresBodies(q), Running(q)
        PROVE  Reached(q) <= batches * BatchRows
    BY <2>7 DEF Ahead
  <2>8. ASSUME StoresBodies(p), NEW id \in HeaderIds \cap WriterRange(WriterId[p])
        PROVE  id <= Id(WriterId[p], Reached(p)')
    <3>1. PICK w \in Nat : w = WriterId[p]
      BY IngestionAssumption
    <3>2. PICK x \in Nat, y \in Nat : x = Reached(p) /\ y = Reached(p)'
      BY <1>0, <2>4, ReachedNat
    <3>3. id <= Id(w, x) /\ id \in Int
      BY <2>1, <2>6, <2>8, <3>1, <3>2 DEF Running, WriterRange
    <3>4. Id(w, x) <= Id(w, y)
      BY <2>4, <3>1, <3>2, IdOrder
    <3>5. Id(w, x) \in Nat /\ Id(w, y) \in Nat
      BY <3>1, <3>2, IdNat
    <3> QED  BY <3>1, <3>2, <3>3, <3>4, <3>5
  <2>9. Running(p)
    BY <2>1 DEF Running
  <2>10. ASSUME NEW q \in Procs, StoresBodies(q), Running(q)'
         PROVE  /\ Reached(q)' <= batches' * BatchRows
                /\ \A id \in HeaderIds \cap WriterRange(WriterId[q]) :
                     id <= Id(WriterId[q], Reached(q)')
    <3>1. PICK x \in Nat, b \in Nat : x = batches * BatchRows /\ b = BatchRows
      BY <1>0, OneMore
    <3>2. CASE q = p
      BY <1>0, <2>4, <2>5, <2>7, <2>8, <2>9, <2>10, <3>1, <3>2, ReachedNat
    <3>3. CASE q # p
      BY <1>0, <2>3, <2>5, <2>6, <2>7, <2>10, <3>1, <3>3, ReachedNat
    <3> QED  BY <3>2, <3>3
  <2> QED  BY <2>2, <2>6, <2>10 DEF Ahead
<1> QED  BY <1>0, <1>1, <1>2, <1>3, <1>4, Steps
----------------------------------------------------------------------------
(* No step tears the body of a row that is, or may still be, committed.    *)
LEMMA NextBodiesKept == Txns /\ Ahead /\ BodiesKept /\ [Next]_vars => BodiesKept'
<1> SUFFICES ASSUME Txns, Ahead, BodiesKept, [Next]_vars PROVE BodiesKept'
  OBVIOUS
<1>0. /\ TypeOK
      /\ pc = [q \in Procs |-> pc[q]]
      /\ begun = [q \in Procs |-> begun[q]]
      /\ seqStart = [q \in Procs |-> seqStart[q]]
  BY DEF Txns, TypeOK
<1> USE DEF dbVars, diskVars, txnVars, procVars, boundVars
<1>1. ASSUME NEW done, Quiet(done) PROVE BodiesKept'
  <2>1. ASSUME NEW id \in Artifacts' PROVE id \in bodies
    <3>1. CASE id \in Artifacts
      BY <3>1 DEF BodiesKept
    <3>2. CASE id \notin Artifacts
      <4>1. PICK q \in done : \E r \in pending[q] : r.table = "raw_artifact" /\ r.id = id
        BY <1>1, <2>1, <3>2 DEF Artifacts, Quiet, Commits
      <4>2. q \in Procs /\ pc[q] = "txn"
        BY <1>1, <4>1 DEF Quiet, Commits
      <4>3. PICK r \in OwnRows(q) : r.table = "raw_artifact" /\ r.id = id
        BY <4>1, <4>2 DEF Txns, OwnBatch
      <4>4. StoresBodies(q) /\ id = Id(WriterId[q], SeqOf(q, begun[q]))
        BY <1>0, <4>2, <4>3, OwnShapes DEF OwnShape, Txns
      <4> QED  BY <4>2, <4>4 DEF BodiesKept
    <3> QED  BY <3>1, <3>2
  <2>2. ASSUME NEW q \in Procs, pc'[q] = "txn", StoresBodies(q)
        PROVE  Id(WriterId[q], SeqOf(q, begun[q])') \in bodies
    <3>1. SeqOf(q, begun[q])' = SeqOf(q, begun[q]) /\ pc[q] = "txn"
      BY <1>1, <2>2 DEF Quiet, SeqOf
    <3> QED  BY <2>2, <3>1 DEF BodiesKept
  <2> QED  BY <1>1, <2>1, <2>2 DEF BodiesKept, Quiet
<1>2. ASSUME NEW p \in Procs, FinishBody(p) PROVE BodiesKept'
  <2>1. /\ bodies' = bodies \cup {Id(WriterId[p], SeqOf(p, begun[p]))}
        /\ UNCHANGED <<committed, begun, seqStart>>
        /\ pc' = [pc EXCEPT ![p] = "txn"]
    BY <1>2 DEF FinishBody
  <2>2. Artifacts' = Artifacts
    BY <2>1 DEF Artifacts
  <2>3. ASSUME NEW q \in Procs, pc'[q] = "txn", StoresBodies(q)
        PROVE  Id(WriterId[q], SeqOf(q, begun[q])') \in bodies'
    <3>1. SeqOf(q, begun[q])' = SeqOf(q, begun[q])
      BY <2>1 DEF SeqOf
    <3> QED  BY <1>0, <2>1, <2>3, <3>1 DEF BodiesKept
  <2> QED  BY <2>1, <2>2, <2>3 DEF BodiesKept
<1>3. ASSUME NEW p \in Procs, Start(p) PROVE BodiesKept'
  <2>1. /\ UNCHANGED <<committed, bodies>>
        /\ seqStart' = [seqStart EXCEPT ![p] = seqStart'[p]]
        /\ begun' = [begun EXCEPT ![p] = 0]
        /\ pc' = [pc EXCEPT ![p] = "loop"]
    BY <1>0, <1>3 DEF Start
  <2>2. Artifacts' = Artifacts
    BY <2>1 DEF Artifacts
  <2>3. ASSUME NEW q \in Procs, pc'[q] = "txn", StoresBodies(q)
        PROVE  Id(WriterId[q], SeqOf(q, begun[q])') \in bodies
    <3>1. q # p /\ pc[q] = "txn"
      BY <1>0, <2>1, <2>3
    <3>2. SeqOf(q, begun[q])' = SeqOf(q, begun[q])
      BY <1>0, <2>1, <3>1 DEF SeqOf
    <3> QED  BY <2>3, <3>1, <3>2 DEF BodiesKept
  <2> QED  BY <2>1, <2>2, <2>3 DEF BodiesKept
<1>4. ASSUME NEW p \in Procs, BeginBody(p) PROVE BodiesKept'
  <2> DEFINE ref == Id(WriterId[p], SeqOf(p, begun[p] + 1))
  <2>1. /\ UNCHANGED <<committed, seqStart>>
        /\ begun' = [begun EXCEPT ![p] = @ + 1]
        /\ pc' = [pc EXCEPT ![p] = "body"]
        /\ pc[p] = "loop" /\ StoresBodies(p)
        /\ bodies' = bodies \ {ref}
        /\ batches < MaxBatches
    BY <1>4 DEF BeginBody
  <2>2. Artifacts' = Artifacts
    BY <2>1 DEF Artifacts
  <2>3. PICK w \in Nat : w = WriterId[p]
    BY IngestionAssumption
  <2>4. PICK s \in Nat : /\ s = SeqOf(p, begun[p] + 1)
                         /\ Reached(p) < s /\ s <= Reached(p) + BatchRows
    BY <1>0, Advance
  <2>5. s < WriterStride
    <3>1. Reached(p) <= batches * BatchRows /\ Reached(p) \in Nat
      BY <1>0, <2>1, ReachedNat DEF Ahead, Running
    <3>2. batches \in Nat /\ batches + 1 <= MaxBatches /\ MaxBatches \in Nat
      BY <1>0, <2>1, IngestionAssumption DEF TypeOK
    <3>3. (batches + 1) * BatchRows <= MaxBatches * BatchRows
      <4>1. CASE batches + 1 = MaxBatches
        BY <3>2, <4>1, Wide
      <4>2. CASE batches + 1 < MaxBatches
        <5>1. PICK y \in Nat : y = batches + 1
          BY <3>2
        <5>2. y * BatchRows + BatchRows <= MaxBatches * BatchRows
          BY <3>2, <4>2, <5>1, Apart, IngestionAssumption
        <5>3. y * BatchRows \in Nat /\ BatchRows \in Nat
          BY <1>0, <5>1, OneMore
        <5> QED  BY <5>1, <5>2, <5>3, Wide
      <4> QED  BY <3>2, <4>1, <4>2
    <3>4. /\ batches * BatchRows \in Nat /\ BatchRows \in Nat
          /\ (batches + 1) * BatchRows = batches * BatchRows + BatchRows
      BY <1>0, OneMore
    <3> QED  BY <2>4, <3>1, <3>3, <3>4, Wide, BatchesAssumption
  <2>6. ref = Id(w, s) /\ ref \in WriterRange(w)
    BY <2>3, <2>4, <2>5, InRange
  <2>7. ref \notin Artifacts
    <3> SUFFICES ASSUME ref \in Artifacts PROVE FALSE
      OBVIOUS
    <3>1. ref \in HeaderIds
      BY DEF Artifacts, HeaderIds
    <3>2. ref <= Id(w, Reached(p))
      BY <2>1, <2>3, <2>6, <3>1 DEF Ahead, Running
    <3>3. PICK x \in Nat : x = Reached(p)
      BY <1>0, ReachedNat
    <3> QED  BY <2>3, <2>4, <2>6, <3>2, <3>3, IdOrder
  <2>8. ASSUME NEW q \in Procs, pc'[q] = "txn", StoresBodies(q)
        PROVE  Id(WriterId[q], SeqOf(q, begun[q])') \in bodies'
    <3>1. q # p /\ pc[q] = "txn"
      BY <1>0, <2>1, <2>8
    <3>2. SeqOf(q, begun[q])' = SeqOf(q, begun[q])
      BY <1>0, <2>1, <3>1 DEF SeqOf
    <3>3. Id(WriterId[q], SeqOf(q, begun[q])) \in bodies
      BY <2>8, <3>1 DEF BodiesKept
    <3>4. begun[q] \in Nat /\ begun[q] >= 1
      BY <1>0, <2>8, <3>1 DEF Txns, Phases, TypeOK, StoresBodies
    <3>5. Reached(q) = SeqOf(q, begun[q]) /\ Reached(q) <= batches * BatchRows
      BY <2>8, <3>1, <3>4 DEF Reached, Ahead, Running
    <3>6. PICK x \in Nat : x = Reached(q)
      BY <1>0, ReachedNat
    <3>7. PICK v \in Nat : v = WriterId[q]
      BY IngestionAssumption
    <3>8. x < WriterStride
      BY <1>0, <3>5, <3>6, Within
    <3>9. v # w
      BY <2>3, <3>1, <3>7, IdRangesAssumption
    <3>10. Id(v, x) \notin WriterRange(w)
      BY <3>8, <3>9, RangesApart
    <3> QED  BY <2>1, <2>6, <3>2, <3>3, <3>5, <3>6, <3>7, <3>10
  <2> QED  BY <2>1, <2>2, <2>7, <2>8 DEF BodiesKept
<1> QED  BY <1>0, <1>1, <1>2, <1>3, <1>4, Steps
----------------------------------------------------------------------------
(* Every step keeps the parents.                                           *)
LEMMA NextParents == Txns /\ Parents /\ [Next]_vars => Parents'
<1> SUFFICES ASSUME Txns, Parents, [Next]_vars PROVE Parents'
  OBVIOUS
<1>0. /\ TypeOK
      /\ pending = [q \in Procs |-> pending[q]]
  BY DEF Txns, OwnBatch
<1> USE DEF dbVars, diskVars, txnVars, procVars, boundVars
<1>1. ASSUME NEW p \in Procs, NEW new, committed' = committed,
             pending' = [pending EXCEPT ![p] = @ \cup new],
             \A r \in new : ~Orphan(p, r)
      PROVE  Parents'
  <2>1. \A r \in pending'[p] : r.refs \subseteq Names(committed \cup pending'[p])
    <3>1. \A r \in new : r.refs \subseteq Names(committed \cup pending[p])
      BY <1>1 DEF Orphan, Visible, Names
    <3>2. \A r \in pending[p] : r.refs \subseteq Names(committed \cup pending[p])
      BY DEF Parents
    <3>3. pending'[p] = pending[p] \cup new
      BY <1>0, <1>1
    <3>4. Names(committed \cup pending[p]) \subseteq Names(committed \cup pending'[p])
      BY <3>3 DEF Names
    <3> QED  BY <3>1, <3>2, <3>3, <3>4
  <2>2. \A q \in Procs \ {p} : pending'[q] = pending[q]
    BY <1>0, <1>1
  <2> QED  BY <1>1, <2>1, <2>2 DEF Parents
<1>2. ASSUME NEW p \in Procs, Execute(p) PROVE Parents'
  <2>1. \A r \in Head(todo[p]) : ~Orphan(p, r)
    BY <1>2 DEF Execute, Unexpected
  <2> QED  BY <1>1, <1>2, <2>1 DEF Execute
<1>3. ASSUME NEW p \in Procs, AppendObservation(p) PROVE Parents'
  <2> DEFINE r == NextRow(p)
  <2>1. /\ committed' = committed /\ ~Orphan(p, r)
        /\ pending' = [pending EXCEPT ![p] = @ \cup {r}]
    BY <1>3 DEF AppendObservation
  <2> HIDE DEF r
  <2>2. PICK new : new = {r}
    OBVIOUS
  <2>3. /\ pending' = [pending EXCEPT ![p] = @ \cup new]
        /\ \A s \in new : ~Orphan(p, s)
    BY <2>1, <2>2
  <2> QED  BY <1>1, <2>1, <2>3
<1>4. ASSUME NEW p \in Procs, BulkDuplicate(p) PROVE Parents'
  <2>1. /\ committed' = committed /\ pending' = [pending EXCEPT ![p] = @ \ bulk[p]]
        /\ pc[p] = "txn"
    BY <1>4 DEF BulkDuplicate, Connected
  <2>2. pending'[p] = pending[p] \ bulk[p]
    BY <1>0, <2>1
  <2>3. ASSUME NEW r \in pending'[p], NEW n \in r.refs
        PROVE  n \in Names(committed \cup pending'[p])
    <3>1. n \in Names(committed \cup pending[p])
      BY <2>2, <2>3 DEF Parents
    <3>2. r \in OwnRows(p)
      BY <2>1, <2>2, <2>3 DEF Txns, OwnBatch
    <3>3. n[1] # "price_observation"
      BY <2>1, <2>3, <3>2, OwnShapes DEF OwnShape, Shaped, Txns
    <3>4. PICK s \in committed \cup pending[p] : n = Name(s)
      BY <3>1 DEF Names
    <3>5. s.table # "price_observation"
      BY <3>3, <3>4 DEF Name
    <3>6. s \notin bulk[p]
      BY <3>5 DEF Txns, BulkObserves
    <3> QED  BY <2>2, <3>4, <3>6 DEF Names
  <2>4. \A q \in Procs \ {p} : pending'[q] = pending[q]
    BY <1>0, <2>1
  <2> QED  BY <2>1, <2>3, <2>4 DEF Parents
<1>5. ASSUME NEW p \in Procs,
             Refuse(p) \/ WaitTimeout(p) \/ LostConnection(p) \/ KillClient(p)
      PROVE  Parents'
  <2>1. committed' = committed /\ pending' = [pending EXCEPT ![p] = {}]
    BY <1>5 DEF Refuse, WaitTimeout, LostConnection, KillClient, Raise
  <2>2. pending'[p] = {} /\ \A q \in Procs \ {p} : pending'[q] = pending[q]
    BY <1>0, <2>1
  <2> QED  BY <2>1, <2>2 DEF Parents
(* Transactions that become durable.                                       *)
<1>6. ASSUME NEW done, Commits(done),
             \A q \in Procs : pending'[q] = {} \/ pending'[q] = pending[q]
      PROVE  Parents'
  <2>1. Names(committed) \subseteq Names(committed')
    BY <1>6 DEF Commits, Names
  <2>2. ASSUME NEW q \in done, NEW r \in pending[q]
        PROVE  Shaped(r) /\ r.refs \subseteq Names(committed')
    <3>1. q \in Procs /\ pc[q] = "txn"
      BY <1>6, <2>2 DEF Commits
    <3>2. r \in OwnRows(q)
      BY <2>2, <3>1 DEF Txns, OwnBatch
    <3>3. Shaped(r)
      BY <3>1, <3>2, OwnShapes DEF OwnShape, Txns
    <3>4. committed \cup pending[q] \subseteq committed'
      BY <1>6, <2>2 DEF Commits
    <3>5. r.refs \subseteq Names(committed \cup pending[q])
      BY <2>2, <3>1 DEF Parents
    <3>6. Names(committed \cup pending[q]) \subseteq Names(committed')
      BY <3>4 DEF Names
    <3> QED  BY <3>3, <3>5, <3>6
  <2>3. \A r \in committed' : Shaped(r) /\ r.refs \subseteq Names(committed')
    BY <1>6, <2>1, <2>2 DEF Parents, Commits
  <2>4. ASSUME NEW q \in Procs, NEW r \in pending'[q]
        PROVE  r.refs \subseteq Names(committed' \cup pending'[q])
    <3>1. pending'[q] = pending[q]
      BY <1>6, <2>4
    <3>2. r.refs \subseteq Names(committed \cup pending[q])
      BY <2>4, <3>1 DEF Parents
    <3>3. Names(committed \cup pending[q]) \subseteq Names(committed' \cup pending'[q])
      BY <1>6, <3>1 DEF Commits, Names
    <3> QED  BY <3>2, <3>3
  <2> QED  BY <2>3, <2>4 DEF Parents
<1>7. ASSUME NEW p \in Procs, Commit(p) PROVE Parents'
  <2>1. Commits({p})
    BY <1>7 DEF Commits, Commit, Connected
  <2>2. \A q \in Procs : pending'[q] = {} \/ pending'[q] = pending[q]
    BY <1>0, <1>7 DEF Commit
  <2> QED  BY <1>6, <2>1, <2>2
<1>8. ASSUME KillServer PROVE Parents'
  <2>1. PICK done \in SUBSET {p \in Procs : Connected(p) /\ todo[p] = <<>>} :
          committed' = committed \cup UNION {pending[p] : p \in done}
    BY <1>8 DEF KillServer
  <2>2. Commits(done)
    BY <2>1 DEF Commits, Connected
  <2>3. \A q \in Procs : pending'[q] = {} \/ pending'[q] = pending[q]
    BY <1>8 DEF KillServer
  <2> QED  BY <1>6, <2>2, <2>3
<1>9. ASSUME UNCHANGED dbVars PROVE Parents'
  BY <1>9 DEF Parents
<1>10. ASSUME NEW p \in Procs,
              \/ Start(p) \/ BeginBody(p) \/ FinishBody(p) \/ BodyFails(p)
              \/ BeginReparse(p) \/ BeginProbe(p) \/ Finish(p)
              \/ DoNothing(p) \/ SkipDuplicate(p)
       PROVE  Parents'
  <2>1. UNCHANGED dbVars
    BY <1>10 DEF Start, BeginBody, FinishBody, BodyFails, BeginReparse,
                 BeginProbe, Finish, DoNothing, SkipDuplicate
  <2> QED  BY <1>9, <2>1
<1>11. ASSUME StartServer \/ UNCHANGED vars PROVE Parents'
  BY <1>9, <1>11 DEF StartServer, vars
<1> QED
  BY <1>2, <1>3, <1>4, <1>5, <1>7, <1>8, <1>10, <1>11 DEF Next, Transact
----------------------------------------------------------------------------
(* The inductive invariant of the store.                                   *)
IInv == Txns /\ Ahead /\ BodiesKept /\ Parents /\ IndexesHold

(* It holds at first.                                                      *)
LEMMA InitIInv == Init => IInv
  BY InitTxns, InitAhead, InitIndexes DEF IInv

(* Every step keeps it.                                                    *)
LEMMA NextIInv == IInv /\ [Next]_vars => IInv'
  BY NextTxns, NextAhead, NextBodiesKept, NextParents, NextIndexes DEF IInv

(* It holds in every state.                                                *)
LEMMA IInvHolds == Spec => []IInv
  BY InitIInv, NextIInv, PTL DEF Spec

(* Types and bounds of the writers; a body is never stored and torn at once. *)
THEOREM WritersTyped == Spec => []TypeOK
<1>1. IInv => TypeOK
  BY DEF IInv, Txns
<1> QED  BY <1>1, IInvHolds, PTL

(* A committed artifact row has its whole body on disk: every writer stays *)
(* in the range of its id and continues it behind every run committed there, *)
(* so the body it writes over is never one that a committed row points at. *)
THEOREM BodiesStored == Spec => []ArtifactBodiesStored
<1>1. IInv => ArtifactBodiesStored
  BY DEF IInv, BodiesKept, ArtifactBodiesStored
<1> QED  BY <1>1, IInvHolds, PTL

(* No committed row names a parent that is not committed.                  *)
ParentsCommitted == \A r \in committed : r.refs \subseteq Names(committed)

(* The server never keeps a row without the rows it refers to.             *)
THEOREM NoOrphans == Spec => []ParentsCommitted
<1>1. IInv => ParentsCommitted
  BY DEF IInv, Parents, ParentsCommitted
<1> QED  BY <1>1, IInvHolds, PTL
----------------------------------------------------------------------------
(* What a committed observation says of its artifact.                      *)
LEMMA ObservedArtifact ==
  ASSUME Parents, NEW r \in Observations
  PROVE  ArtifactOf(r) \in Artifacts /\ \E k : r.keys = {k}
<1>1. r \in committed /\ Shaped(r) /\ r.refs \subseteq Names(committed)
  BY DEF Parents, Observations
<1>2. PICK c, a, k : r = Observation(r.id, c, a, k)
  BY <1>1 DEF Shaped, Observations
<1>3. /\ r.refs = {<<"observation_candidate", c>>, <<"raw_artifact", a>>}
      /\ r.keys = {k}
  BY <1>2 DEF Observation, Row
<1>4. PICK x, y : x = <<"observation_candidate", c>> /\ y = <<"raw_artifact", a>>
  OBVIOUS
<1>5. {ref[2] : ref \in {n \in r.refs : n[1] = "raw_artifact"}} = {a}
  <2>1. r.refs = {x, y} /\ x[1] = "observation_candidate" /\ y[1] = "raw_artifact" /\ y[2] = a
    BY <1>3, <1>4
  <2>2. {n \in r.refs : n[1] = "raw_artifact"} = {y}
    BY <2>1
  <2> QED  BY <2>1, <2>2
<1>6. ArtifactOf(r) = a
  BY <1>5 DEF ArtifactOf
<1>7. <<"raw_artifact", a>> \in Names(committed)
  BY <1>1, <1>3
<1>8. \E s \in committed : s.table = "raw_artifact" /\ s.id = a
  BY <1>7, ParentName
<1> QED  BY <1>3, <1>6, <1>8 DEF Artifacts

(* The state the store shows keeps what ObservationStore promises.         *)
LEMMA StoreState ==
  IInv => Store!KeysConfirmedOnce /\ Store!ObservationsTraceable
<1> SUFFICES ASSUME IInv PROVE Store!KeysConfirmedOnce /\ Store!ObservationsTraceable
  OBVIOUS
<1>1. ASSUME NEW r \in Observations, NEW s \in Observations, r.keys = s.keys
      PROVE  r = s
  <2>1. Clash(r, s)
    BY <1>1, ObservedArtifact DEF Clash, IInv, Observations
  <2> QED  BY <2>1 DEF IInv, IndexesHold, AllDistinct, Rows, Observations
<1>2. Store!KeysConfirmedOnce
  BY <1>1 DEF Store!KeysConfirmedOnce
<1>3. Store!ObservationsTraceable
  BY ObservedArtifact DEF Store!ObservationsTraceable, IInv, BodiesKept
<1> QED  BY <1>2, <1>3

(* Every step confirms rows, stores a body, rewrites one, or does nothing  *)
(* the store shows.                                                        *)
LEMMA StoreStep ==
  ASSUME IInv, IInv', [Next]_vars,
         Store!KeysConfirmedOnce', Store!ObservationsTraceable'
  PROVE  [Store!Next]_(Store!storeVars)
<1>0. TypeOK
  BY DEF IInv, Txns
<1>1. ASSUME NEW done, Quiet(done) PROVE Store!Next
  <2>1. committed \subseteq committed' /\ bodies' = bodies
    BY <1>1 DEF Quiet, Commits
  <2>2. Observations \subseteq Observations' /\ Artifacts \subseteq Artifacts'
    BY <2>1 DEF Observations, Artifacts
  <2>3. Store!Confirm
    BY <2>1, <2>2 DEF Store!Confirm, Store!KeysConfirmedOnce, Store!ObservationsTraceable
  <2> QED  BY <2>3 DEF Store!Next
<1>2. ASSUME NEW p \in Procs, Start(p) PROVE UNCHANGED Store!storeVars
  <2>1. UNCHANGED <<committed, bodies>>
    BY <1>2 DEF Start, dbVars, diskVars
  <2> QED  BY <2>1 DEF Store!storeVars, Observations, Artifacts, ArtifactOf
<1>3. ASSUME NEW p \in Procs, FinishBody(p) PROVE Store!Next
  <2>1. committed' = committed /\ bodies \subseteq bodies'
    BY <1>3 DEF FinishBody, dbVars
  <2>2. Observations' = Observations /\ Artifacts' = Artifacts
    BY <2>1 DEF Observations, Artifacts
  <2>3. Store!StoreBody
    BY <2>1, <2>2 DEF Store!StoreBody, ArtifactOf
  <2> QED  BY <2>3 DEF Store!Next
<1>4. ASSUME NEW p \in Procs, BeginBody(p) PROVE Store!Next
  <2>1. committed' = committed /\ bodies' \subseteq bodies
    BY <1>4 DEF BeginBody, dbVars
  <2>2. Observations' = Observations /\ Artifacts' = Artifacts
    BY <2>1 DEF Observations, Artifacts
  <2>3. Artifacts \subseteq bodies'
    BY <2>2 DEF IInv, BodiesKept
  <2>4. Store!RewriteBody
    BY <2>1, <2>2, <2>3 DEF Store!RewriteBody, ArtifactOf
  <2> QED  BY <2>4 DEF Store!Next
<1> QED  BY <1>0, <1>1, <1>2, <1>3, <1>4, Steps

(* The write path implements the observation store.                        *)
THEOREM WritersImplementStore == Spec => ImplementsStore
<1>1. Init => Store!Init
  BY InitIInv, StoreState DEF Store!Init
<1>2. IInv /\ IInv' /\ [Next]_vars /\ Store!KeysConfirmedOnce' /\ Store!ObservationsTraceable'
        => [Store!Next]_(Store!storeVars)
  BY StoreStep
<1>3. IInv => Store!KeysConfirmedOnce /\ Store!ObservationsTraceable
  BY StoreState
<1> QED  BY <1>1, <1>2, <1>3, IInvHolds, PTL DEF Spec, ImplementsStore, Store!Spec
----------------------------------------------------------------------------
(* What the writers have committed keeps what the store promises, whoever   *)
(* was killed at whatever statement: no two observations with one key, each *)
(* of an artifact that is committed, and the body of each of those on disk  *)
(* (insert_observations, write_batch, build_batch).                         *)
THEOREM PromisesKept == Spec => [](Store!KeysConfirmedOnce /\ Store!ObservationsTraceable)
<1>1. IInv => Store!KeysConfirmedOnce /\ Store!ObservationsTraceable
  BY StoreState
<1> QED  BY <1>1, IInvHolds, PTL
----------------------------------------------------------------------------
(* The tables in the order in which a batch is written.                    *)
WriteOrder ==
  [ingest_run |-> 1, raw_artifact |-> 2, processing_run |-> 3, extracted_record |-> 4,
   observation_candidate |-> 5, identity_resolution_attempt |-> 6,
   price_observation |-> 7, review_item |-> 8]

(* How far down the order a row comes.                                     *)
Rank(r) == WriteOrder[r.table]

(* The rows that a transaction has not come to yet.                        *)
LeftRows(p) == AllRows(todo[p])

(* The transaction may still commit: the server has not dropped it.        *)
Active(p) == pc[p] = "txn" /\ p \notin stale

(* The key of an observation is confirmed.                                 *)
Confirmed(r) ==
  /\ r.table = "price_observation"
  /\ \E s \in committed : s.table = "price_observation" /\ s.keys = r.keys

(* Statements that follow the order of the tables, one table in each.      *)
InOrder(statements) ==
  \A i, j \in 1 .. Len(statements) : \A r \in statements[i], s \in statements[j] :
    /\ i < j => Rank(r) < Rank(s)
    /\ i = j => r.table = s.table

(* A transaction that may commit has inserted every row of its batch that  *)
(* it has not left over, but for the observations whose keys others have   *)
(* confirmed; these are all the observations of a reparse.                 *)
ProgressPart(p) ==
  Active(p) =>
    /\ InOrder(todo[p])
    /\ LeftRows(p) \cap pending[p] = {}
    /\ \A r \in OwnRows(p) : r \in LeftRows(p) \/ r \in pending[p] \/ Confirmed(r)
    /\ Kind[p] = "reparse" => \A r \in pending[p] : r.table # "price_observation"

(* This holds of every transaction.                                        *)
Progress == \A p \in Procs : ProgressPart(p)

(* Where a committed row comes from.                                       *)
Origin(r) ==
  \/ r \in SeedAll
  \/ \E p \in Procs :
       \/ /\ StoresBodies(p)
          /\ \E s \in 1 .. MaxBatches * BatchRows :
               /\ Id(WriterId[p], s) \in RunIds
               /\ r \in AllRows(BatchStatements(WriterId[p], s, RowsOf(p)))
       \/ /\ Kind[p] = "reparse"
          /\ \E k \in 1 .. SeedArtifacts :
               r \in AllRows(ReparseStatements(k - 1, WriterId[p], k))
       \/ /\ Kind[p] = "probe"
          /\ r \in AllRows(ProbeStatements(Id(WriterId[p], 1), ProbeKey))

(* The bulk load is there, and every other row is of some writer's batch.   *)
Origins == SeedAll \subseteq committed /\ \A r \in committed : Origin(r)

(* The batch a writer has begun is behind every run committed in its range. *)
Unused ==
  \A p \in Procs : StoresBodies(p) /\ pc[p] \in {"body", "txn"} /\ p \notin stale =>
    \A id \in HeaderIds \cap WriterRange(WriterId[p]) : id < Id(WriterId[p], Reached(p))

(* A reparse starts at the beginning of its range, as it leaves no run     *)
(* there, and takes one artifact after the other.                          *)
ReparseTurns ==
  \A p \in Procs : Kind[p] = "reparse" => seqStart[p] = 0 /\ begun[p] <= SeedArtifacts

(* A probe that is done finds the key confirmed.                           *)
ProbesDone ==
  \A p \in Procs : Kind[p] = "probe" /\ pc[p] = "done" =>
    \E o \in Observations : o.keys = {ProbeKey}

(* How far transactions, reparses and probes have come, and from where.     *)
CInv == Progress /\ Origins /\ Unused /\ ReparseTurns /\ ProbesDone
----------------------------------------------------------------------------
(* Where the ids of a batch's rows lie, counted from the start of a range. *)
Low(table, s) ==
  IF table \in {"ingest_run", "raw_artifact", "processing_run"} THEN s
  ELSE IF table = "identity_resolution_attempt" THEN 2 * (s * RecordsPerRun)
  ELSE s * RecordsPerRun

(* The ids of a batch begin where those of the one before end.             *)
LEMMA LowRises ==
  ASSUME NEW s \in Nat, NEW t \in Nat, s < t, NEW table
  PROVE  /\ Low(table, s) \in Nat /\ Low(table, s + 1) \in Nat /\ Low(table, t) \in Nat
         /\ Low(table, s + 1) <= Low(table, t)
<1>1. s * RecordsPerRun \in Nat /\ t * RecordsPerRun \in Nat
  BY BatchesAssumption
<1>2. (s + 1) * RecordsPerRun = s * RecordsPerRun + RecordsPerRun
  BY BatchesAssumption
<1>3. s * RecordsPerRun + RecordsPerRun <= t * RecordsPerRun
  BY Apart, BatchesAssumption
<1>4. PICK x \in Nat, y \in Nat, n \in Nat :
        x = s * RecordsPerRun /\ y = t * RecordsPerRun /\ n = RecordsPerRun
  BY <1>1, BatchesAssumption
<1> QED  BY <1>2, <1>3, <1>4 DEF Low

(* They stay within the range.                                             *)
LEMMA LowWithin ==
  ASSUME NEW s \in Nat, s <= MaxBatches * BatchRows \/ s <= SeedArtifacts, NEW table
  PROVE  Low(table, s + 1) \in Nat /\ Low(table, s + 1) < WriterStride
<1> USE BatchesAssumption, IngestionAssumption
<1>1. PICK m \in Nat : /\ s <= m
                       /\ 2 * RecordsPerRun * (m + 1) < WriterStride
  <2>1. MaxBatches * BatchRows \in Nat
    OBVIOUS
  <2> QED  BY <2>1, IdRangesAssumption
<1>2. PICK d \in Nat : m = s + d
  <2>1. m - s \in Nat /\ m = s + (m - s)
    BY <1>1
  <2> QED  BY <2>1
<1>3. 2 * RecordsPerRun * (m + 1) = 2 * ((s + 1) * RecordsPerRun) + 2 * (d * RecordsPerRun)
  BY <1>2
<1>4. (s + 1) * RecordsPerRun \in Nat /\ d * RecordsPerRun \in Nat
  OBVIOUS
<1>5. s + 1 <= RecordsPerRun * (s + 1)
  BY Multiple
<1>6. RecordsPerRun * (s + 1) = (s + 1) * RecordsPerRun
  OBVIOUS
<1>7. PICK x \in Nat, y \in Nat : x = (s + 1) * RecordsPerRun /\ y = d * RecordsPerRun
  BY <1>4
<1>8. 2 * x + 2 * y < WriterStride /\ s + 1 <= x
  BY <1>1, <1>3, <1>5, <1>6, <1>7
<1>9. Low(table, s + 1) \in {s + 1, 2 * x, x}
  BY <1>7 DEF Low
<1> QED  BY <1>8, <1>9

(* An id of a row that lies in the s-th part of a writer's range.          *)
Home(r, w, s) ==
  \E d \in Nat : r.id = Id(w, d) /\ Low(r.table, s) <= d /\ d < Low(r.table, s + 1)

(* Rows in different parts have different ids.                             *)
LEMMA HomesApart ==
  ASSUME NEW w \in Nat, NEW s \in Nat, NEW t \in Nat, s # t,
         NEW r, NEW q, Home(r, w, s), Home(q, w, t), r.table = q.table
  PROVE  r.id # q.id
<1>1. PICK d \in Nat : r.id = Id(w, d) /\ Low(r.table, s) <= d /\ d < Low(r.table, s + 1)
  BY DEF Home
<1>2. PICK e \in Nat : q.id = Id(w, e) /\ Low(r.table, t) <= e /\ e < Low(r.table, t + 1)
  BY DEF Home
<1>3. d # e
  <2>1. CASE s < t
    BY <1>1, <1>2, <2>1, LowRises
  <2>2. CASE t < s
    BY <1>1, <1>2, <2>2, LowRises
  <2> QED  BY <2>1, <2>2
<1>4. PICK x \in Nat : x = w * WriterStride
  BY BatchesAssumption
<1>5. r.id = x + d /\ q.id = x + e
  BY <1>1, <1>2, <1>4 DEF Id
<1>6. x + d # x + e
  BY <1>3
<1> QED  BY <1>5, <1>6

(* They are in the range of the writer.                                    *)
LEMMA HomeInRange ==
  ASSUME NEW w \in Nat, NEW s \in Nat, s <= MaxBatches * BatchRows \/ s <= SeedArtifacts,
         NEW r, Home(r, w, s)
  PROVE  r.id \in WriterRange(w)
<1>1. PICK d \in Nat : r.id = Id(w, d) /\ Low(r.table, s) <= d /\ d < Low(r.table, s + 1)
  BY DEF Home
<1>2. d < WriterStride
  BY <1>1, LowWithin, BatchesAssumption
<1> QED  BY <1>1, <1>2, InRange

(* Counters lie where the ids of a batch do.                               *)
LEMMA CounterHome ==
  ASSUME NEW s \in Nat, NEW rows \in Nat, rows <= RecordsPerRun, NEW c \in Counters(s, rows)
  PROVE  c \in Nat /\ s * RecordsPerRun <= c /\ c < (s + 1) * RecordsPerRun
<1>1. PICK i \in 0 .. rows - 1 : c = s * RecordsPerRun + i
  BY DEF Counters
<1>2. PICK x \in Nat, n \in Nat : x = s * RecordsPerRun /\ n = RecordsPerRun
  BY BatchesAssumption
<1>3. (s + 1) * RecordsPerRun = x + n
  BY <1>2
<1> QED  BY <1>1, <1>2, <1>3

(* What the ids and keys of a batch's rows are.                            *)
LEMMA BatchHome ==
  ASSUME NEW w \in Nat, NEW s \in Nat, NEW rows \in Nat, rows <= RecordsPerRun,
         NEW i, NEW r, NewRow(i, r, w, s, rows)
  PROVE  /\ Home(r, w, s)
         /\ \A x \in r.keys : \/ x[1] = Id(w, s) /\ Len(x) \in {2, 3}
                              \/ x[1] = r.id /\ r.table = "observation_candidate"
<1>1. CASE r.id = Id(w, s) /\ r.table \in {"ingest_run", "raw_artifact", "processing_run"}
  <2>1. Low(r.table, s) = s /\ Low(r.table, s + 1) = s + 1
    BY <1>1 DEF Low
  <2>2. Home(r, w, s)
    BY <1>1, <2>1 DEF Home
  <2>3. r.keys = {} \/ r.keys = {<<Id(w, s), "v1", 1>>}
    BY <1>1 DEF NewRow, Row, ProcessingRun, Record, Candidate, Attempt, Observation
  <2>4. <<Id(w, s), "v1", 1>>[1] = Id(w, s) /\ Len(<<Id(w, s), "v1", 1>>) = 3
    OBVIOUS
  <2> QED  BY <2>2, <2>3, <2>4
<1>2. ASSUME NEW c \in Counters(s, rows),
             r.id = Id(w, c),
             r.table \notin {"ingest_run", "raw_artifact", "processing_run",
                            "identity_resolution_attempt"}
      PROVE  Home(r, w, s)
  <2>1. Low(r.table, s) = s * RecordsPerRun /\ Low(r.table, s + 1) = (s + 1) * RecordsPerRun
    BY <1>2 DEF Low
  <2> QED  BY <1>2, <2>1, CounterHome DEF Home
<1>3. ASSUME NEW c \in Counters(s, rows),
             r.id = Id(w, 2 * c) \/ r.id = Id(w, 2 * c + 1),
             r.table = "identity_resolution_attempt"
      PROVE  Home(r, w, s)
  <2>1. /\ Low(r.table, s) = 2 * (s * RecordsPerRun)
        /\ Low(r.table, s + 1) = 2 * ((s + 1) * RecordsPerRun)
    BY <1>3 DEF Low
  <2>2. PICK x \in Nat, y \in Nat : x = s * RecordsPerRun /\ y = (s + 1) * RecordsPerRun
    BY BatchesAssumption
  <2>3. c \in Nat /\ x <= c /\ c < y
    BY <2>2, CounterHome
  <2>4. /\ 2 * c \in Nat /\ 2 * c + 1 \in Nat
        /\ 2 * x <= 2 * c /\ 2 * c < 2 * y /\ 2 * x <= 2 * c + 1 /\ 2 * c + 1 < 2 * y
    BY <2>3
  <2> QED  BY <1>3, <2>1, <2>2, <2>4 DEF Home
<1>4. CASE \E c \in Counters(s, rows) : r = Record(Id(w, c), Id(w, s), Id(w, s))
  BY <1>2, <1>4 DEF Record, Row
<1>5. CASE \E c \in Counters(s, rows) : r = Candidate(Id(w, c), "v1")
  <2>1. PICK c \in Counters(s, rows) : r = Candidate(Id(w, c), "v1")
    BY <1>5
  <2>2. /\ r.id = Id(w, c) /\ r.table = "observation_candidate"
        /\ r.keys = {<<Id(w, c), "v1">>}
    BY <2>1 DEF Candidate, Row
  <2> QED  BY <1>2, <2>2
<1>6. CASE \E c \in Counters(s, rows) :
             \/ r = Attempt(Id(w, 2 * c), Id(w, c))
             \/ r = Attempt(Id(w, 2 * c + 1), Id(w, c))
  BY <1>3, <1>6 DEF Attempt, Row
<1>7. CASE \E c \in Counters(s, rows) :
             r = Observation(Id(w, c), Id(w, c), Id(w, s),
                   IdempotencyKey(Id(w, s), c - s * RecordsPerRun))
  <2>1. PICK c \in Counters(s, rows) :
          r = Observation(Id(w, c), Id(w, c), Id(w, s),
                IdempotencyKey(Id(w, s), c - s * RecordsPerRun))
    BY <1>7
  <2>2. /\ r.id = Id(w, c) /\ r.table = "price_observation"
        /\ r.keys = {<<Id(w, s), c - s * RecordsPerRun>>}
    BY <2>1 DEF Observation, Row, IdempotencyKey
  <2>3. Home(r, w, s)
    BY <1>2, <2>2
  <2>4. PICK i1 : r.keys = {<<Id(w, s), i1>>}
    BY <2>2
  <2>5. <<Id(w, s), i1>>[1] = Id(w, s) /\ Len(<<Id(w, s), i1>>) = 2
    OBVIOUS
  <2> QED  BY <2>3, <2>4, <2>5
<1>8. CASE \E c \in Counters(s, rows) :
             r = Row("review_item", Id(w, c),
                   {<<"ingest_run", Id(w, s)>>, <<"raw_artifact", Id(w, s)>>,
                    <<"extracted_record", Id(w, c)>>}, {})
  BY <1>2, <1>8 DEF Row
<1>9. CASE \/ r = Row("ingest_run", Id(w, s), {}, {})
           \/ r = Row("raw_artifact", Id(w, s), {<<"ingest_run", Id(w, s)>>}, {})
           \/ r = ProcessingRun(Id(w, s), Id(w, s), "v1", 1)
  BY <1>1, <1>9 DEF Row, ProcessingRun
<1> QED  BY <1>4, <1>5, <1>6, <1>7, <1>8, <1>9 DEF NewRow

(* No two rows of a batch clash.                                           *)
LEMMA BatchDistinct ==
  ASSUME NEW w \in Nat, NEW s \in Nat, NEW rows \in Nat, rows <= RecordsPerRun,
         NEW i, NEW r, NewRow(i, r, w, s, rows),
         NEW j, NEW q, NewRow(j, q, w, s, rows), Clash(r, q)
  PROVE  r = q
<1>0. r.table = q.table /\ (r.id = q.id \/ r.keys \cap q.keys # {})
  BY DEF Clash
<1>n. ASSUME NEW c \in Counters(s, rows), NEW d \in Counters(s, rows)
      PROVE  /\ Id(w, c) = Id(w, d) => c = d
             /\ Id(w, 2 * c) = Id(w, 2 * d) => c = d
             /\ Id(w, 2 * c + 1) = Id(w, 2 * d + 1) => c = d
             /\ Id(w, 2 * c) # Id(w, 2 * d + 1)
             /\ Id(w, 2 * c + 1) # Id(w, 2 * d)
             /\ c - s * RecordsPerRun = d - s * RecordsPerRun => c = d
  <2>1. PICK x \in Nat, y \in Nat : x = w * WriterStride /\ y = s * RecordsPerRun
    BY BatchesAssumption
  <2>2. c \in Nat /\ d \in Nat
    BY CounterHome
  <2> QED  BY <2>1, <2>2 DEF Id
<1> USE DEF Row, ProcessingRun, Record, Candidate, Attempt, Observation
<1>t. r.table = q.table
  BY <1>0
<1>1. CASE r.table \in {"ingest_run", "raw_artifact", "processing_run"}
  <2>0. q.table \in {"ingest_run", "raw_artifact", "processing_run"}
    BY <1>t, <1>1
  <2>1. CASE r.table = "ingest_run"
    <3>1. q.table = "ingest_run"
      BY <1>t, <2>1
    <3>2. r = Row("ingest_run", Id(w, s), {}, {})
      BY <2>1 DEF NewRow
    <3>3. q = Row("ingest_run", Id(w, s), {}, {})
      BY <3>1 DEF NewRow
    <3> QED  BY <3>2, <3>3
  <2>2. CASE r.table = "raw_artifact"
    <3>1. q.table = "raw_artifact"
      BY <1>t, <2>2
    <3>2. r = Row("raw_artifact", Id(w, s), {<<"ingest_run", Id(w, s)>>}, {})
      BY <2>2 DEF NewRow
    <3>3. q = Row("raw_artifact", Id(w, s), {<<"ingest_run", Id(w, s)>>}, {})
      BY <3>1 DEF NewRow
    <3> QED  BY <3>2, <3>3
  <2>3. CASE r.table = "processing_run"
    <3>1. q.table = "processing_run"
      BY <1>t, <2>3
    <3>2. r = ProcessingRun(Id(w, s), Id(w, s), "v1", 1)
      BY <2>3 DEF NewRow
    <3>3. q = ProcessingRun(Id(w, s), Id(w, s), "v1", 1)
      BY <3>1 DEF NewRow
    <3> QED  BY <3>2, <3>3
  <2> QED  BY <1>1, <2>1, <2>2, <2>3
<1>2. CASE r.table = "extracted_record"
  <2>0. q.table = "extracted_record"
    BY <1>t, <1>2
  <2>1. PICK c \in Counters(s, rows) : r = Record(Id(w, c), Id(w, s), Id(w, s))
    BY <1>2 DEF NewRow
  <2>2. PICK d \in Counters(s, rows) : q = Record(Id(w, d), Id(w, s), Id(w, s))
    BY <2>0 DEF NewRow
  <2>3. r.id = q.id
    BY <1>0, <2>1, <2>2
  <2>4. Id(w, c) = Id(w, d)
    BY <2>1, <2>2, <2>3
  <2> QED  BY <2>1, <2>2, <2>4
<1>3. CASE r.table = "observation_candidate"
  <2>0. q.table = "observation_candidate"
    BY <1>t, <1>3
  <2>1. PICK c \in Counters(s, rows) : r = Candidate(Id(w, c), "v1")
    BY <1>3 DEF NewRow
  <2>2. PICK d \in Counters(s, rows) : q = Candidate(Id(w, d), "v1")
    BY <2>0 DEF NewRow
  <2>3. Id(w, c) = Id(w, d)
    BY <1>0, <2>1, <2>2
  <2> QED  BY <2>1, <2>2, <2>3
<1>4. CASE r.table = "identity_resolution_attempt"
  <2>0. q.table = "identity_resolution_attempt"
    BY <1>t, <1>4
  <2>1. PICK c \in Counters(s, rows) :
          r = Attempt(Id(w, 2 * c), Id(w, c)) \/ r = Attempt(Id(w, 2 * c + 1), Id(w, c))
    BY <1>4 DEF NewRow
  <2>2. PICK d \in Counters(s, rows) :
          q = Attempt(Id(w, 2 * d), Id(w, d)) \/ q = Attempt(Id(w, 2 * d + 1), Id(w, d))
    BY <2>0 DEF NewRow
  <2>3. r.id = q.id
    BY <1>0, <2>1, <2>2
  <2>4. c = d
    BY <1>n, <2>1, <2>2, <2>3
  <2>5. Id(w, 2 * c) # Id(w, 2 * c + 1)
    BY <1>n
  <2>6. CASE r = Attempt(Id(w, 2 * c), Id(w, c))
    <3>1. q # Attempt(Id(w, 2 * d + 1), Id(w, d))
      BY <2>3, <2>4, <2>5, <2>6
    <3> QED  BY <2>2, <2>4, <2>6, <3>1
  <2>7. CASE r = Attempt(Id(w, 2 * c + 1), Id(w, c))
    <3>1. q # Attempt(Id(w, 2 * d), Id(w, d))
      BY <2>3, <2>4, <2>5, <2>7
    <3> QED  BY <2>2, <2>4, <2>7, <3>1
  <2> QED  BY <2>1, <2>6, <2>7
<1>5. CASE r.table = "price_observation"
  <2>0. q.table = "price_observation"
    BY <1>t, <1>5
  <2>1. PICK c \in Counters(s, rows) :
          r = Observation(Id(w, c), Id(w, c), Id(w, s),
                IdempotencyKey(Id(w, s), c - s * RecordsPerRun))
    BY <1>5 DEF NewRow
  <2>2. PICK d \in Counters(s, rows) :
          q = Observation(Id(w, d), Id(w, d), Id(w, s),
                IdempotencyKey(Id(w, s), d - s * RecordsPerRun))
    BY <2>0 DEF NewRow
  <2>3. \/ Id(w, c) = Id(w, d)
        \/ c - s * RecordsPerRun = d - s * RecordsPerRun
    BY <1>0, <2>1, <2>2 DEF IdempotencyKey
  <2>4. c = d
    BY <1>n, <2>3
  <2> QED  BY <2>1, <2>2, <2>4
<1>6. CASE r.table = "review_item"
  <2>0. q.table = "review_item"
    BY <1>t, <1>6
  <2>1. PICK c \in Counters(s, rows) :
          r = Row("review_item", Id(w, c),
                {<<"ingest_run", Id(w, s)>>, <<"raw_artifact", Id(w, s)>>,
                 <<"extracted_record", Id(w, c)>>}, {})
    BY <1>6 DEF NewRow
  <2>2. PICK d \in Counters(s, rows) :
          q = Row("review_item", Id(w, d),
                {<<"ingest_run", Id(w, s)>>, <<"raw_artifact", Id(w, s)>>,
                 <<"extracted_record", Id(w, d)>>}, {})
    BY <2>0 DEF NewRow
  <2>3. Id(w, c) = Id(w, d)
    BY <1>0, <2>1, <2>2
  <2>4. c = d
    BY <1>n, <2>3
  <2> QED  BY <2>1, <2>2, <2>4
<1> QED  BY <1>1, <1>2, <1>3, <1>4, <1>5, <1>6 DEF NewRow
----------------------------------------------------------------------------
(* A row that holds nothing of the range of a writer: neither its id nor   *)
(* the first part of a key of its.                                         *)
Foreign(r, w) ==
  /\ r.id \notin WriterRange(w)
  /\ \A x \in r.keys : x[1] \notin WriterRange(w) \/ Len(x) = 1

(* A row of a batch clashes with no such row.                              *)
LEMMA BatchAndForeign ==
  ASSUME NEW w \in Nat, NEW s \in Nat, s <= MaxBatches * BatchRows, NEW rows \in Nat,
         rows <= RecordsPerRun,
         NEW i, NEW r, NewRow(i, r, w, s, rows), NEW q, Foreign(q, w)
  PROVE  ~ Clash(r, q)
<1> SUFFICES ASSUME Clash(r, q) PROVE FALSE
  OBVIOUS
<1>0. r.table = q.table /\ (r.id = q.id \/ r.keys \cap q.keys # {})
  BY DEF Clash
<1>1. Home(r, w, s)
  BY BatchHome
<1>2. r.id \in WriterRange(w)
  BY <1>1, HomeInRange
<1>3. s < WriterStride
  <2>1. MaxBatches * BatchRows \in Nat /\ MaxBatches * BatchRows < WriterStride
    BY Wide
  <2> QED  BY <2>1, BatchesAssumption
<1>4. Id(w, s) \in WriterRange(w)
  BY <1>3, InRange
<1>5. PICK x : x \in r.keys /\ x \in q.keys
  BY <1>0, <1>2 DEF Foreign
<1>6. x[1] \in WriterRange(w)
  BY <1>2, <1>4, <1>5, BatchHome
<1>7. Len(x) = 1
  BY <1>5, <1>6 DEF Foreign
<1>8. r.table = "observation_candidate" /\ x[1] = r.id
  BY <1>5, <1>7, BatchHome
<1>9. PICK c \in Counters(s, rows) : r = Candidate(Id(w, c), "v1")
  BY <1>8 DEF NewRow, Row, ProcessingRun, Record, Candidate, Attempt, Observation
<1>10. x = <<Id(w, c), "v1">>
  BY <1>5, <1>9 DEF Candidate, Row
<1> QED  BY <1>7, <1>10

(* Nor with a row of another batch in the range.                           *)
LEMMA BatchesApart ==
  ASSUME NEW w \in Nat, NEW s \in Nat, NEW t \in Nat, s # t, NEW rows \in Nat,
         rows <= RecordsPerRun,
         NEW i, NEW r, NewRow(i, r, w, s, rows),
         NEW j, NEW q, NewRow(j, q, w, t, rows)
  PROVE  ~ Clash(r, q)
<1> SUFFICES ASSUME Clash(r, q) PROVE FALSE
  OBVIOUS
<1>0. r.table = q.table /\ (r.id = q.id \/ r.keys \cap q.keys # {})
  BY DEF Clash
<1>1. r.id # q.id
  BY <1>0, BatchHome, HomesApart
<1>2. PICK x : x \in r.keys /\ x \in q.keys
  BY <1>0, <1>1
<1>3. Id(w, s) # Id(w, t)
  <2>1. PICK y \in Nat : y = w * WriterStride
    BY BatchesAssumption
  <2> QED  BY <2>1 DEF Id
<1>4. ASSUME r.table = "observation_candidate" PROVE FALSE
  <2>1. PICK c : r = Candidate(Id(w, c), "v1")
    BY <1>4 DEF NewRow, Row, ProcessingRun, Record, Candidate, Attempt, Observation
  <2>0. q.table = "observation_candidate"
    BY <1>0, <1>4
  <2>2. PICK d : q = Candidate(Id(w, d), "v1")
    BY <2>0 DEF NewRow, Row, ProcessingRun, Record, Candidate, Attempt, Observation
  <2>3. x = <<Id(w, c), "v1">> /\ x = <<Id(w, d), "v1">> /\ r.id = Id(w, c) /\ q.id = Id(w, d)
    BY <1>2, <2>1, <2>2 DEF Candidate, Row
  <2>4. Id(w, c) = Id(w, d)
    BY <2>3
  <2> QED  BY <1>1, <2>3, <2>4
<1>5. x[1] = Id(w, s)
  BY <1>2, <1>4, BatchHome
<1>6. x[1] = Id(w, t)
  BY <1>0, <1>2, <1>4, BatchHome
<1> QED  BY <1>3, <1>5, <1>6
----------------------------------------------------------------------------
(* Numbers below the stride are in no writer's range.                      *)
LEMMA BelowRanges ==
  ASSUME NEW w \in Nat \ {0}, NEW n \in Nat, n < WriterStride
  PROVE  n \notin WriterRange(w)
<1>1. WriterStride <= w * WriterStride /\ w * WriterStride \in Nat
  BY Multiple, BatchesAssumption
<1> QED  BY <1>1, BatchesAssumption DEF WriterRange, Id

(* No number is in two ranges.                                             *)
LEMMA RangesDisjoint ==
  ASSUME NEW v \in Nat, NEW w \in Nat, v # w, NEW n \in WriterRange(v)
  PROVE  n \notin WriterRange(w)
<1>1. PICK x \in Nat, y \in Nat : x = v * WriterStride /\ y = WriterStride
  BY BatchesAssumption
<1>2. n \in x .. x + (y - 1)
  BY <1>1 DEF WriterRange, Id
<1>3. PICK d \in Nat : n = x + d /\ d < y
  <2>1. n - x \in Nat /\ n = x + (n - x) /\ n - x < y
    BY <1>1, <1>2
  <2> QED  BY <2>1
<1>4. n = Id(v, d) /\ d < WriterStride
  BY <1>1, <1>3 DEF Id
<1> QED  BY <1>4, RangesApart

(* The rows of the bulk load hold nothing of a writer's range.             *)
LEMMA SeedForeign ==
  ASSUME NEW w \in Nat \ {0}, NEW r \in SeedAll
  PROVE  Foreign(r, w)
<1>1. PICK k \in 0 .. SeedArtifacts - 1 : r \in SeedRows(k)
  BY DEF SeedAll
<1>2. k \in Nat /\ k + 1 \in Nat /\ k + 1 <= SeedArtifacts
  BY BatchesAssumption
<1>3. k < WriterStride /\ k + 1 < WriterStride
  BY <1>2, Wide, BatchesAssumption
<1>4. ASSUME NEW c \in SeedNumbers(k)
      PROVE  /\ c + 1 \in Nat /\ c + 1 < WriterStride
             /\ 2 * c + 1 \in Nat /\ 2 * c + 1 < WriterStride
             /\ 2 * c + 2 \in Nat /\ 2 * c + 2 < WriterStride
  <2>1. PICK x \in Nat, n \in Nat : x = k * RecordsPerRun /\ n = RecordsPerRun
    BY <1>2, BatchesAssumption
  <2>2. PICK i \in 0 .. n - 1 : c = x + i
    BY <2>1 DEF SeedNumbers
  <2>3. (k + 1) * RecordsPerRun = x + n
    BY <1>2, <2>1, BatchesAssumption
  <2>4. Low("identity_resolution_attempt", k + 1) = 2 * (x + n)
    BY <2>3 DEF Low
  <2>5. 2 * (x + n) < WriterStride
    <3>1. k <= SeedArtifacts
      BY <1>2, BatchesAssumption
    <3> QED  BY <1>2, <2>4, <3>1, LowWithin
  <2>6. c \in Nat /\ c + 1 <= x + n
    BY <2>1, <2>2
  <2> QED  BY <2>1, <2>5, <2>6, BatchesAssumption
<1>5. \A n \in Nat : n < WriterStride => n \notin WriterRange(w)
  BY BelowRanges
<1> HIDE DEF Foreign
<1>6. CASE r = Row("ingest_run", k + 1, {}, {})
  <2>1. r.id = k + 1 /\ r.keys = {}
    BY <1>6 DEF Row
  <2> QED  BY <1>2, <1>3, <1>5, <2>1 DEF Foreign
<1>7. CASE r = Row("raw_artifact", k + 1, {<<"ingest_run", k + 1>>}, {})
  <2>1. r.id = k + 1 /\ r.keys = {}
    BY <1>7 DEF Row
  <2> QED  BY <1>2, <1>3, <1>5, <2>1 DEF Foreign
<1>8. CASE r = ProcessingRun(k + 1, k + 1, "v1", 1)
  <2>1. r.id = k + 1 /\ r.keys = {<<k + 1, "v1", 1>>}
    BY <1>8 DEF ProcessingRun, Row
  <2>2. <<k + 1, "v1", 1>>[1] = k + 1
    OBVIOUS
  <2> QED  BY <1>2, <1>3, <1>5, <2>1, <2>2 DEF Foreign
<1>9. ASSUME NEW c \in SeedNumbers(k),
             \/ r = Record(c + 1, k + 1, k + 1)
             \/ r = Attempt(2 * c + 1, c + 1)
             \/ r = Attempt(2 * c + 2, c + 1)
      PROVE  Foreign(r, w)
  <2>1. r.id \in {c + 1, 2 * c + 1, 2 * c + 2} /\ r.keys = {}
    BY <1>9 DEF Record, Attempt, Row
  <2>2. r.id \notin WriterRange(w)
    BY <1>4, <1>5, <2>1
  <2> QED  BY <2>1, <2>2 DEF Foreign
<1>10. ASSUME NEW c \in SeedNumbers(k), r = Candidate(c + 1, "v1")
       PROVE  Foreign(r, w)
  <2>1. r.id = c + 1 /\ r.keys = {<<c + 1, "v1">>}
    BY <1>10 DEF Candidate, Row
  <2>2. <<c + 1, "v1">>[1] = c + 1
    OBVIOUS
  <2>3. c + 1 \notin WriterRange(w)
    BY <1>4, <1>5
  <2> QED  BY <2>1, <2>2, <2>3 DEF Foreign
<1>11. ASSUME NEW c \in SeedNumbers(k),
              r = Observation(c + 1, c + 1, k + 1, IdempotencyKey(k, c - k * RecordsPerRun))
       PROVE  Foreign(r, w)
  <2>1. PICK n : n = c - k * RecordsPerRun
    OBVIOUS
  <2>2. r.id = c + 1 /\ r.keys = {<<k, n>>}
    BY <1>11, <2>1 DEF Observation, Row, IdempotencyKey
  <2>3. <<k, n>>[1] = k
    OBVIOUS
  <2>4. c + 1 \notin WriterRange(w) /\ k \notin WriterRange(w)
    BY <1>2, <1>3, <1>4, <1>5
  <2> QED  BY <2>2, <2>3, <2>4 DEF Foreign
<1> QED  BY <1>1, <1>2, <1>6, <1>7, <1>8, <1>9, <1>10, <1>11, SeedForms

(* Nor do those of another writer's batch.                                 *)
LEMMA BatchForeign ==
  ASSUME NEW v \in Nat, NEW w \in Nat, v # w, NEW s \in Nat, s <= MaxBatches * BatchRows,
         NEW rows \in Nat, rows <= RecordsPerRun, NEW i, NEW r, NewRow(i, r, v, s, rows)
  PROVE  Foreign(r, w)
<1>1. Home(r, v, s)
  BY BatchHome
<1>2. r.id \in WriterRange(v)
  BY <1>1, HomeInRange
<1>3. s < WriterStride
  <2>1. MaxBatches * BatchRows \in Nat /\ MaxBatches * BatchRows < WriterStride
    BY Wide
  <2> QED  BY <2>1, BatchesAssumption
<1>4. Id(v, s) \in WriterRange(v)
  BY <1>3, InRange
<1>5. r.id \notin WriterRange(w) /\ Id(v, s) \notin WriterRange(w)
  BY <1>2, <1>4, RangesDisjoint
<1>6. \A x \in r.keys : x[1] = Id(v, s) \/ x[1] = r.id
  BY BatchHome
<1> QED  BY <1>5, <1>6 DEF Foreign

(* The ids of a reparse lie where those of a batch do.                     *)
LEMMA ReparseHome ==
  ASSUME NEW v \in Nat, NEW s \in Nat, NEW k \in Nat, NEW i, NEW r, ReparsedRow(i, r, k, v, s)
  PROVE  Home(r, v, s)
<1>0. RecordsPerRun \in Nat /\ RecordsPerRun <= RecordsPerRun
  BY BatchesAssumption
<1>1. CASE r = ProcessingRun(Id(v, s), k + 1, "v2", 2)
  <2>1. r.id = Id(v, s) /\ r.table = "processing_run"
    BY <1>1 DEF ProcessingRun, Row
  <2>2. Low(r.table, s) = s /\ Low(r.table, s + 1) = s + 1
    BY <2>1 DEF Low
  <2> QED  BY <2>1, <2>2 DEF Home
<1>2. ASSUME NEW c \in Counters(s, RecordsPerRun), r.id = Id(v, c),
             r.table \in {"extracted_record", "observation_candidate", "price_observation"}
      PROVE  Home(r, v, s)
  <2>1. Low(r.table, s) = s * RecordsPerRun /\ Low(r.table, s + 1) = (s + 1) * RecordsPerRun
    BY <1>2 DEF Low
  <2> QED  BY <1>0, <1>2, <2>1, CounterHome DEF Home
<1>3. ASSUME NEW c \in Counters(s, RecordsPerRun), r = Attempt(Id(v, 2 * c), Id(v, c))
      PROVE  Home(r, v, s)
  <2>0. r.id = Id(v, 2 * c) /\ r.table = "identity_resolution_attempt"
    BY <1>3 DEF Attempt, Row
  <2>1. /\ Low(r.table, s) = 2 * (s * RecordsPerRun)
        /\ Low(r.table, s + 1) = 2 * ((s + 1) * RecordsPerRun)
    BY <2>0 DEF Low
  <2>2. PICK x \in Nat, y \in Nat : x = s * RecordsPerRun /\ y = (s + 1) * RecordsPerRun
    BY BatchesAssumption
  <2>3. c \in Nat /\ x <= c /\ c < y
    BY <1>0, <2>2, CounterHome
  <2>4. 2 * c \in Nat /\ 2 * x <= 2 * c /\ 2 * c < 2 * y
    BY <2>3
  <2> QED  BY <2>0, <2>1, <2>2, <2>4 DEF Home
<1>4. ASSUME NEW c \in Counters(s, RecordsPerRun),
             \/ r = Record(Id(v, c), Id(v, s), k + 1)
             \/ r = Candidate(Id(v, c), "v2")
             \/ r = Observation(Id(v, c), Id(v, c), k + 1,
                      IdempotencyKey(k, c - s * RecordsPerRun))
      PROVE  Home(r, v, s)
  BY <1>2, <1>4 DEF Record, Candidate, Observation, Row
<1> QED  BY <1>1, <1>3, <1>4 DEF ReparsedRow

(* Nor do those of a reparse.                                              *)
LEMMA ReparseForeign ==
  ASSUME NEW v \in Nat, NEW w \in Nat \ {0}, v # w,
         NEW s \in Nat, s <= SeedArtifacts, NEW k \in Nat, k < SeedArtifacts,
         NEW i, NEW r, ReparsedRow(i, r, k, v, s)
  PROVE  Foreign(r, w)
<1>1. r.id \in WriterRange(v)
  BY ReparseHome, HomeInRange
<1>2. r.id \notin WriterRange(w)
  BY <1>1, RangesDisjoint
<1>3. k \notin WriterRange(w) /\ k + 1 \notin WriterRange(w)
  BY BelowRanges, Wide, BatchesAssumption
<1>4. CASE r = ProcessingRun(Id(v, s), k + 1, "v2", 2)
  <2>1. r.keys = {<<k + 1, "v2", 2>>}
    BY <1>4 DEF ProcessingRun, Row
  <2>2. <<k + 1, "v2", 2>>[1] = k + 1
    OBVIOUS
  <2> QED  BY <1>2, <1>3, <2>1, <2>2 DEF Foreign
<1>5. ASSUME NEW c \in Counters(s, RecordsPerRun),
             r = Record(Id(v, c), Id(v, s), k + 1) \/ r = Attempt(Id(v, 2 * c), Id(v, c))
      PROVE  Foreign(r, w)
  <2>1. r.keys = {}
    BY <1>5 DEF Record, Attempt, Row
  <2> QED  BY <1>2, <2>1 DEF Foreign
<1>6. ASSUME NEW c \in Counters(s, RecordsPerRun), r = Candidate(Id(v, c), "v2")
      PROVE  Foreign(r, w)
  <2>1. r.id = Id(v, c) /\ r.keys = {<<Id(v, c), "v2">>}
    BY <1>6 DEF Candidate, Row
  <2>2. <<Id(v, c), "v2">>[1] = Id(v, c)
    OBVIOUS
  <2> QED  BY <1>2, <2>1, <2>2 DEF Foreign
<1>7. ASSUME NEW c \in Counters(s, RecordsPerRun),
             r = Observation(Id(v, c), Id(v, c), k + 1,
                   IdempotencyKey(k, c - s * RecordsPerRun))
      PROVE  Foreign(r, w)
  <2>1. PICK n : n = c - s * RecordsPerRun
    OBVIOUS
  <2>2. r.keys = {<<k, n>>}
    BY <1>7, <2>1 DEF Observation, Row, IdempotencyKey
  <2>3. <<k, n>>[1] = k
    OBVIOUS
  <2> QED  BY <1>2, <1>3, <2>2, <2>3 DEF Foreign
<1> QED  BY <1>4, <1>5, <1>6, <1>7 DEF ReparsedRow

(* Nor does the row of a probe.                                            *)
LEMMA ProbeForeign ==
  ASSUME NEW v \in Nat, NEW w \in Nat, v # w, NEW r, r = Observation(Id(v, 1), 1, 1, ProbeKey)
  PROVE  Foreign(r, w)
<1>1. r.id = Id(v, 1) /\ r.keys = {<<"probe">>}
  BY DEF Observation, Row, ProbeKey
<1>2. 1 < WriterStride
  <2>1. Low("ingest_run", 0 + 1) = 1
    BY DEF Low
  <2>2. 0 <= SeedArtifacts
    BY BatchesAssumption
  <2> QED  BY <2>1, <2>2, LowWithin
<1>3. Id(v, 1) \notin WriterRange(w)
  BY <1>2, RangesApart
<1>4. Len(<<"probe">>) = 1
  OBVIOUS
<1> QED  BY <1>1, <1>3, <1>4 DEF Foreign
----------------------------------------------------------------------------
(* Where the batch a writer is in stands in its range.                     *)
LEMMA OwnNumber ==
  ASSUME Txns, Ahead, NEW p \in Procs, StoresBodies(p), pc[p] \in {"body", "txn"}
  PROVE  /\ SeqOf(p, begun[p]) \in Nat /\ Reached(p) = SeqOf(p, begun[p])
         /\ SeqOf(p, begun[p]) >= 1
         /\ SeqOf(p, begun[p]) <= MaxBatches * BatchRows
<1>1. begun[p] \in Nat /\ begun[p] >= 1
  BY DEF Txns, Phases, TypeOK, StoresBodies
<1>2. SeqOf(p, begun[p]) \in Nat /\ Reached(p) = SeqOf(p, begun[p])
  BY <1>1, SeqNat DEF Reached, Txns
<1>3. SeqOf(p, begun[p]) >= 1
  <2>1. seqStart[p] \in Nat
    BY DEF Txns, TypeOK
  <2>2. PICK x \in Nat : x = (begun[p] - 1) * BatchRows
    BY <1>1, IngestionAssumption
  <2> QED  BY <1>1, <2>1, <2>2 DEF SeqOf
<1>4. SeqOf(p, begun[p]) <= batches * BatchRows
  BY <1>2 DEF Ahead, Running
<1>5. batches * BatchRows <= MaxBatches * BatchRows
  <2>1. batches \in Nat /\ batches <= MaxBatches /\ MaxBatches \in Nat
    BY IngestionAssumption DEF Txns, TypeOK
  <2>2. CASE batches = MaxBatches
    BY <2>1, <2>2, Wide
  <2>3. CASE batches < MaxBatches
    BY <2>1, <2>3, Apart, IngestionAssumption
  <2> QED  BY <2>1, <2>2, <2>3
<1>6. batches * BatchRows \in Nat /\ MaxBatches * BatchRows \in Nat
  BY OneMore, Wide DEF Txns
<1> QED  BY <1>2, <1>3, <1>4, <1>5, <1>6

(* The rows of a batch are at most as many as there is room for.           *)
LEMMA RowsFit ==
  ASSUME NEW p \in Procs
  PROVE  RowsOf(p) \in Nat \ {0} /\ RowsOf(p) <= RecordsPerRun
  BY IngestionAssumption, BatchesAssumption, LoadAssumption DEF RowsOf

(* What the rows of a writer's transaction look like.                      *)
LEMMA OwnForms ==
  ASSUME Txns, Ahead, NEW p \in Procs, StoresBodies(p), pc[p] = "txn", NEW r \in OwnRows(p)
  PROVE  \E i \in 1 .. 8 :
           /\ r \in BatchStatements(WriterId[p], SeqOf(p, begun[p]), RowsOf(p))[i]
           /\ NewRow(i, r, WriterId[p], SeqOf(p, begun[p]), RowsOf(p))
<1>1. WriterId[p] \in Nat
  BY IngestionAssumption
<1>2. SeqOf(p, begun[p]) \in Nat
  BY OwnNumber
<1>3. Batch(p) = BatchStatements(WriterId[p], SeqOf(p, begun[p]), RowsOf(p))
  BY DEF Batch
<1>4. Len(Batch(p)) = 8
  BY <1>1, <1>2, <1>3, BatchIsSequence, RowsFit
<1>5. PICK i \in 1 .. 8 : r \in Batch(p)[i]
  BY <1>4 DEF OwnRows, AllRows
<1> QED  BY <1>1, <1>2, <1>3, <1>5, RowsFit, BatchForms

(* The rows of a stored batch have the forms of its statements.            *)
LEMMA StoredForms ==
  ASSUME NEW w \in Nat, NEW s \in Nat, NEW rows \in Nat \ {0},
         NEW r \in AllRows(BatchStatements(w, s, rows))
  PROVE  \E i \in 1 .. 8 : NewRow(i, r, w, s, rows)
<1>1. Len(BatchStatements(w, s, rows)) = 8
  BY BatchIsSequence
<1>2. PICK i \in 1 .. 8 : r \in BatchStatements(w, s, rows)[i]
  BY <1>1 DEF AllRows
<1> QED  BY <1>2, BatchForms

(* So have those of a reparsed artifact.                                   *)
LEMMA ReparsedForms ==
  ASSUME NEW w \in Nat, NEW s \in Nat, NEW k \in Nat,
         NEW r \in AllRows(ReparseStatements(k, w, s))
  PROVE  \E i \in 1 .. 5 : r \in ReparseStatements(k, w, s)[i] /\ ReparsedRow(i, r, k, w, s)
<1>1. Len(ReparseStatements(k, w, s)) = 5
  BY ReparseForms
<1>2. PICK i \in 1 .. 5 : r \in ReparseStatements(k, w, s)[i]
  BY <1>1 DEF AllRows
<1> QED  BY <1>2, ReparseForms

(* What is committed in the range of a writer comes from its own           *)
(* transactions.                                                           *)
FromOthers(r, p) ==
  \/ r \in SeedAll
  \/ \E q \in Procs \ {p} :
       \/ /\ StoresBodies(q)
          /\ \E s \in 1 .. MaxBatches * BatchRows :
               r \in AllRows(BatchStatements(WriterId[q], s, RowsOf(q)))
       \/ /\ Kind[q] = "reparse"
          /\ \E k \in 1 .. SeedArtifacts :
               r \in AllRows(ReparseStatements(k - 1, WriterId[q], k))
       \/ /\ Kind[q] = "probe"
          /\ r \in AllRows(ProbeStatements(Id(WriterId[q], 1), ProbeKey))

(* A row that comes from elsewhere holds nothing of a writer's range.      *)
LEMMA OthersForeign ==
  ASSUME NEW p \in Procs, NEW r, FromOthers(r, p)
  PROVE  Foreign(r, WriterId[p])
<1>0. WriterId[p] \in Nat \ {0} /\ MaxBatches * BatchRows \in Nat
  BY IngestionAssumption, Wide
<1>1. CASE r \in SeedAll
  BY <1>0, <1>1, SeedForeign
<1>2. ASSUME NEW q \in Procs \ {p}
      PROVE  WriterId[q] \in Nat /\ WriterId[q] # WriterId[p]
  BY IngestionAssumption, IdRangesAssumption
<1>3. ASSUME NEW q \in Procs \ {p}, NEW s \in 1 .. MaxBatches * BatchRows,
             r \in AllRows(BatchStatements(WriterId[q], s, RowsOf(q)))
      PROVE  Foreign(r, WriterId[p])
  <2>1. s \in Nat /\ s <= MaxBatches * BatchRows
    BY <1>0
  <2>2. PICK i \in 1 .. 8 : NewRow(i, r, WriterId[q], s, RowsOf(q))
    BY <1>2, <1>3, <2>1, RowsFit, StoredForms
  <2> QED  BY <1>0, <1>2, <2>1, <2>2, RowsFit, BatchForeign
<1>4. ASSUME NEW q \in Procs \ {p}, NEW k \in 1 .. SeedArtifacts,
             r \in AllRows(ReparseStatements(k - 1, WriterId[q], k))
      PROVE  Foreign(r, WriterId[p])
  <2>1. k \in Nat /\ k <= SeedArtifacts /\ k - 1 \in Nat /\ k - 1 < SeedArtifacts
    BY BatchesAssumption
  <2>2. PICK i \in 1 .. 5 : ReparsedRow(i, r, k - 1, WriterId[q], k)
    BY <1>2, <1>4, <2>1, ReparsedForms
  <2> QED  BY <1>0, <1>2, <2>1, <2>2, ReparseForeign
<1>5. ASSUME NEW q \in Procs \ {p},
             r \in AllRows(ProbeStatements(Id(WriterId[q], 1), ProbeKey))
      PROVE  Foreign(r, WriterId[p])
  <2>1. r = Observation(Id(WriterId[q], 1), 1, 1, ProbeKey)
    BY <1>5, ProbeForms DEF AllRows
  <2> QED  BY <1>0, <1>2, <2>1, ProbeForeign
<1> QED  BY <1>1, <1>3, <1>4, <1>5 DEF FromOthers

(* No committed row clashes with one of a writer's batch, as long as the   *)
(* transaction may commit.                                                 *)
LEMMA BatchIsNew ==
  ASSUME Txns, Ahead, Parents, Origins, Unused,
         NEW p \in Procs, StoresBodies(p), Active(p),
         NEW r \in OwnRows(p), NEW t \in committed
  PROVE  ~ Clash(r, t)
<1> DEFINE w == WriterId[p]
           s == SeqOf(p, begun[p])
<1>0. /\ w \in Nat /\ s \in Nat /\ s <= MaxBatches * BatchRows /\ Reached(p) = s
      /\ RowsOf(p) \in Nat \ {0} /\ RowsOf(p) <= RecordsPerRun
      /\ pc[p] = "txn" /\ MaxBatches * BatchRows \in Nat
  BY OwnNumber, RowsFit, IngestionAssumption, Wide DEF Active
<1>1. PICK i \in 1 .. 8 : NewRow(i, r, w, s, RowsOf(p))
  BY <1>0, OwnForms
<1>2. CASE FromOthers(t, p)
  BY <1>0, <1>1, <1>2, OthersForeign, BatchAndForeign
<1>3. CASE ~ FromOthers(t, p)
  <2>1. Kind[p] # "reparse" /\ Kind[p] # "probe"
    BY DEF StoresBodies
  <2>2. PICK n \in 1 .. MaxBatches * BatchRows :
          Id(w, n) \in RunIds /\ t \in AllRows(BatchStatements(w, n, RowsOf(p)))
    BY <1>3, <2>1 DEF Origins, Origin, FromOthers
  <2>3. n \in Nat /\ n <= MaxBatches * BatchRows
    BY <1>0
  <2>4. n < WriterStride
    BY <1>0, <2>3, Wide, BatchesAssumption
  <2>5. Id(w, n) \in HeaderIds \cap WriterRange(w)
    BY <1>0, <2>2, <2>3, <2>4, InRange, ArtifactsHaveRuns
  <2>6. Id(w, n) < Id(w, s)
    BY <1>0, <2>5 DEF Unused, Active
  <2>7. n # s
    <3>1. Id(w, s) \in Nat
      BY <1>0, IdNat
    <3> QED  BY <2>6, <3>1
  <2>8. PICK j \in 1 .. 8 : NewRow(j, t, w, n, RowsOf(p))
    BY <1>0, <2>2, <2>3, StoredForms
  <2> QED  BY <1>0, <1>1, <2>3, <2>7, <2>8, BatchesApart
<1> QED  BY <1>2, <1>3

(* Nor do two rows of the batch.                                           *)
LEMMA OwnDistinct ==
  ASSUME Txns, Ahead, NEW p \in Procs, StoresBodies(p), pc[p] = "txn",
         NEW r \in OwnRows(p), NEW t \in OwnRows(p), Clash(r, t)
  PROVE  r = t
<1> DEFINE w == WriterId[p]
           s == SeqOf(p, begun[p])
<1>0. /\ w \in Nat /\ s \in Nat
      /\ RowsOf(p) \in Nat /\ RowsOf(p) <= RecordsPerRun
  BY OwnNumber, RowsFit, IngestionAssumption
<1>1. PICK i : NewRow(i, r, w, s, RowsOf(p))
  BY OwnForms
<1>2. PICK j : NewRow(j, t, w, s, RowsOf(p))
  BY OwnForms
<1> QED  BY <1>0, <1>1, <1>2, BatchDistinct
----------------------------------------------------------------------------
(* The tables, in the order in which they are written.                     *)
Written ==
  <<"ingest_run", "raw_artifact", "processing_run", "extracted_record",
    "observation_candidate", "identity_resolution_attempt", "price_observation",
    "review_item">>

(* The ranks of the tables.                                                *)
LEMMA Ranks ==
  ASSUME NEW n \in 1 .. 8, NEW r, r.table = Written[n]
  PROVE  Rank(r) = n
<1>0. n = 1 \/ n = 2 \/ n = 3 \/ n = 4 \/ n = 5 \/ n = 6 \/ n = 7 \/ n = 8
  OBVIOUS
<1> USE DEF Written, Rank, WriteOrder
<1>1. CASE n = 1
  BY <1>1
<1>2. CASE n = 2
  BY <1>2
<1>3. CASE n = 3
  BY <1>3
<1>4. CASE n = 4
  BY <1>4
<1>5. CASE n = 5
  BY <1>5
<1>6. CASE n = 6
  BY <1>6
<1>7. CASE n = 7
  BY <1>7
<1>8. CASE n = 8
  BY <1>8
<1> QED  BY <1>0, <1>1, <1>2, <1>3, <1>4, <1>5, <1>6, <1>7, <1>8

(* The i-th statement of a batch is for the i-th table.                    *)
LEMMA NewRowTable ==
  ASSUME NEW i \in 1 .. 8, NEW r, NEW w, NEW s, NEW rows, NewRow(i, r, w, s, rows)
  PROVE  r.table = Written[i]
<1>0. i = 1 \/ i = 2 \/ i = 3 \/ i = 4 \/ i = 5 \/ i = 6 \/ i = 7 \/ i = 8
  OBVIOUS
<1> USE DEF NewRow, Written, Row, ProcessingRun, Record, Candidate, Attempt, Observation
<1>1. CASE i = 1
  BY <1>1
<1>2. CASE i = 2
  BY <1>2
<1>3. CASE i = 3
  BY <1>3
<1>4. CASE i = 4
  BY <1>4
<1>5. CASE i = 5
  BY <1>5
<1>6. CASE i = 6
  BY <1>6
<1>7. CASE i = 7
  BY <1>7
<1>8. CASE i = 8
  BY <1>8
<1> QED  BY <1>0, <1>1, <1>2, <1>3, <1>4, <1>5, <1>6, <1>7, <1>8

(* The i-th statement of a reparse is for the table two places on.         *)
LEMMA ReparsedRowTable ==
  ASSUME NEW i \in 1 .. 5, NEW r, NEW k, NEW w, NEW s, ReparsedRow(i, r, k, w, s)
  PROVE  r.table = Written[i + 2]
<1>0. i = 1 \/ i = 2 \/ i = 3 \/ i = 4 \/ i = 5
  OBVIOUS
<1> USE DEF ReparsedRow, Written, Row, ProcessingRun, Record, Candidate, Attempt, Observation
<1>1. CASE i = 1
  BY <1>1
<1>2. CASE i = 2
  BY <1>2
<1>3. CASE i = 3
  BY <1>3
<1>4. CASE i = 4
  BY <1>4
<1>5. CASE i = 5
  BY <1>5
<1> QED  BY <1>0, <1>1, <1>2, <1>3, <1>4, <1>5

(* Statements for one table each, from the table after the n-th on.        *)
OneTableEach(q, n) ==
  /\ Len(q) \in Nat /\ Len(q) + n <= 8
  /\ \A i \in 1 .. Len(q) : \A r \in q[i] : r.table = Written[i + n]

(* They follow the order of the tables.                                    *)
LEMMA OrderOf ==
  ASSUME NEW q, NEW n \in Nat, OneTableEach(q, n)
  PROVE  InOrder(q)
<1> USE DEF OneTableEach
<1> SUFFICES ASSUME NEW i \in 1 .. Len(q), NEW j \in 1 .. Len(q), NEW r \in q[i], NEW s \in q[j]
             PROVE  /\ i < j => Rank(r) < Rank(s)
                    /\ i = j => r.table = s.table
  BY DEF InOrder
<1>1. i + n \in 1 .. 8 /\ j + n \in 1 .. 8
  OBVIOUS
<1>2. r.table = Written[i + n] /\ s.table = Written[j + n]
  OBVIOUS
<1>3. Rank(r) = i + n /\ Rank(s) = j + n
  BY <1>1, <1>2, Ranks
<1>4. i < j => Rank(r) < Rank(s)
  BY <1>3
<1>5. i = j => r.table = s.table
  BY <1>2
<1> QED  BY <1>4, <1>5

(* All three kinds of transactions follow the order.                       *)
LEMMA StatementsInOrder ==
  ASSUME NEW w \in Nat, NEW s \in Nat
  PROVE  /\ \A rows \in Nat \ {0} : InOrder(BatchStatements(w, s, rows))
         /\ \A k \in Nat : InOrder(ReparseStatements(k, w, s))
         /\ InOrder(ProbeStatements(Id(w, 1), ProbeKey))
<1>1. ASSUME NEW rows \in Nat \ {0} PROVE InOrder(BatchStatements(w, s, rows))
  <2> DEFINE q == BatchStatements(w, s, rows)
  <2>1. Len(q) = 8
    BY BatchIsSequence
  <2>2. ASSUME NEW i \in 1 .. 8, NEW r \in q[i] PROVE r.table = Written[i + 0]
    <3>1. NewRow(i, r, w, s, rows)
      BY BatchForms
    <3>2. i + 0 = i
      OBVIOUS
    <3> QED  BY <3>1, <3>2, NewRowTable
  <2> HIDE DEF q
  <2>3. \A i \in 1 .. Len(q) : \A r \in q[i] : r.table = Written[i + 0]
    BY <2>1, <2>2
  <2>4. 0 \in Nat /\ Len(q) \in Nat /\ Len(q) + 0 <= 8
    BY <2>1
  <2>5. OneTableEach(q, 0)
    BY <2>3, <2>4 DEF OneTableEach
  <2>6. InOrder(q)
    BY <2>4, <2>5, OrderOf
  <2> QED  BY <2>6 DEF q
<1>2. ASSUME NEW k \in Nat PROVE InOrder(ReparseStatements(k, w, s))
  <2> DEFINE q == ReparseStatements(k, w, s)
  <2>1. Len(q) = 5
    BY ReparseForms
  <2>2. ASSUME NEW i \in 1 .. 5, NEW r \in q[i] PROVE r.table = Written[i + 2]
    <3>1. ReparsedRow(i, r, k, w, s)
      BY ReparseForms
    <3> QED  BY <3>1, ReparsedRowTable
  <2> HIDE DEF q
  <2>3. \A i \in 1 .. Len(q) : \A r \in q[i] : r.table = Written[i + 2]
    BY <2>1, <2>2
  <2>4. 2 \in Nat /\ Len(q) \in Nat /\ Len(q) + 2 <= 8
    BY <2>1
  <2>5. OneTableEach(q, 2)
    BY <2>3, <2>4 DEF OneTableEach
  <2>6. InOrder(q)
    BY <2>4, <2>5, OrderOf
  <2> QED  BY <2>6 DEF q
<1>3. InOrder(ProbeStatements(Id(w, 1), ProbeKey))
  <2> DEFINE q == ProbeStatements(Id(w, 1), ProbeKey)
  <2>1. Len(q) = 1
    BY ProbeForms
  <2>2. ASSUME NEW i \in 1 .. 1, NEW r \in q[i] PROVE r.table = Written[i + 6]
    <3>1. i = 1 /\ r = Observation(Id(w, 1), 1, 1, ProbeKey)
      BY ProbeForms
    <3>2. r.table = "price_observation"
      BY <3>1 DEF Observation, Row
    <3> QED  BY <3>1, <3>2 DEF Written
  <2> HIDE DEF q
  <2>3. \A i \in 1 .. Len(q) : \A r \in q[i] : r.table = Written[i + 6]
    BY <2>1, <2>2
  <2>4. 6 \in Nat /\ Len(q) \in Nat /\ Len(q) + 6 <= 8
    BY <2>1
  <2>5. OneTableEach(q, 6)
    BY <2>3, <2>4 DEF OneTableEach
  <2>6. InOrder(q)
    BY <2>4, <2>5, OrderOf
  <2> QED  BY <2>6 DEF q
<1> QED  BY <1>1, <1>2, <1>3

(* The table of a row of the transaction, and its rank.                    *)
LEMMA OwnRanks ==
  ASSUME Txns, NEW p \in Procs, pc[p] = "txn", NEW r \in OwnRows(p)
  PROVE  Rank(r) \in Nat
<1>w. WriterId[p] \in Nat
  BY IngestionAssumption
<1>1. CASE StoresBodies(p)
  <2>1. SeqOf(p, begun[p]) \in Nat
    BY <1>1, SeqNat DEF Txns, Phases, StoresBodies, TypeOK
  <2>2. PICK i \in 1 .. 8 : NewRow(i, r, WriterId[p], SeqOf(p, begun[p]), RowsOf(p))
    BY <1>w, <1>1, <2>1, RowsPositive, StoredForms DEF OwnRows, Batch
  <2> QED  BY <2>2, NewRowTable, Ranks
<1>2. CASE ~StoresBodies(p) /\ Kind[p] = "reparse"
  <2>1. SeqOf(p, begun[p]) \in Nat /\ begun[p] - 1 \in Nat
    BY <1>2, SeqNat DEF Txns, Phases, TypeOK
  <2>2. PICK i \in 1 .. 5 :
          ReparsedRow(i, r, begun[p] - 1, WriterId[p], SeqOf(p, begun[p]))
    BY <1>w, <1>2, <2>1, ReparsedForms DEF OwnRows, Batch
  <2>3. i + 2 \in 1 .. 8
    OBVIOUS
  <2>4. Rank(r) = i + 2
    BY <2>2, <2>3, ReparsedRowTable, Ranks
  <2> QED  BY <2>3, <2>4
<1>3. CASE ~StoresBodies(p) /\ Kind[p] # "reparse"
  <2>1. r = Observation(Id(WriterId[p], 1), 1, 1, ProbeKey)
    BY <1>3, ProbeForms DEF OwnRows, AllRows, Batch
  <2>2. r.table = "price_observation"
    BY <2>1 DEF Observation, Row
  <2> QED  BY <2>2 DEF Rank, WriteOrder
<1> QED  BY <1>1, <1>2, <1>3

(* The rows of a sequence of statements, by the first and the others.      *)
LEMMA HeadRows ==
  ASSUME NEW S, NEW q \in Seq(S), q # <<>>
  PROVE  /\ Head(q) \in S /\ Tail(q) \in Seq(S)
         /\ AllRows(q) = Head(q) \cup AllRows(Tail(q))
         /\ InOrder(q) => /\ InOrder(Tail(q))
                          /\ \A r, s \in Head(q) : r.table = s.table
                          /\ \A r \in Head(q), s \in AllRows(Tail(q)) : Rank(r) < Rank(s)
<1>1. /\ Head(q) \in S /\ Tail(q) \in Seq(S) /\ Len(q) \in Nat \ {0}
      /\ Len(Tail(q)) = Len(q) - 1 /\ Head(q) = q[1]
      /\ \A i \in 1 .. Len(Tail(q)) : Tail(q)[i] = q[i + 1]
  BY HeadTailProperties, EmptySeq
<1>2. PICK n \in Nat : Len(Tail(q)) = n /\ Len(q) = n + 1
  <2>1. Len(q) - 1 \in Nat /\ (Len(q) - 1) + 1 = Len(q)
    BY <1>1
  <2> QED  BY <1>1, <2>1
<1>3. \A i \in 1 .. n : i + 1 \in 1 .. n + 1 /\ 1 \in 1 .. n + 1 /\ 1 < i + 1
  OBVIOUS
<1>4. AllRows(q) = Head(q) \cup AllRows(Tail(q))
  <2>1. ASSUME NEW r \in AllRows(q) PROVE r \in Head(q) \cup AllRows(Tail(q))
    <3>1. PICK i \in 1 .. n + 1 : r \in q[i]
      BY <1>2, <2>1 DEF AllRows
    <3>2. CASE i = 1
      BY <1>1, <3>1, <3>2
    <3>3. CASE i # 1
      <4>1. i - 1 \in 1 .. n /\ (i - 1) + 1 = i
        BY <3>3
      <4>2. r \in Tail(q)[i - 1]
        BY <1>1, <1>2, <3>1, <4>1
      <4> QED  BY <1>2, <4>1, <4>2 DEF AllRows
    <3> QED  BY <3>2, <3>3
  <2>2. ASSUME NEW r \in Head(q) PROVE r \in AllRows(q)
    <3>1. 1 \in 1 .. n + 1
      OBVIOUS
    <3> QED  BY <1>1, <1>2, <2>2, <3>1 DEF AllRows
  <2>3. ASSUME NEW r \in AllRows(Tail(q)) PROVE r \in AllRows(q)
    <3>1. PICK i \in 1 .. n : r \in Tail(q)[i]
      BY <1>2, <2>3 DEF AllRows
    <3>2. r \in q[i + 1]
      BY <1>1, <1>2, <3>1
    <3> QED  BY <1>2, <1>3, <3>2 DEF AllRows
  <2> QED  BY <2>1, <2>2, <2>3
<1>5. ASSUME InOrder(q)
      PROVE  /\ InOrder(Tail(q))
             /\ \A r, s \in Head(q) : r.table = s.table
             /\ \A r \in Head(q), s \in AllRows(Tail(q)) : Rank(r) < Rank(s)
  <2>1. ASSUME NEW i \in 1 .. n, NEW j \in 1 .. n, NEW r \in Tail(q)[i], NEW s \in Tail(q)[j]
        PROVE  /\ i < j => Rank(r) < Rank(s)
               /\ i = j => r.table = s.table
    <3>1. r \in q[i + 1] /\ s \in q[j + 1]
      BY <1>1, <1>2, <2>1
    <3>2. /\ i + 1 \in 1 .. Len(q) /\ j + 1 \in 1 .. Len(q)
          /\ i < j => i + 1 < j + 1
          /\ i = j => i + 1 = j + 1
      BY <1>2
    <3> QED  BY <1>5, <3>1, <3>2 DEF InOrder
  <2>2. InOrder(Tail(q))
    BY <1>2, <2>1 DEF InOrder
  <2>3. 1 \in 1 .. Len(q)
    BY <1>2
  <2>4. \A r, s \in Head(q) : r.table = s.table
    BY <1>1, <1>5, <2>3 DEF InOrder
  <2>5. ASSUME NEW r \in Head(q), NEW s \in AllRows(Tail(q)) PROVE Rank(r) < Rank(s)
    <3>1. PICK i \in 1 .. n : s \in Tail(q)[i]
      BY <1>2, <2>5 DEF AllRows
    <3>2. s \in q[i + 1] /\ r \in q[1]
      BY <1>1, <1>2, <3>1
    <3>3. i + 1 \in 1 .. Len(q) /\ 1 < i + 1
      BY <1>2
    <3> QED  BY <1>5, <2>3, <3>2, <3>3 DEF InOrder
  <2> QED  BY <2>2, <2>4, <2>5
<1> QED  BY <1>1, <1>4, <1>5

(* The same for a statement put in front.                                  *)
LEMMA FrontRows ==
  ASSUME NEW S, NEW q \in Seq(S), NEW rows \in S
  PROVE  /\ AllRows(<<rows>> \o q) = rows \cup AllRows(q)
         /\ /\ InOrder(q)
            /\ \A r, s \in rows : r.table = s.table
            /\ \A r \in rows, s \in AllRows(q) : Rank(r) < Rank(s)
            => InOrder(<<rows>> \o q)
<1> DEFINE f == <<rows>> \o q
<1>1. /\ f \in Seq(S) /\ f # <<>> /\ Head(f) = rows /\ Tail(f) = q
  OBVIOUS
<1>2. AllRows(f) = rows \cup AllRows(q)
  <2> HIDE DEF f
  <2> QED  BY <1>1, HeadRows
<1>3. PICK n \in Nat : Len(q) = n /\ Len(f) = n + 1
  OBVIOUS
<1>4. f[1] = rows /\ \A i \in 1 .. n : f[i + 1] = q[i]
  BY <1>3
<1>5. ASSUME InOrder(q),
             \A r, s \in rows : r.table = s.table,
             \A r \in rows, s \in AllRows(q) : Rank(r) < Rank(s)
      PROVE  InOrder(f)
  <2> HIDE DEF f
  <2> SUFFICES ASSUME NEW i \in 1 .. n + 1, NEW j \in 1 .. n + 1, NEW r \in f[i], NEW s \in f[j]
               PROVE  /\ i < j => Rank(r) < Rank(s)
                      /\ i = j => r.table = s.table
    BY <1>3 DEF InOrder
  <2>1. ASSUME NEW k \in 1 .. n + 1, k # 1
        PROVE  k - 1 \in 1 .. n /\ f[k] = q[k - 1]
    <3>1. k - 1 \in 1 .. n /\ (k - 1) + 1 = k
      BY <2>1
    <3> QED  BY <1>4, <3>1
  <2>2. CASE i = 1 /\ j = 1
    BY <1>4, <1>5, <2>2
  <2>3. CASE i = 1 /\ j # 1
    <3>1. r \in rows /\ s \in AllRows(q)
      BY <1>3, <1>4, <2>1, <2>3 DEF AllRows
    <3> QED  BY <1>5, <2>3, <3>1
  <2>4. CASE i # 1 /\ j = 1
    BY <2>4
  <2>5. CASE i # 1 /\ j # 1
    <3>1. /\ i - 1 \in 1 .. n /\ r \in q[i - 1]
          /\ j - 1 \in 1 .. n /\ s \in q[j - 1]
      BY <2>1, <2>5
    <3>2. (i < j => i - 1 < j - 1) /\ (i = j => i - 1 = j - 1)
      OBVIOUS
    <3> QED  BY <1>3, <1>5, <3>1, <3>2 DEF InOrder
  <2> QED  BY <2>2, <2>3, <2>4, <2>5
<1> QED  BY <1>2, <1>5
----------------------------------------------------------------------------
(* Every observation of a reparse has the key of one that the bulk load    *)
(* has left.                                                               *)
LEMMA ReparseConfirmed ==
  ASSUME Txns, Origins, ReparseTurns, NEW p \in Procs, Kind[p] = "reparse", pc[p] = "txn",
         NEW r \in OwnRows(p), r.table = "price_observation"
  PROVE  Confirmed(r) /\ Clashes(r, committed)
<1> DEFINE w == WriterId[p]
           s == SeqOf(p, begun[p])
           k == begun[p] - 1
<1>0. w \in Nat /\ begun[p] \in Nat /\ begun[p] >= 1 /\ begun[p] <= SeedArtifacts /\ s \in Nat
  <2>1. w \in Nat
    BY IngestionAssumption
  <2>2. begun[p] \in Nat /\ begun[p] >= 1
    BY DEF Txns, TypeOK, Phases
  <2>3. begun[p] <= SeedArtifacts
    BY DEF ReparseTurns
  <2>4. s \in Nat
    BY <2>2, SeqNat DEF Txns
  <2> QED  BY <2>1, <2>2, <2>3, <2>4
<1>1. k \in Nat /\ k \in 0 .. SeedArtifacts - 1
  BY <1>0, BatchesAssumption
<1>2. ~ StoresBodies(p)
  BY DEF StoresBodies
<1>3. r \in AllRows(ReparseStatements(k, w, s))
  BY <1>2 DEF OwnRows, Batch
<1> HIDE DEF w, s, k
<1>4. PICK i \in 1 .. 5 : ReparsedRow(i, r, k, w, s)
  BY <1>0, <1>1, <1>3, ReparsedForms
<1>5. PICK c \in Counters(s, RecordsPerRun) :
        r = Observation(Id(w, c), Id(w, c), k + 1, IdempotencyKey(k, c - s * RecordsPerRun))
  BY <1>4 DEF ReparsedRow, ProcessingRun, Record, Candidate, Attempt, Row
<1>6. PICK j \in 0 .. RecordsPerRun - 1 : c = s * RecordsPerRun + j
  BY DEF Counters
<1>7. c - s * RecordsPerRun = j
  <2>1. PICK x \in Nat : x = s * RecordsPerRun
    BY <1>0, BatchesAssumption
  <2>2. c - x = j
    BY <1>6, <2>1
  <2> QED  BY <2>1, <2>2
<1>8. r.keys = {IdempotencyKey(k, j)}
  BY <1>5, <1>7 DEF Observation, Row
<1> DEFINE d == k * RecordsPerRun + j
           t == Observation(d + 1, d + 1, k + 1, IdempotencyKey(k, d - k * RecordsPerRun))
<1>9. d - k * RecordsPerRun = j
  <2>1. PICK x \in Nat : x = k * RecordsPerRun
    BY <1>1, BatchesAssumption
  <2>2. x + j - x = j
    BY <2>1
  <2> QED  BY <2>1, <2>2
<1>10. t \in SeedRows(k)
  BY DEF SeedRows
<1>11. t \in committed
  BY <1>1, <1>10 DEF SeedAll, Origins
<1>12. t.table = "price_observation" /\ t.keys = {IdempotencyKey(k, j)}
  BY <1>9 DEF Observation, Row
<1>13. t.keys = r.keys /\ IdempotencyKey(k, j) \in r.keys \cap t.keys
  BY <1>8, <1>12
<1> HIDE DEF t
<1>14. r.keys \cap t.keys # {}
  BY <1>13
<1> QED  BY <1>11, <1>12, <1>13, <1>14 DEF Confirmed, Clashes, Clash

(* An observation that a transaction leaves out has its key confirmed.     *)
LEMMA LeftOut ==
  ASSUME Txns, Ahead, Parents, Origins, Unused, ReparseTurns,
         NEW p \in Procs, Active(p), ProgressPart(p),
         NEW r \in OwnRows(p), r \in LeftRows(p), r.table = "price_observation",
         Clashes(r, Visible(p))
  PROVE  Confirmed(r)
<1>0. pc[p] = "txn" /\ r \notin pending[p] /\ pending[p] \subseteq OwnRows(p)
  BY DEF Active, ProgressPart, Txns, OwnBatch
<1>1. PICK t \in Visible(p) : Clash(r, t)
  BY DEF Clashes
<1>2. CASE StoresBodies(p)
  <2>1. t \in pending[p]
    BY <1>1, <1>2, BatchIsNew DEF Visible
  <2>2. t = r
    BY <1>0, <1>1, <1>2, <2>1, OwnDistinct
  <2> QED  BY <1>0, <2>1, <2>2
<1>3. CASE Kind[p] = "reparse"
  BY <1>0, <1>3, ReparseConfirmed
<1>4. CASE ~ StoresBodies(p) /\ Kind[p] # "reparse"
  <2>1. Kind[p] = "probe"
    BY <1>4, IngestionAssumption DEF StoresBodies, Kinds
  <2> DEFINE w == WriterId[p]
             own == Observation(Id(w, 1), 1, 1, ProbeKey)
  <2>2. ASSUME NEW q \in AllRows(ProbeStatements(Id(w, 1), ProbeKey)) PROVE q = own
    BY <2>2, ProbeForms DEF AllRows
  <2>3. \A q \in OwnRows(p) : q = own
    BY <1>4, <2>2 DEF OwnRows, Batch
  <2>4. t \in committed
    BY <1>0, <1>1, <2>3 DEF Visible
  <2>5. r = own /\ r.id = Id(w, 1) /\ r.keys = {<<"probe">>} /\ r.table = "price_observation"
    BY <2>3 DEF Observation, Row, ProbeKey
  <2> HIDE DEF own
  <2>6. CASE ~ FromOthers(t, p)
    <3>1. t \in AllRows(ProbeStatements(Id(w, 1), ProbeKey))
      BY <2>1, <2>4, <2>6 DEF Origins, Origin, FromOthers, StoresBodies
    <3>2. t = r
      BY <2>2, <2>5, <3>1
    <3> QED  BY <2>4, <2>5, <3>2 DEF Confirmed
  <2>7. CASE FromOthers(t, p)
    <3>1. Foreign(t, w)
      BY <2>7, OthersForeign
    <3>2. Id(w, 1) \in WriterRange(w)
      <4>1. Low("ingest_run", 0 + 1) = 1
        BY DEF Low
      <4>2. 0 <= SeedArtifacts
        BY BatchesAssumption
      <4>3. 1 < WriterStride
        BY <4>1, <4>2, LowWithin
      <4> QED  BY <4>3, InRange, IngestionAssumption
    <3>3. r.id # t.id
      BY <2>5, <3>1, <3>2 DEF Foreign
    <3>4. t.table = "price_observation" /\ r.keys \cap t.keys # {}
      BY <1>1, <2>5, <3>3 DEF Clash
    <3>5. Shaped(t)
      BY <2>4 DEF Parents
    <3>6. PICK c, a, key : t = Observation(t.id, c, a, key)
      BY <3>4, <3>5 DEF Shaped
    <3>7. t.keys = {key}
      BY <3>6 DEF Observation, Row
    <3>8. t.keys = r.keys
      BY <2>5, <3>4, <3>7
    <3> QED  BY <2>4, <2>5, <3>4, <3>8 DEF Confirmed
  <2> QED  BY <2>6, <2>7
<1> QED  BY <1>2, <1>3, <1>4
----------------------------------------------------------------------------
(* What is left of the statements when the rows of the next one change.    *)
LEMMA RestRows ==
  ASSUME Txns, NEW p \in Procs, pc[p] = "txn", todo[p] # <<>>, InOrder(todo[p]),
         NEW rows, rows \subseteq OwnRows(p),
         NEW table, \A r \in Head(todo[p]) : r.table = table, \A r \in rows : r.table = table
  PROVE  /\ InOrder(Rest(p, rows))
         /\ AllRows(Rest(p, rows)) = rows \cup AllRows(Tail(todo[p]))
         /\ LeftRows(p) = Head(todo[p]) \cup AllRows(Tail(todo[p]))
         /\ Head(todo[p]) \subseteq OwnRows(p)
         /\ \A s \in AllRows(Tail(todo[p])) : s.table # table
<1> DEFINE S == (SUBSET OwnRows(p)) \ {{}}
<1>0. todo[p] \in Seq(S)
  BY DEF Txns, OwnBatch
<1> HIDE DEF S
<1>1. /\ Head(todo[p]) \in S /\ Tail(todo[p]) \in Seq(S)
      /\ AllRows(todo[p]) = Head(todo[p]) \cup AllRows(Tail(todo[p]))
      /\ InOrder(Tail(todo[p]))
      /\ \A r \in Head(todo[p]), s \in AllRows(Tail(todo[p])) : Rank(r) < Rank(s)
  BY <1>0, HeadRows
<1>2. PICK h : h \in Head(todo[p])
  BY <1>1 DEF S
<1>3. Head(todo[p]) \subseteq OwnRows(p)
  BY <1>1 DEF S
<1>4. \A r \in rows : Rank(r) = Rank(h)
  BY <1>2 DEF Rank
<1>5. \A r \in rows, s \in AllRows(Tail(todo[p])) : Rank(r) < Rank(s)
  BY <1>1, <1>2, <1>4
<1>6. \A s \in AllRows(Tail(todo[p])) : s.table # table
  <2> SUFFICES ASSUME NEW s \in AllRows(Tail(todo[p])), s.table = table PROVE FALSE
    OBVIOUS
  <2>1. Rank(s) = Rank(h)
    BY <1>2 DEF Rank
  <2>2. Rank(h) \in Nat
    BY <1>2, <1>3, OwnRanks
  <2>3. Rank(h) < Rank(s)
    BY <1>1, <1>2
  <2> QED  BY <2>1, <2>2, <2>3
<1>7. CASE rows = {}
  <2>1. Rest(p, rows) = Tail(todo[p])
    BY <1>7 DEF Rest
  <2> QED  BY <1>1, <1>3, <1>6, <1>7, <2>1 DEF LeftRows
<1>8. CASE rows # {}
  <2>1. Rest(p, rows) = <<rows>> \o Tail(todo[p])
    BY <1>8 DEF Rest
  <2>2. rows \in S
    BY <1>8 DEF S
  <2>3. \A r, s \in rows : r.table = s.table
    OBVIOUS
  <2>4. /\ AllRows(<<rows>> \o Tail(todo[p])) = rows \cup AllRows(Tail(todo[p]))
        /\ InOrder(<<rows>> \o Tail(todo[p]))
    BY <1>1, <1>5, <2>2, <2>3, FrontRows
  <2> QED  BY <1>1, <1>3, <1>6, <2>1, <2>4 DEF LeftRows
<1> QED  BY <1>7, <1>8

(* What is confirmed stays confirmed.                                      *)
LEMMA StaysConfirmed ==
  ASSUME committed \subseteq committed', NEW r, Confirmed(r)
  PROVE  Confirmed(r)'
  BY DEF Confirmed

(* A step of one process leaves the progress of the others as it is.       *)
LEMMA ProgressStep ==
  ASSUME Progress, NEW p \in Procs, ProgressPart(p)', committed \subseteq committed',
         \A q \in Procs \ {p} :
           /\ pending'[q] = pending[q] /\ todo'[q] = todo[q] /\ pc'[q] = pc[q]
           /\ begun'[q] = begun[q] /\ seqStart'[q] = seqStart[q]
           /\ q \in stale => q \in stale'
  PROVE  Progress'
<1> SUFFICES ASSUME NEW q \in Procs, q # p, Active(q)' PROVE ProgressPart(q)'
  BY DEF Progress, ProgressPart
<1>1. Active(q)
  BY DEF Active
<1>2. OwnRows(q)' = OwnRows(q)
  BY SameRows
<1>3. LeftRows(q)' = LeftRows(q) /\ pending'[q] = pending[q] /\ todo'[q] = todo[q]
  BY DEF LeftRows, AllRows
<1>4. /\ InOrder(todo[q])
      /\ LeftRows(q) \cap pending[q] = {}
      /\ \A r \in OwnRows(q) : r \in LeftRows(q) \/ r \in pending[q] \/ Confirmed(r)
      /\ Kind[q] = "reparse" => \A r \in pending[q] : r.table # "price_observation"
  BY <1>1 DEF Progress, ProgressPart
<1>5. InOrder(todo[q])'
  BY <1>3, <1>4 DEF InOrder
<1>6. \A r \in OwnRows(q) : r \in LeftRows(q) \/ r \in pending[q] \/ Confirmed(r)'
  BY <1>4, StaysConfirmed
<1> QED  BY <1>2, <1>3, <1>4, <1>5, <1>6 DEF ProgressPart
----------------------------------------------------------------------------
(* The parts of the invariant that a transaction's next step needs.        *)
Known == Txns /\ Ahead /\ Parents /\ Progress /\ Origins /\ Unused /\ ReparseTurns

(* The transaction that takes its next step, of those that may commit.     *)
Moves(p) ==
  /\ Active(p) /\ todo[p] # <<>>
  /\ UNCHANGED <<pc, seqStart, begun, stale, committed>>
  /\ pending' = [pending EXCEPT ![p] = pending'[p]]
  /\ todo' = [todo EXCEPT ![p] = todo'[p]]

(* Such a step keeps the progress of all if it keeps its own.              *)
LEMMA MoveStep ==
  ASSUME Known, NEW p \in Procs, Moves(p), ProgressPart(p)'
  PROVE  Progress'
<1>1. committed \subseteq committed'
  BY DEF Moves
<1>2. \A q \in Procs \ {p} :
        /\ pending'[q] = pending[q] /\ todo'[q] = todo[q] /\ pc'[q] = pc[q]
        /\ begun'[q] = begun[q] /\ seqStart'[q] = seqStart[q]
        /\ q \in stale => q \in stale'
  BY DEF Moves, Known, Txns, OwnBatch
<1> QED  BY <1>1, <1>2, ProgressStep DEF Known

(* Its own progress, when its next statement is cut down to some rows, and *)
(* what it has inserted changes.                                           *)
LEMMA OwnProgress ==
  ASSUME Known, NEW p \in Procs, Moves(p),
         NEW rows, rows \subseteq OwnRows(p), todo'[p] = Rest(p, rows),
         NEW table, \A r \in Head(todo[p]) : r.table = table, \A r \in rows : r.table = table,
         rows \cap pending'[p] = {},
         pending'[p] \subseteq pending[p] \cup Head(todo[p]),
         \A r \in pending[p] \cup Head(todo[p]) : r \in pending'[p] \/ r \in rows \/ Confirmed(r),
         Kind[p] = "reparse" => \A r \in pending'[p] : r.table # "price_observation"
  PROVE  Progress'
<1>0. pc[p] = "txn" /\ todo[p] # <<>> /\ Active(p)
  BY DEF Moves, Active
<1>1. /\ InOrder(todo[p])
      /\ LeftRows(p) \cap pending[p] = {}
      /\ \A r \in OwnRows(p) : r \in LeftRows(p) \/ r \in pending[p] \/ Confirmed(r)
  BY <1>0 DEF Known, Progress, ProgressPart
<1>2. /\ InOrder(Rest(p, rows))
      /\ AllRows(Rest(p, rows)) = rows \cup AllRows(Tail(todo[p]))
      /\ LeftRows(p) = Head(todo[p]) \cup AllRows(Tail(todo[p]))
      /\ \A s \in AllRows(Tail(todo[p])) : s.table # table
  BY <1>0, <1>1, RestRows DEF Known
<1>3. OwnRows(p)' = OwnRows(p)
  BY SameRows DEF Moves
<1>4. LeftRows(p)' = rows \cup AllRows(Tail(todo[p]))
  <2>1. LeftRows(p)' = UNION {todo'[p][i] : i \in 1 .. Len(todo'[p])}
    BY DEF LeftRows, AllRows
  <2>2. AllRows(todo'[p]) = UNION {todo'[p][i] : i \in 1 .. Len(todo'[p])}
    BY DEF AllRows
  <2>3. LeftRows(p)' = AllRows(Rest(p, rows))
    BY <2>1, <2>2
  <2> QED  BY <1>2, <2>3
<1>5. InOrder(todo[p])'
  BY <1>2 DEF InOrder
<1>6. LeftRows(p)' \cap pending'[p] = {}
  <2>1. AllRows(Tail(todo[p])) \cap pending'[p] = {}
    BY <1>1, <1>2
  <2> QED  BY <1>4, <2>1
<1>7. ASSUME NEW r \in OwnRows(p) PROVE r \in LeftRows(p)' \/ r \in pending'[p] \/ Confirmed(r)'
  <2>1. Confirmed(r) => Confirmed(r)'
    BY StaysConfirmed DEF Moves
  <2> QED  BY <1>1, <1>2, <1>4, <2>1
<1>8. ProgressPart(p)'
  BY <1>3, <1>5, <1>6, <1>7 DEF ProgressPart
<1> QED  BY <1>8, MoveStep

(* The rows of the next statement.                                         *)
LEMMA NextRows ==
  ASSUME Known, NEW p \in Procs, Active(p), todo[p] # <<>>
  PROVE  /\ Head(todo[p]) \subseteq OwnRows(p) /\ Head(todo[p]) \subseteq LeftRows(p)
         /\ Head(todo[p]) # {} /\ Head(todo[p]) \cap pending[p] = {}
         /\ NextRow(p) \in Head(todo[p])
         /\ \E table : \A r \in Head(todo[p]) : r.table = table
         /\ pending[p] \cup bulk[p] \subseteq OwnRows(p)
<1>1. pc[p] = "txn" /\ InOrder(todo[p]) /\ LeftRows(p) \cap pending[p] = {}
  BY DEF Active, Known, Progress, ProgressPart
<1> DEFINE S == (SUBSET OwnRows(p)) \ {{}}
<1>2. todo[p] \in Seq(S) /\ pending[p] \cup bulk[p] \subseteq OwnRows(p)
  BY <1>1 DEF Known, Txns, OwnBatch
<1> HIDE DEF S
<1>3. /\ Head(todo[p]) \in S
      /\ AllRows(todo[p]) = Head(todo[p]) \cup AllRows(Tail(todo[p]))
      /\ \A r, s \in Head(todo[p]) : r.table = s.table
  BY <1>1, <1>2, HeadRows
<1>4. NextRow(p) \in Head(todo[p])
  BY <1>1, NextRowIsFirst DEF Known, Txns
<1>5. \A r \in Head(todo[p]) : r.table = NextRow(p).table
  BY <1>3, <1>4
<1> QED  BY <1>1, <1>2, <1>3, <1>4, <1>5 DEF S, LeftRows

(* The statements of a transaction bring it forward.                       *)
LEMMA ExecuteProgress ==
  ASSUME Known, NEW p \in Procs, Execute(p)
  PROVE  Progress'
<1>1. Active(p) /\ AtPlain(p) /\ todo[p] # <<>> /\ pc[p] = "txn"
  BY DEF Execute, Connected, Active, AtPlain
<1>2. pending' = [pending EXCEPT ![p] = @ \cup Head(todo[p])] /\ todo' = [todo EXCEPT ![p] = Tail(@)]
  BY DEF Execute
<1>3. pending'[p] = pending[p] \cup Head(todo[p]) /\ todo'[p] = Tail(todo[p])
  BY <1>2 DEF Known, Txns, OwnBatch
<1>4. Moves(p)
  BY <1>1, <1>2, <1>3 DEF Moves, Execute, procVars
<1>5. todo'[p] = Rest(p, {})
  BY <1>3 DEF Rest
<1>6. PICK table : \A r \in Head(todo[p]) : r.table = table
  BY <1>1, NextRows
<1>7. table # "price_observation"
  BY <1>1, <1>6 DEF AtPlain, AtObservations
<1>8. Kind[p] = "reparse" => \A r \in pending'[p] : r.table # "price_observation"
  BY <1>1, <1>3, <1>6, <1>7 DEF Known, Progress, ProgressPart
<1> QED  BY <1>3, <1>4, <1>5, <1>6, <1>8, OwnProgress

(* An observation is inserted.                                             *)
LEMMA AppendProgress ==
  ASSUME Known, NEW p \in Procs, AppendObservation(p)
  PROVE  Progress'
<1>1. Active(p) /\ AtObservations(p) /\ todo[p] # <<>> /\ pc[p] = "txn"
  BY DEF AppendObservation, Connected, Active, AtObservations
<1>2. PICK r : r = NextRow(p)
  OBVIOUS
<1>3. PICK left : left = Head(todo[p]) \ {r}
  OBVIOUS
<1>4. /\ ~ Clashes(r, Visible(p))
      /\ pending' = [pending EXCEPT ![p] = @ \cup {r}]
      /\ todo' = [todo EXCEPT ![p] = Rest(p, left)]
  BY <1>2, <1>3 DEF AppendObservation
<1>5. pending'[p] = pending[p] \cup {r} /\ todo'[p] = Rest(p, left)
  BY <1>4 DEF Known, Txns, OwnBatch
<1>6. Moves(p)
  BY <1>1, <1>4, <1>5 DEF Moves, AppendObservation, procVars
<1>7. /\ r \in Head(todo[p]) /\ Head(todo[p]) \subseteq OwnRows(p)
      /\ Head(todo[p]) \cap pending[p] = {}
  BY <1>1, <1>2, NextRows
<1>8. \A s \in Head(todo[p]) : s.table = "price_observation"
  BY <1>1 DEF AtObservations
<1>9. Kind[p] # "reparse"
  <2> SUFFICES ASSUME Kind[p] = "reparse" PROVE FALSE
    OBVIOUS
  <2>1. Clashes(r, committed)
    BY <1>1, <1>7, <1>8, ReparseConfirmed DEF Known
  <2> QED  BY <1>4, <2>1 DEF Clashes, Visible
<1>10. /\ left \subseteq OwnRows(p) /\ \A s \in left : s.table = "price_observation"
       /\ left \cap pending'[p] = {}
       /\ pending'[p] \subseteq pending[p] \cup Head(todo[p])
       /\ \A s \in pending[p] \cup Head(todo[p]) : s \in pending'[p] \/ s \in left
  BY <1>3, <1>5, <1>7, <1>8
<1> QED  BY <1>5, <1>6, <1>8, <1>9, <1>10, OwnProgress

(* An observation is left out.                                             *)
LEMMA SkipProgress ==
  ASSUME Known, NEW p \in Procs, DoNothing(p) \/ SkipDuplicate(p)
  PROVE  Progress'
<1>1. Active(p) /\ AtObservations(p) /\ todo[p] # <<>> /\ pc[p] = "txn"
  BY DEF DoNothing, SkipDuplicate, Connected, Active, AtObservations
<1>2. PICK r : r = NextRow(p)
  OBVIOUS
<1>3. PICK left : left = Head(todo[p]) \ {r}
  OBVIOUS
<1>4. /\ Clashes(r, Visible(p))
      /\ pending' = pending
      /\ todo' = [todo EXCEPT ![p] = Rest(p, left)]
  <2>1. CASE DoNothing(p)
    <3>1. KeyClashes(r, Visible(p)) /\ todo' = [todo EXCEPT ![p] = Rest(p, left)]
      BY <1>2, <1>3, <2>1 DEF DoNothing
    <3>2. Clashes(r, Visible(p))
      BY <3>1 DEF KeyClashes, Clashes, Clash
    <3> QED  BY <2>1, <3>1, <3>2 DEF DoNothing, dbVars
  <2>2. CASE SkipDuplicate(p)
    BY <1>2, <1>3, <2>2 DEF SkipDuplicate, dbVars
  <2> QED  BY <2>1, <2>2
<1>5. pending'[p] = pending[p] /\ todo'[p] = Rest(p, left)
  BY <1>4 DEF Known, Txns, OwnBatch
<1>6. Moves(p)
  <2>1. UNCHANGED <<pc, seqStart, begun, stale, committed>>
    BY DEF DoNothing, SkipDuplicate, procVars, dbVars
  <2>2. pending' = [pending EXCEPT ![p] = pending'[p]]
    BY <1>4 DEF Known, Txns, OwnBatch
  <2> QED  BY <1>1, <1>4, <1>5, <2>1, <2>2 DEF Moves
<1>7. /\ r \in Head(todo[p]) /\ Head(todo[p]) \subseteq OwnRows(p) /\ Head(todo[p]) \subseteq LeftRows(p)
      /\ Head(todo[p]) \cap pending[p] = {}
  BY <1>1, <1>2, NextRows
<1>8. \A s \in Head(todo[p]) : s.table = "price_observation"
  BY <1>1 DEF AtObservations
<1>9. ProgressPart(p)
  BY DEF Known, Progress
<1>10. Confirmed(r)
  BY <1>1, <1>4, <1>7, <1>8, <1>9, LeftOut DEF Known
<1>11. /\ left \subseteq OwnRows(p) /\ \A s \in left : s.table = "price_observation"
       /\ left \cap pending'[p] = {}
       /\ pending'[p] \subseteq pending[p] \cup Head(todo[p])
       /\ \A s \in pending[p] \cup Head(todo[p]) : s \in pending'[p] \/ s \in left \/ s = r
  BY <1>3, <1>5, <1>7, <1>8
<1>12. Kind[p] = "reparse" => \A s \in pending'[p] : s.table # "price_observation"
  BY <1>1, <1>5, <1>9 DEF ProgressPart
<1> QED  BY <1>5, <1>6, <1>8, <1>10, <1>11, <1>12, OwnProgress

(* A bulk statement is undone, and starts over row by row.                 *)
LEMMA UndoProgress ==
  ASSUME Known, NEW p \in Procs, BulkDuplicate(p)
  PROVE  Progress'
<1>1. Active(p) /\ AtObservations(p) /\ todo[p] # <<>> /\ pc[p] = "txn"
  BY DEF BulkDuplicate, Connected, Active, AtObservations
<1>2. PICK rows : rows = Head(todo[p]) \cup bulk[p]
  OBVIOUS
<1>3. /\ pending' = [pending EXCEPT ![p] = @ \ bulk[p]]
      /\ todo' = [todo EXCEPT ![p] = Rest(p, Head(@) \cup bulk[p])]
  BY DEF BulkDuplicate
<1>4. pending'[p] = pending[p] \ bulk[p] /\ todo'[p] = Rest(p, rows)
  BY <1>2, <1>3 DEF Known, Txns, OwnBatch
<1>5. Moves(p)
  BY <1>1, <1>3, <1>4 DEF Moves, BulkDuplicate, procVars
<1>6. /\ Head(todo[p]) \subseteq OwnRows(p) /\ Head(todo[p]) \cap pending[p] = {}
      /\ bulk[p] \subseteq OwnRows(p)
  BY <1>1, NextRows
<1>7. \A s \in Head(todo[p]) : s.table = "price_observation"
  BY <1>1 DEF AtObservations
<1>8. \A s \in bulk[p] : s.table = "price_observation"
  BY DEF Known, Txns, BulkObserves
<1>9. /\ rows \subseteq OwnRows(p) /\ \A s \in rows : s.table = "price_observation"
      /\ rows \cap pending'[p] = {}
      /\ pending'[p] \subseteq pending[p] \cup Head(todo[p])
      /\ \A s \in pending[p] \cup Head(todo[p]) : s \in pending'[p] \/ s \in rows
  BY <1>2, <1>4, <1>6, <1>7, <1>8
<1>10. Kind[p] = "reparse" => \A s \in pending'[p] : s.table # "price_observation"
  BY <1>1, <1>4 DEF Known, Progress, ProgressPart
<1> QED  BY <1>4, <1>5, <1>7, <1>9, <1>10, OwnProgress
----------------------------------------------------------------------------
(* A transaction begins with all of its statements.                        *)
LEMMA BeginsInOrder ==
  ASSUME Txns', NEW p \in Procs, pc'[p] = "txn", todo'[p] = Batch(p)', pending'[p] = {}
  PROVE  ProgressPart(p)'
<1>1. LeftRows(p)' = OwnRows(p)'
  BY DEF LeftRows, OwnRows, AllRows
<1>2. InOrder(Batch(p))'
  <2>0. WriterId[p] \in Nat
    BY IngestionAssumption
  <2>1. CASE StoresBodies(p)
    <3>1. SeqOf(p, begun[p])' \in Nat
      <4>1. begun'[p] \in Nat /\ begun'[p] >= 1 /\ seqStart'[p] \in Nat
        BY <2>1 DEF Txns, TypeOK, Phases, StoresBodies
      <4>2. begun'[p] - 1 \in Nat
        BY <4>1
      <4>3. PICK x \in Nat : x = (begun'[p] - 1) * BatchRows
        BY <4>2, IngestionAssumption
      <4>4. SeqOf(p, begun[p])' \in {seqStart'[p] + x + 1, seqStart'[p] + begun'[p]}
        BY <4>3 DEF SeqOf
      <4> QED  BY <4>1, <4>4
    <3>2. InOrder(BatchStatements(WriterId[p], SeqOf(p, begun[p])', RowsOf(p)))
      BY <2>0, <3>1, StatementsInOrder, RowsPositive
    <3> QED  BY <2>1, <3>2 DEF Batch, InOrder, StoresBodies
  <2>2. CASE ~ StoresBodies(p) /\ Kind[p] = "reparse"
    <3>1. SeqOf(p, begun[p])' \in Nat /\ begun'[p] - 1 \in Nat
      <4>1. begun'[p] \in Nat /\ begun'[p] >= 1 /\ seqStart'[p] \in Nat
        BY <2>2 DEF Txns, TypeOK, Phases
      <4> QED  BY <2>2, <4>1 DEF SeqOf
    <3>2. InOrder(ReparseStatements(begun'[p] - 1, WriterId[p], SeqOf(p, begun[p])'))
      BY <2>0, <3>1, StatementsInOrder
    <3> QED  BY <2>2, <3>2 DEF Batch, InOrder, StoresBodies
  <2>3. CASE ~ StoresBodies(p) /\ Kind[p] # "reparse"
    <3>1. InOrder(ProbeStatements(Id(WriterId[p], 1), ProbeKey))
      BY <2>0, StatementsInOrder
    <3> QED  BY <2>3, <3>1 DEF Batch, InOrder, StoresBodies
  <2> QED  BY <2>1, <2>2, <2>3
<1>3. InOrder(todo[p])'
  BY <1>2 DEF InOrder
<1> QED  BY <1>1, <1>3 DEF ProgressPart

(* The steps that end a transaction, or concern none, leave progress to    *)
(* those that still have one.                                              *)
LEMMA NotActiveStep ==
  ASSUME Known, NEW p \in Procs, pc' = [pc EXCEPT ![p] = pc'[p]], pc'[p] # "txn",
         committed \subseteq committed',
         pending' = [pending EXCEPT ![p] = pending'[p]],
         todo' = [todo EXCEPT ![p] = todo'[p]],
         begun' = [begun EXCEPT ![p] = begun'[p]],
         seqStart' = [seqStart EXCEPT ![p] = seqStart'[p]],
         stale \subseteq stale' \cup {p}
  PROVE  Progress'
<1>1. ProgressPart(p)'
  BY DEF ProgressPart, Active
<1>2. \A q \in Procs \ {p} :
        /\ pending'[q] = pending[q] /\ todo'[q] = todo[q] /\ pc'[q] = pc[q]
        /\ begun'[q] = begun[q] /\ seqStart'[q] = seqStart[q]
        /\ q \in stale => q \in stale'
  BY DEF Known, Txns, OwnBatch, TypeOK
<1> QED  BY <1>1, <1>2, ProgressStep DEF Known

(* Every step keeps Progress.                                              *)
LEMMA NextProgress == Known /\ Txns' /\ [Next]_vars => Progress'
<1> SUFFICES ASSUME Known, Txns', [Next]_vars PROVE Progress'
  OBVIOUS
<1>0. /\ pending = [q \in Procs |-> pending[q]]
      /\ todo = [q \in Procs |-> todo[q]]
      /\ pc = [q \in Procs |-> pc[q]]
      /\ begun = [q \in Procs |-> begun[q]]
      /\ seqStart = [q \in Procs |-> seqStart[q]]
      /\ \A p \in Procs : pc[p] # "txn" => pending[p] = {}
  BY DEF Known, Txns, OwnBatch, TypeOK
<1> USE DEF dbVars, diskVars, txnVars, procVars, boundVars
<1>1. ASSUME NEW p \in Procs, Start(p) PROVE Progress'
  <2>1. /\ pc' = [pc EXCEPT ![p] = "loop"] /\ begun' = [begun EXCEPT ![p] = begun'[p]]
        /\ seqStart' = [seqStart EXCEPT ![p] = seqStart'[p]]
        /\ UNCHANGED <<committed, pending, todo>> /\ stale' = stale \ {p}
    BY <1>0, <1>1 DEF Start
  <2>2. pc'[p] = "loop" /\ pc' = [pc EXCEPT ![p] = pc'[p]]
    BY <1>0, <2>1
  <2>3. /\ pending' = [pending EXCEPT ![p] = pending'[p]]
        /\ todo' = [todo EXCEPT ![p] = todo'[p]]
    BY <1>0, <2>1
  <2> QED  BY <2>1, <2>2, <2>3, NotActiveStep
<1>2. ASSUME NEW p \in Procs, BeginBody(p) \/ BodyFails(p) \/ Finish(p) PROVE Progress'
  <2>1. /\ UNCHANGED <<committed, pending, todo, seqStart, stale>>
        /\ \/ pc' = [pc EXCEPT ![p] = "body"]
           \/ pc' = [pc EXCEPT ![p] = "failed"]
           \/ pc' = [pc EXCEPT ![p] = "done"]
        /\ begun' = begun \/ begun' = [begun EXCEPT ![p] = @ + 1]
    BY <1>2 DEF BeginBody, BodyFails, Finish
  <2>2. pc'[p] # "txn" /\ pc' = [pc EXCEPT ![p] = pc'[p]]
    BY <1>0, <2>1
  <2>3. /\ pending' = [pending EXCEPT ![p] = pending'[p]]
        /\ todo' = [todo EXCEPT ![p] = todo'[p]]
        /\ begun' = [begun EXCEPT ![p] = begun'[p]]
        /\ seqStart' = [seqStart EXCEPT ![p] = seqStart'[p]]
    BY <1>0, <2>1
  <2> QED  BY <2>1, <2>2, <2>3, NotActiveStep
<1>3. ASSUME NEW p \in Procs,
             UNCHANGED <<committed, pending, seqStart, stale>>,
             pc[p] # "txn", pc' = [pc EXCEPT ![p] = "txn"],
             begun' = [begun EXCEPT ![p] = begun'[p]],
             todo' = [todo EXCEPT ![p] = Batch(p)']
      PROVE  Progress'
  <2>1. pending'[p] = {} /\ todo'[p] = Batch(p)' /\ pc'[p] = "txn"
    BY <1>0, <1>3
  <2>2. ProgressPart(p)'
    BY <2>1, BeginsInOrder
  <2>3. \A q \in Procs \ {p} :
          /\ pending'[q] = pending[q] /\ todo'[q] = todo[q] /\ pc'[q] = pc[q]
          /\ begun'[q] = begun[q] /\ seqStart'[q] = seqStart[q]
          /\ q \in stale => q \in stale'
    BY <1>0, <1>3
  <2> QED  BY <1>3, <2>2, <2>3, ProgressStep DEF Known
<1>4. ASSUME NEW p \in Procs, FinishBody(p) PROVE Progress'
  <2>1. StoresBodies(p) /\ pc[p] = "body"
    BY <1>4 DEF FinishBody, Phases, Known, Txns
  <2>2. /\ UNCHANGED <<committed, pending, stale, seqStart, begun>>
        /\ pc' = [pc EXCEPT ![p] = "txn"]
        /\ todo' = [todo EXCEPT ![p] =
                      BatchStatements(WriterId[p], SeqOf(p, begun[p]), RowsOf(p))]
    BY <1>4 DEF FinishBody
  <2>3. Batch(p)' = BatchStatements(WriterId[p], SeqOf(p, begun[p]), RowsOf(p))
    BY <2>1, <2>2 DEF Batch, SeqOf, StoresBodies, RowsOf
  <2>4. begun' = [begun EXCEPT ![p] = begun'[p]]
    BY <1>0, <2>2
  <2> QED  BY <1>3, <2>1, <2>2, <2>3, <2>4
<1>5. ASSUME NEW p \in Procs, BeginReparse(p) PROVE Progress'
  <2>1. /\ UNCHANGED <<committed, pending, stale, seqStart>>
        /\ pc[p] = "loop" /\ Kind[p] = "reparse"
        /\ pc' = [pc EXCEPT ![p] = "txn"]
        /\ begun' = [begun EXCEPT ![p] = @ + 1]
        /\ todo' = [todo EXCEPT ![p] =
                      ReparseStatements(begun[p], WriterId[p], SeqOf(p, begun[p] + 1))]
    BY <1>5 DEF BeginReparse
  <2>2. begun[p] \in Nat /\ begun'[p] = begun[p] + 1 /\ begun'[p] - 1 = begun[p]
    BY <2>1 DEF Known, Txns, TypeOK
  <2>3. Batch(p)' = ReparseStatements(begun[p], WriterId[p], SeqOf(p, begun[p] + 1))
    <3>1. Batch(p)' = ReparseStatements(begun'[p] - 1, WriterId[p], SeqOf(p, begun[p])')
      BY <2>1 DEF Batch, StoresBodies
    <3>2. SeqOf(p, begun[p])' = SeqOf(p, begun[p] + 1)
      BY <2>1, <2>2 DEF SeqOf
    <3> QED  BY <2>2, <3>1, <3>2
  <2>4. begun' = [begun EXCEPT ![p] = begun'[p]]
    BY <2>1, <2>2
  <2> QED  BY <1>3, <2>1, <2>3, <2>4
<1>6. ASSUME NEW p \in Procs, BeginProbe(p) PROVE Progress'
  <2>1. /\ UNCHANGED <<committed, pending, stale, seqStart, begun>>
        /\ pc[p] = "loop" /\ Kind[p] = "probe"
        /\ pc' = [pc EXCEPT ![p] = "txn"]
        /\ todo' = [todo EXCEPT ![p] = ProbeStatements(Id(WriterId[p], 1), ProbeKey)]
    BY <1>6 DEF BeginProbe
  <2>2. Batch(p)' = ProbeStatements(Id(WriterId[p], 1), ProbeKey)
    BY <2>1 DEF Batch, StoresBodies
  <2>3. begun' = [begun EXCEPT ![p] = begun'[p]]
    BY <1>0, <2>1
  <2> QED  BY <1>3, <2>1, <2>2, <2>3
<1>7. ASSUME NEW p \in Procs,
             Refuse(p) \/ WaitTimeout(p) \/ LostConnection(p) \/ KillClient(p)
      PROVE  Progress'
  <2>1. /\ UNCHANGED <<begun, seqStart, committed>>
        /\ \/ pc' = [pc EXCEPT ![p] = "failed"]
           \/ pc' = [pc EXCEPT ![p] = "loop"]
        /\ pending' = [pending EXCEPT ![p] = {}]
        /\ todo' = [todo EXCEPT ![p] = <<>>]
        /\ stale \subseteq stale' \cup {p}
    BY <1>7 DEF Refuse, WaitTimeout, LostConnection, KillClient, Raise
  <2>2. pc'[p] # "txn" /\ pc' = [pc EXCEPT ![p] = pc'[p]]
    BY <1>0, <2>1
  <2>3. /\ pending' = [pending EXCEPT ![p] = pending'[p]]
        /\ todo' = [todo EXCEPT ![p] = todo'[p]]
        /\ begun' = [begun EXCEPT ![p] = begun'[p]]
        /\ seqStart' = [seqStart EXCEPT ![p] = seqStart'[p]]
    BY <1>0, <2>1
  <2> QED  BY <2>1, <2>2, <2>3, NotActiveStep
<1>8. ASSUME NEW p \in Procs, Commit(p) PROVE Progress'
  <2>1. /\ UNCHANGED <<begun, seqStart, todo, stale>> /\ committed \subseteq committed'
        /\ pc' = [pc EXCEPT ![p] = "done"] \/ pc' = [pc EXCEPT ![p] = "loop"]
        /\ pending' = [pending EXCEPT ![p] = {}]
    BY <1>8 DEF Commit
  <2>2. pc'[p] # "txn" /\ pc' = [pc EXCEPT ![p] = pc'[p]]
    BY <1>0, <2>1
  <2>3. /\ pending' = [pending EXCEPT ![p] = pending'[p]]
        /\ todo' = [todo EXCEPT ![p] = todo'[p]]
        /\ begun' = [begun EXCEPT ![p] = begun'[p]]
        /\ seqStart' = [seqStart EXCEPT ![p] = seqStart'[p]]
    BY <1>0, <2>1
  <2> QED  BY <2>1, <2>2, <2>3, NotActiveStep
<1>9. ASSUME KillServer PROVE Progress'
  <2>1. pc' = pc /\ stale' = {p \in Procs : pc[p] \in {"loop", "body", "txn"}}
    BY <1>9 DEF KillServer
  <2> QED  BY <2>1 DEF Progress, ProgressPart, Active
<1>10. ASSUME StartServer \/ UNCHANGED vars PROVE Progress'
  <2>1. UNCHANGED <<pc, begun, seqStart, todo, pending, committed, stale>>
    BY <1>10 DEF StartServer, vars
  <2>2. ASSUME NEW q \in Procs PROVE ProgressPart(q)'
    <3>1. OwnRows(q)' = OwnRows(q)
      BY <2>1, SameRows
    <3>2. ProgressPart(q)
      BY DEF Known, Progress
    <3>3. \A r : Confirmed(r) => Confirmed(r)'
      BY <2>1 DEF Confirmed
    <3>4. Active(q)' => Active(q)
      BY <2>1 DEF Active
    <3>5. LeftRows(q)' = LeftRows(q) /\ InOrder(todo[q])' = InOrder(todo[q])
      BY <2>1 DEF LeftRows, AllRows, InOrder
    <3> QED  BY <2>1, <3>1, <3>2, <3>3, <3>4, <3>5 DEF ProgressPart
  <2> QED  BY <2>2 DEF Progress
<1> QED
  BY <1>1, <1>2, <1>4, <1>5, <1>6, <1>7, <1>8, <1>9, <1>10, ExecuteProgress, AppendProgress,
     SkipProgress, UndoProgress
  DEF Next, Transact
----------------------------------------------------------------------------
(* The transactions that are at their end and that the server has not      *)
(* dropped, with what they have inserted.                                  *)
Closes(done) ==
  /\ \A p \in done : p \in Procs /\ Active(p) /\ todo[p] = <<>>
  /\ committed' = committed \cup UNION {pending[p] : p \in done}
  /\ \A p \in done : pc'[p] \notin {"body", "txn"} \/ p \in stale'

(* A writer with a batch had it before, or has begun it now.               *)
GoesOn(p) ==
  StoresBodies(p) /\ pc'[p] \in {"body", "txn"} /\ p \notin stale' =>
    /\ p \notin stale /\ seqStart'[p] = seqStart[p]
    /\ \/ pc[p] \in {"body", "txn"} /\ begun'[p] = begun[p]
       \/ pc[p] = "loop" /\ begun'[p] = begun[p] + 1

(* A reparse starts over, takes one artifact more, or does neither.        *)
TakesTurns(p) ==
  Kind[p] = "reparse" =>
    \/ seqStart'[p] = NextSequence(WriterId[p], RunIds) /\ begun'[p] = 0
    \/ seqStart'[p] = seqStart[p] /\ begun[p] < SeedArtifacts /\ begun'[p] = begun[p] + 1
    \/ seqStart'[p] = seqStart[p] /\ begun'[p] = begun[p]

(* A probe is done when it has committed.                                  *)
ProbeEnds(p, done) ==
  Kind[p] = "probe" /\ pc'[p] = "done" => pc[p] = "done" \/ p \in done

(* Whom a constraint refuses.                                              *)
Refused(p) == p \in refused' => p \in refused \/ Refuse(p)

(* What a step is to those that begin, go on and end.                      *)
Turn(done) ==
  /\ Closes(done)
  /\ \A p \in Procs : GoesOn(p) /\ TakesTurns(p) /\ ProbeEnds(p, done) /\ Refused(p)

(* A step that commits nothing, and is one process's alone.                *)
LEMMA LoneTurn ==
  ASSUME Txns, NEW p \in Procs, GoesOn(p), TakesTurns(p), ProbeEnds(p, {}), Refused(p),
         committed' = committed,
         \A q \in Procs \ {p} :
           /\ pc'[q] = pc[q] /\ begun'[q] = begun[q] /\ seqStart'[q] = seqStart[q]
           /\ q \in stale => q \in stale'
           /\ q \in refused' => q \in refused
  PROVE  Turn({})
<1>1. Closes({})
  BY DEF Closes
<1>2. ASSUME NEW q \in Procs \ {p}
      PROVE  GoesOn(q) /\ TakesTurns(q) /\ ProbeEnds(q, {}) /\ Refused(q)
  <2>1. GoesOn(q)
    <3>1. pc[q] \in {"body", "txn"} \/ pc[q] \notin {"body", "txn"}
      OBVIOUS
    <3> QED  BY <1>2, <3>1 DEF GoesOn
  <2>2. TakesTurns(q)
    BY <1>2 DEF TakesTurns
  <2>3. ProbeEnds(q, {}) /\ Refused(q)
    BY <1>2 DEF ProbeEnds, Refused
  <2> QED  BY <2>1, <2>2, <2>3
<1> QED  BY <1>1, <1>2 DEF Turn

(* Every step is such a turn.                                              *)
LEMMA Turns ==
  ASSUME Known, [Next]_vars
  PROVE  \E done : Turn(done)
<1>0. /\ Txns
      /\ pc = [q \in Procs |-> pc[q]]
      /\ begun = [q \in Procs |-> begun[q]]
      /\ seqStart = [q \in Procs |-> seqStart[q]]
  BY DEF Known, Txns, TypeOK
<1> USE DEF dbVars, diskVars, txnVars, procVars, boundVars
<1>1. ASSUME NEW p \in Procs, Start(p) PROVE Turn({})
  <2>1. /\ pc' = [pc EXCEPT ![p] = "loop"] /\ begun' = [begun EXCEPT ![p] = 0]
        /\ UNCHANGED <<committed, refused>> /\ stale' = stale \ {p}
        /\ seqStart' = [seqStart EXCEPT ![p] = seqStart'[p]]
        /\ Kind[p] = "reparse" => seqStart'[p] = NextSequence(WriterId[p], RunIds)
    BY <1>0, <1>1 DEF Start
  <2>2. GoesOn(p) /\ TakesTurns(p) /\ ProbeEnds(p, {}) /\ Refused(p)
    BY <1>0, <2>1 DEF GoesOn, TakesTurns, ProbeEnds, Refused
  <2> QED  BY <1>0, <2>1, <2>2, LoneTurn
<1>2. ASSUME NEW p \in Procs, BeginBody(p) PROVE Turn({})
  <2>1. /\ pc' = [pc EXCEPT ![p] = "body"] /\ begun' = [begun EXCEPT ![p] = @ + 1]
        /\ pc[p] = "loop" /\ StoresBodies(p)
        /\ UNCHANGED <<committed, refused, seqStart, stale>>
    BY <1>2 DEF BeginBody
  <2>2. GoesOn(p) /\ TakesTurns(p) /\ ProbeEnds(p, {}) /\ Refused(p)
    BY <1>0, <2>1 DEF GoesOn, TakesTurns, ProbeEnds, Refused, StoresBodies
  <2> QED  BY <1>0, <2>1, <2>2, LoneTurn
<1>3. ASSUME NEW p \in Procs, FinishBody(p) \/ BeginProbe(p) PROVE Turn({})
  <2>1. /\ pc' = [pc EXCEPT ![p] = "txn"] /\ UNCHANGED begun
        /\ StoresBodies(p) => pc[p] = "body"
        /\ UNCHANGED <<committed, refused, seqStart, stale>>
    BY <1>3 DEF FinishBody, BeginProbe, StoresBodies
  <2>2. GoesOn(p) /\ TakesTurns(p) /\ ProbeEnds(p, {}) /\ Refused(p)
    BY <1>0, <2>1 DEF GoesOn, TakesTurns, ProbeEnds, Refused
  <2> QED  BY <1>0, <2>1, <2>2, LoneTurn
<1>4. ASSUME NEW p \in Procs, BodyFails(p) \/ Finish(p) PROVE Turn({})
  <2>1. /\ UNCHANGED <<begun, committed, refused, seqStart, stale>>
        /\ \/ pc' = [pc EXCEPT ![p] = "failed"]
           \/ pc' = [pc EXCEPT ![p] = "done"] /\ Kind[p] # "probe"
    BY <1>4 DEF BodyFails, Finish
  <2>2. GoesOn(p) /\ TakesTurns(p) /\ ProbeEnds(p, {}) /\ Refused(p)
    BY <1>0, <2>1 DEF GoesOn, TakesTurns, ProbeEnds, Refused
  <2> QED  BY <1>0, <2>1, <2>2, LoneTurn
<1>5. ASSUME NEW p \in Procs, BeginReparse(p) PROVE Turn({})
  <2>1. /\ pc' = [pc EXCEPT ![p] = "txn"] /\ begun' = [begun EXCEPT ![p] = @ + 1]
        /\ Kind[p] = "reparse" /\ begun[p] < SeedArtifacts
        /\ UNCHANGED <<committed, refused, seqStart, stale>>
    BY <1>5 DEF BeginReparse
  <2>2. GoesOn(p) /\ TakesTurns(p) /\ ProbeEnds(p, {}) /\ Refused(p)
    BY <1>0, <2>1 DEF GoesOn, TakesTurns, ProbeEnds, Refused, StoresBodies
  <2> QED  BY <1>0, <2>1, <2>2, LoneTurn
<1>6. ASSUME NEW p \in Procs,
             Execute(p) \/ AppendObservation(p) \/ DoNothing(p) \/ BulkDuplicate(p)
             \/ SkipDuplicate(p)
      PROVE  Turn({})
  <2>1. UNCHANGED <<pc, begun, committed, refused, seqStart, stale>> /\ pc[p] = "txn"
    BY <1>6 DEF Execute, AppendObservation, DoNothing, BulkDuplicate, SkipDuplicate, Connected
  <2>2. GoesOn(p) /\ TakesTurns(p) /\ ProbeEnds(p, {}) /\ Refused(p)
    BY <1>0, <2>1 DEF GoesOn, TakesTurns, ProbeEnds, Refused
  <2> QED  BY <1>0, <2>1, <2>2, LoneTurn
<1>7. ASSUME NEW p \in Procs,
             Refuse(p) \/ WaitTimeout(p) \/ LostConnection(p) \/ KillClient(p)
      PROVE  Turn({})
  <2>1. /\ UNCHANGED <<begun, seqStart, committed>>
        /\ \/ pc' = [pc EXCEPT ![p] = "failed"]
           \/ pc' = [pc EXCEPT ![p] = "loop"]
        /\ stale \subseteq stale' \cup {p}
        /\ refused' = refused \/ (refused' = refused \cup {p} /\ Refuse(p))
    BY <1>7 DEF Refuse, WaitTimeout, LostConnection, KillClient, Raise
  <2>2. GoesOn(p) /\ TakesTurns(p) /\ ProbeEnds(p, {}) /\ Refused(p)
    BY <1>0, <2>1 DEF GoesOn, TakesTurns, ProbeEnds, Refused
  <2>3. \A q \in Procs \ {p} :
           /\ pc'[q] = pc[q] /\ begun'[q] = begun[q] /\ seqStart'[q] = seqStart[q]
           /\ q \in stale => q \in stale'
           /\ q \in refused' => q \in refused
    BY <1>0, <2>1
  <2> QED  BY <1>0, <2>1, <2>2, <2>3, LoneTurn
<1>8. ASSUME NEW p \in Procs, Commit(p) PROVE Turn({p})
  <2>1. /\ UNCHANGED <<begun, seqStart, refused, stale>>
        /\ Active(p) /\ todo[p] = <<>> /\ committed' = committed \cup pending[p]
        /\ pc' = [pc EXCEPT ![p] = "done"] \/ pc' = [pc EXCEPT ![p] = "loop"]
    BY <1>8 DEF Commit, Connected, Active
  <2>2. UNION {pending[q] : q \in {p}} = pending[p]
    OBVIOUS
  <2>3. Closes({p})
    BY <1>0, <2>1, <2>2 DEF Closes
  <2>4. ASSUME NEW q \in Procs
        PROVE  GoesOn(q) /\ TakesTurns(q) /\ ProbeEnds(q, {p}) /\ Refused(q)
    <3>1. CASE q = p
      BY <1>0, <2>1, <3>1 DEF GoesOn, TakesTurns, ProbeEnds, Refused
    <3>2. CASE q # p
      <4>1. pc'[q] = pc[q]
        BY <1>0, <2>1, <3>2
      <4> QED  BY <2>1, <4>1 DEF GoesOn, TakesTurns, ProbeEnds, Refused
    <3> QED  BY <3>1, <3>2
  <2> QED  BY <2>3, <2>4 DEF Turn
<1>9. ASSUME KillServer PROVE \E done : Turn(done)
  <2>1. /\ UNCHANGED <<pc, begun, seqStart, refused>>
        /\ stale' = {p \in Procs : pc[p] \in {"loop", "body", "txn"}}
    BY <1>9 DEF KillServer
  <2>2. PICK done \in SUBSET {p \in Procs : Connected(p) /\ todo[p] = <<>>} :
          committed' = committed \cup UNION {pending[p] : p \in done}
    BY <1>9 DEF KillServer
  <2>3. Closes(done)
    BY <2>1, <2>2 DEF Closes, Connected, Active
  <2>4. ASSUME NEW q \in Procs
        PROVE  GoesOn(q) /\ TakesTurns(q) /\ ProbeEnds(q, done) /\ Refused(q)
    BY <2>1 DEF GoesOn, TakesTurns, ProbeEnds, Refused
  <2> QED  BY <2>3, <2>4 DEF Turn
<1>10. ASSUME StartServer \/ UNCHANGED vars PROVE Turn({})
  <2>1. UNCHANGED <<pc, begun, seqStart, refused, committed, stale>>
    BY <1>10 DEF StartServer, vars
  <2>2. Closes({})
    BY <2>1 DEF Closes
  <2>3. ASSUME NEW q \in Procs
        PROVE  GoesOn(q) /\ TakesTurns(q) /\ ProbeEnds(q, {}) /\ Refused(q)
    BY <2>1 DEF GoesOn, TakesTurns, ProbeEnds, Refused
  <2> QED  BY <2>2, <2>3 DEF Turn
<1> QED
  BY <1>1, <1>2, <1>3, <1>4, <1>5, <1>6, <1>7, <1>8, <1>9, <1>10 DEF Next, Transact
----------------------------------------------------------------------------
(* What the writer of a row has of it at the end of its transaction: all   *)
(* that is not confirmed is about to be committed.                         *)
LEMMA ClosedRows ==
  ASSUME Known, NEW done, Closes(done), NEW p \in done, NEW r \in OwnRows(p)
  PROVE  /\ r \in pending[p] \/ Confirmed(r)
         /\ r \in committed' \/ Confirmed(r)
<1>1. p \in Procs /\ Active(p) /\ todo[p] = <<>>
  BY DEF Closes
<1>2. LeftRows(p) = {}
  BY <1>1 DEF LeftRows, AllRows
<1>3. r \in pending[p] \/ Confirmed(r)
  BY <1>1, <1>2 DEF Known, Progress, ProgressPart
<1>4. pending[p] \subseteq committed'
  BY DEF Closes
<1> QED  BY <1>3, <1>4

(* The first and the third statement of a batch, and the first of a        *)
(* reparse.                                                                *)
LEMMA HeaderRows ==
  ASSUME NEW w \in Nat, NEW s \in Nat
  PROVE  /\ \A rows \in Nat \ {0} :
              /\ BatchStatements(w, s, rows)[1] = {Row("ingest_run", Id(w, s), {}, {})}
              /\ Row("ingest_run", Id(w, s), {}, {}) \in AllRows(BatchStatements(w, s, rows))
              /\ Row("raw_artifact", Id(w, s), {<<"ingest_run", Id(w, s)>>}, {})
                   \in AllRows(BatchStatements(w, s, rows))
              /\ ProcessingRun(Id(w, s), Id(w, s), "v1", 1)
                   \in AllRows(BatchStatements(w, s, rows))
         /\ \A k \in Nat :
              /\ ReparseStatements(k, w, s)[1] = {ProcessingRun(Id(w, s), k + 1, "v2", 2)}
<1>1. ASSUME NEW rows \in Nat \ {0}
      PROVE  /\ BatchStatements(w, s, rows)[1] = {Row("ingest_run", Id(w, s), {}, {})}
             /\ Row("ingest_run", Id(w, s), {}, {}) \in AllRows(BatchStatements(w, s, rows))
             /\ Row("raw_artifact", Id(w, s), {<<"ingest_run", Id(w, s)>>}, {})
                  \in AllRows(BatchStatements(w, s, rows))
             /\ ProcessingRun(Id(w, s), Id(w, s), "v1", 1)
                  \in AllRows(BatchStatements(w, s, rows))
  <2>1. /\ BatchStatements(w, s, rows)[1] = {Row("ingest_run", Id(w, s), {}, {})}
        /\ BatchStatements(w, s, rows)[2]
             = {Row("raw_artifact", Id(w, s), {<<"ingest_run", Id(w, s)>>}, {})}
        /\ BatchStatements(w, s, rows)[3] = {ProcessingRun(Id(w, s), Id(w, s), "v1", 1)}
    BY DEF BatchStatements
  <2>2. Len(BatchStatements(w, s, rows)) = 8
    BY BatchIsSequence
  <2>3. 1 \in 1 .. 8 /\ 2 \in 1 .. 8 /\ 3 \in 1 .. 8
    OBVIOUS
  <2>4. \A i \in 1 .. 8 : BatchStatements(w, s, rows)[i] \subseteq AllRows(BatchStatements(w, s, rows))
    BY <2>2 DEF AllRows
  <2> QED  BY <2>1, <2>3, <2>4
<1>2. ASSUME NEW k \in Nat
      PROVE  ReparseStatements(k, w, s)[1] = {ProcessingRun(Id(w, s), k + 1, "v2", 2)}
  BY DEF ReparseStatements
<1> QED  BY <1>1, <1>2
----------------------------------------------------------------------------
(* At first nothing is under way, and everything comes from the bulk load. *)
LEMMA InitKnown == Init => Progress /\ Origins /\ Unused /\ ReparseTurns /\ ProbesDone
<1> SUFFICES ASSUME Init PROVE Progress /\ Origins /\ Unused /\ ReparseTurns /\ ProbesDone
  OBVIOUS
<1>1. \A p \in Procs : pc[p] = "idle" /\ seqStart[p] = 0 /\ begun[p] = 0
  BY DEF Init
<1>2. Progress /\ Unused /\ ProbesDone
  BY <1>1 DEF Progress, ProgressPart, Active, Unused, ProbesDone
<1>3. Origins
  BY DEF Init, Origins, Origin
<1>4. ReparseTurns
  BY <1>1, BatchesAssumption DEF ReparseTurns
<1> QED  BY <1>2, <1>3, <1>4

(* The run of a batch that is committed is recorded.                       *)
LEMMA RunRecorded ==
  ASSUME Known, NEW done, Closes(done), NEW p \in done, StoresBodies(p)
  PROVE  Id(WriterId[p], SeqOf(p, begun[p])) \in RunIds'
<1>0. p \in Procs /\ pc[p] = "txn"
  BY DEF Closes, Active
<1> DEFINE w == WriterId[p]
           s == SeqOf(p, begun[p])
           h == Row("ingest_run", Id(w, s), {}, {})
<1>1. w \in Nat /\ s \in Nat
  BY <1>0, OwnNumber, IngestionAssumption DEF Known
<1>2. h \in AllRows(BatchStatements(w, s, RowsOf(p)))
  BY <1>0, <1>1, HeaderRows, RowsPositive
<1>3. h \in OwnRows(p)
  BY <1>2 DEF OwnRows, Batch
<1>4. h.table = "ingest_run" /\ h.id = Id(w, s)
  BY DEF Row
<1> HIDE DEF h
<1>5. ~ Confirmed(h)
  BY <1>4 DEF Confirmed
<1>6. h \in committed'
  BY <1>3, <1>5, ClosedRows
<1> QED  BY <1>4, <1>6 DEF RunIds

(* What a row is newly committed of.                                       *)
LEMMA NewlyCommitted ==
  ASSUME Known, NEW done, Closes(done), NEW r \in committed', r \notin committed
  PROVE  \E p \in done : /\ p \in Procs /\ pc[p] = "txn" /\ r \in pending[p] /\ r \in OwnRows(p)
                         /\ p \notin stale /\ todo[p] = <<>>
<1>1. PICK p \in done : r \in pending[p]
  BY DEF Closes
<1>2. p \in Procs /\ pc[p] = "txn" /\ p \notin stale /\ todo[p] = <<>>
  BY DEF Closes, Active
<1>3. r \in OwnRows(p)
  BY <1>1, <1>2 DEF Known, Txns, OwnBatch
<1> QED  BY <1>1, <1>2, <1>3

(* Every row keeps to the origins.                                         *)
LEMMA NextOrigins ==
  ASSUME Known, NEW done, Closes(done)
  PROVE  Origins'
<1>1. committed \subseteq committed'
  BY DEF Closes
<1>2. SeedAll \subseteq committed'
  BY <1>1 DEF Known, Origins
<1>3. RunIds \subseteq RunIds'
  BY <1>1 DEF RunIds
<1>4. ASSUME NEW r \in committed PROVE Origin(r)'
  <2>1. Origin(r)
    BY DEF Known, Origins
  <2> QED  BY <1>3, <2>1 DEF Origin
<1>5. ASSUME NEW r \in committed', r \notin committed PROVE Origin(r)'
  <2>1. PICK p \in done : p \in Procs /\ pc[p] = "txn" /\ r \in OwnRows(p)
    BY <1>5, NewlyCommitted
  <2>2. CASE StoresBodies(p)
    <3>1. PICK s \in Nat : s = SeqOf(p, begun[p]) /\ s >= 1 /\ s <= MaxBatches * BatchRows
      BY <2>1, <2>2, OwnNumber DEF Known
    <3>2. s \in 1 .. MaxBatches * BatchRows
      BY <3>1, Wide
    <3>3. Id(WriterId[p], s) \in RunIds'
      BY <2>2, <3>1, RunRecorded
    <3>4. r \in AllRows(BatchStatements(WriterId[p], s, RowsOf(p)))
      BY <2>1, <2>2, <3>1 DEF OwnRows, Batch
    <3> QED  BY <2>1, <2>2, <3>2, <3>3, <3>4 DEF Origin
  <2>3. CASE Kind[p] = "reparse"
    <3>1. begun[p] \in Nat /\ begun[p] >= 1 /\ begun[p] <= SeedArtifacts /\ seqStart[p] = 0
      BY <2>1, <2>3 DEF Known, Txns, TypeOK, Phases, ReparseTurns
    <3>2. SeqOf(p, begun[p]) = begun[p] /\ begun[p] \in 1 .. SeedArtifacts
      BY <2>3, <3>1, BatchesAssumption DEF SeqOf
    <3>3. r \in AllRows(ReparseStatements(begun[p] - 1, WriterId[p], begun[p]))
      BY <2>1, <2>3, <3>2 DEF OwnRows, Batch, StoresBodies
    <3> QED  BY <2>1, <2>3, <3>2, <3>3 DEF Origin
  <2>4. CASE ~ StoresBodies(p) /\ Kind[p] # "reparse"
    <3>1. Kind[p] = "probe"
      BY <2>1, <2>4, IngestionAssumption DEF StoresBodies, Kinds
    <3>2. r \in AllRows(ProbeStatements(Id(WriterId[p], 1), ProbeKey))
      BY <2>1, <2>4 DEF OwnRows, Batch
    <3> QED  BY <2>1, <3>1, <3>2 DEF Origin
  <2> QED  BY <2>2, <2>3, <2>4
<1> QED  BY <1>2, <1>4, <1>5 DEF Origins

(* A batch under way stays behind no run.                                  *)
LEMMA NextUnused ==
  ASSUME Known, NEW done, Turn(done)
  PROVE  Unused'
<1> SUFFICES ASSUME NEW p \in Procs, StoresBodies(p), pc'[p] \in {"body", "txn"}, p \notin stale',
                    NEW id \in HeaderIds' \cap WriterRange(WriterId[p])
             PROVE  id < Id(WriterId[p], Reached(p))'
  BY DEF Unused, StoresBodies, WriterRange, Id
<1>0. WriterId[p] \in Nat
  BY IngestionAssumption
<1>1. Closes(done) /\ GoesOn(p)
  BY DEF Turn
<1>2. p \notin done
  BY <1>1 DEF Closes
<1>3. id \in HeaderIds
  <2>1. PICK r \in committed' : r.id = id /\ r.table \in {"ingest_run", "raw_artifact"}
    BY DEF HeaderIds
  <2>2. CASE r \in committed
    BY <2>1, <2>2 DEF HeaderIds
  <2>3. CASE r \notin committed
    <3>1. PICK q \in done : q \in Procs /\ pc[q] = "txn" /\ r \in pending[q]
      BY <1>1, <2>3, NewlyCommitted
    <3>2. r.id \in WriterRange(WriterId[p])
      BY <2>1
    <3>3. q = p
      BY <2>1, <3>1, <3>2, HeadersOfOthers DEF Known
    <3> QED  BY <1>2, <3>1, <3>3
  <2> QED  BY <2>2, <2>3
<1>4. p \notin stale /\ seqStart'[p] = seqStart[p]
  BY <1>1 DEF GoesOn
<1>5. begun[p] \in Nat
  BY DEF Known, Txns, TypeOK
<1>6. CASE pc[p] \in {"body", "txn"} /\ begun'[p] = begun[p]
  <2>1. Reached(p)' = Reached(p)
    BY <1>4, <1>6 DEF Reached, SeqOf
  <2>2. id < Id(WriterId[p], Reached(p))
    BY <1>3, <1>4, <1>6 DEF Known, Unused
  <2> QED  BY <2>1, <2>2 DEF Id
<1>7. CASE pc[p] = "loop" /\ begun'[p] = begun[p] + 1
  <2>1. begun[p] + 1 # 0
    BY <1>5
  <2>2. Reached(p)' = SeqOf(p, begun[p] + 1)
    BY <1>4, <1>7, <2>1 DEF Reached, SeqOf
  <2>3. PICK n \in Nat, m \in Nat : n = Reached(p) /\ m = SeqOf(p, begun[p] + 1) /\ n < m
    BY Advance, ReachedNat DEF Known, Txns
  <2>4. id <= Id(WriterId[p], n)
    BY <1>3, <1>7, <2>3 DEF Known, Ahead, Running
  <2>5. PICK x \in Nat : x = WriterId[p] * WriterStride
    BY <1>0, BatchesAssumption
  <2>6. id \in Int
    BY <2>5, BatchesAssumption DEF WriterRange, Id
  <2>7. id <= x + n
    BY <2>4, <2>5 DEF Id
  <2>8. id < x + m
    BY <2>3, <2>6, <2>7
  <2>9. Id(WriterId[p], Reached(p))' = x + m
    BY <2>2, <2>3, <2>5 DEF Id
  <2> QED  BY <2>8, <2>9
<1> QED  BY <1>1, <1>6, <1>7 DEF GoesOn

(* A reparse records no run in its range.                                  *)
LEMMA NoReparseRuns ==
  ASSUME Known, NEW p \in Procs, Kind[p] = "reparse"
  PROVE  RunIds \cap WriterRange(WriterId[p]) = {}
<1> SUFFICES ASSUME NEW r \in committed, r.table = "ingest_run",
                    r.id \in WriterRange(WriterId[p])
             PROVE  FALSE
  BY DEF RunIds
<1>1. CASE FromOthers(r, p)
  BY <1>1, OthersForeign DEF Foreign
<1>2. CASE ~ FromOthers(r, p)
  <2>1. Origin(r)
    BY DEF Known, Origins
  <2>2. PICK k \in 1 .. SeedArtifacts : r \in AllRows(ReparseStatements(k - 1, WriterId[p], k))
    BY <1>2, <2>1 DEF Origin, FromOthers, StoresBodies
  <2>3. k \in Nat /\ k - 1 \in Nat /\ WriterId[p] \in Nat
    BY IngestionAssumption
  <2>4. PICK i \in 1 .. 5 : ReparsedRow(i, r, k - 1, WriterId[p], k)
    BY <2>2, <2>3, ReparsedForms
  <2> QED  BY <2>3, <2>4, ReparsedRowShaped
<1> QED  BY <1>1, <1>2

(* A reparse starts at the beginning of its range every time.              *)
LEMMA NextReparseTurns ==
  ASSUME Known, NEW done, Turn(done)
  PROVE  ReparseTurns'
<1> SUFFICES ASSUME NEW p \in Procs, Kind[p] = "reparse"
             PROVE  seqStart'[p] = 0 /\ begun'[p] <= SeedArtifacts
  BY DEF ReparseTurns
<1>1. seqStart[p] = 0 /\ begun[p] <= SeedArtifacts /\ begun[p] \in Nat
  BY DEF Known, ReparseTurns, Txns, TypeOK
<1>2. TakesTurns(p)
  BY DEF Turn
<1>3. NextSequence(WriterId[p], RunIds) = 0
  BY NoReparseRuns DEF NextSequence
<1> QED  BY <1>1, <1>2, <1>3, BatchesAssumption DEF TakesTurns
----------------------------------------------------------------------------
(* The row of a probe.                                                     *)
LEMMA ProbeRow ==
  ASSUME NEW p \in Procs, Kind[p] = "probe"
  PROVE  OwnRows(p) = {Observation(Id(WriterId[p], 1), 1, 1, ProbeKey)}
<1>1. Batch(p) = ProbeStatements(Id(WriterId[p], 1), ProbeKey)
  BY DEF Batch, StoresBodies
<1>2. 1 .. 1 = {1}
  OBVIOUS
<1> QED  BY <1>1, <1>2, ProbeForms DEF OwnRows, AllRows

(* A probe that is done still finds its key confirmed after a step.        *)
LEMMA NextProbesDone ==
  ASSUME Known, ProbesDone, NEW done, Turn(done)
  PROVE  ProbesDone'
<1> SUFFICES ASSUME NEW p \in Procs, Kind[p] = "probe", pc'[p] = "done"
             PROVE  \E o \in Observations' : o.keys = {ProbeKey}
  BY DEF ProbesDone
<1>1. committed \subseteq committed' /\ Closes(done)
  BY DEF Turn, Closes
<1>2. Observations \subseteq Observations'
  BY <1>1 DEF Observations
<1>3. CASE pc[p] = "done"
  BY <1>2, <1>3 DEF ProbesDone
<1>4. CASE p \in done
  <2>1. PICK r \in OwnRows(p) : r = Observation(Id(WriterId[p], 1), 1, 1, ProbeKey)
    BY ProbeRow
  <2>2. r.table = "price_observation" /\ r.keys = {ProbeKey}
    BY <2>1 DEF Observation, Row
  <2>3. r \in committed' \/ Confirmed(r)
    BY <1>1, <1>4, ClosedRows
  <2>4. CASE r \in committed'
    BY <2>2, <2>4 DEF Observations
  <2>5. CASE Confirmed(r)
    <3>1. PICK s \in committed : s.table = "price_observation" /\ s.keys = r.keys
      BY <2>5 DEF Confirmed
    <3> QED  BY <1>1, <2>2, <3>1 DEF Observations
  <2> QED  BY <2>3, <2>4, <2>5
<1> QED  BY <1>3, <1>4 DEF Turn, ProbeEnds

(* The probes' key is confirmed once, and once a probe is done it is.      *)
LEMMA ProbesKept ==
  ASSUME IndexesHold, ProbesDone
  PROVE  ProbesKeepOne
<1> DEFINE kept == {o \in Observations : o.keys = {ProbeKey}}
<1>1. ASSUME NEW o \in kept PROVE kept = {o}
  <2>1. ASSUME NEW u \in kept PROVE u = o
    BY <2>1 DEF IndexesHold, AllDistinct, Rows, Observations, Clash
  <2> QED  BY <2>1
<1>2. kept = {} \/ \E o \in kept : kept = {o}
  BY <1>1
<1>3. Cardinality(kept) <= 1
  <2>1. CASE kept = {}
    BY <2>1, FS_EmptySet
  <2>2. CASE \E o \in kept : kept = {o}
    <3>1. PICK o \in kept : kept = {o}
      BY <2>2
    <3>2. Cardinality({o}) = 1
      BY FS_Singleton
    <3>3. Cardinality(kept) = 1
      BY <3>1, <3>2
    <3> QED  BY <3>3
  <2> QED  BY <1>2, <2>1, <2>2
<1>4. ASSUME NEW p \in Procs, Kind[p] = "probe", pc[p] = "done"
      PROVE  Cardinality(kept) = 1
  <2>1. PICK o : o \in kept
    BY <1>4 DEF ProbesDone
  <2> QED  BY <1>1, <2>1, FS_Singleton
<1> QED  BY <1>3, <1>4 DEF ProbesKeepOne
----------------------------------------------------------------------------
(* The rows of a batch that others of it refer to.                         *)
LEMMA ParentRows ==
  ASSUME NEW w \in Nat, NEW s \in Nat, NEW rows \in Nat \ {0}, NEW c \in Counters(s, rows)
  PROVE  /\ Record(Id(w, c), Id(w, s), Id(w, s)) \in AllRows(BatchStatements(w, s, rows))
         /\ Candidate(Id(w, c), "v1") \in AllRows(BatchStatements(w, s, rows))
<1>1. /\ BatchStatements(w, s, rows)[4]
           = {Record(Id(w, d), Id(w, s), Id(w, s)) : d \in Counters(s, rows)}
      /\ BatchStatements(w, s, rows)[5] = {Candidate(Id(w, d), "v1") : d \in Counters(s, rows)}
  BY DEF BatchStatements
<1>2. Len(BatchStatements(w, s, rows)) = 8
  BY BatchIsSequence
<1>3. 4 \in 1 .. 8 /\ 5 \in 1 .. 8
  OBVIOUS
<1>4. \A i \in 1 .. 8 : BatchStatements(w, s, rows)[i] \subseteq AllRows(BatchStatements(w, s, rows))
  BY <1>2 DEF AllRows
<1> QED  BY <1>1, <1>3, <1>4

(* Parents are written before their children, in the same batch.           *)
LEMMA BatchParents ==
  ASSUME NEW w \in Nat, NEW s \in Nat, NEW rows \in Nat \ {0},
         NEW i \in 1 .. 8, NEW r, NewRow(i, r, w, s, rows), NEW n \in r.refs
  PROVE  \E q \in AllRows(BatchStatements(w, s, rows)) :
           Name(q) = n /\ Rank(q) < Rank(r) /\ q.table # "price_observation"
<1> DEFINE B == AllRows(BatchStatements(w, s, rows))
<1> SUFFICES \E q \in B : Name(q) = n /\ Rank(q) < Rank(r) /\ q.table # "price_observation"
  OBVIOUS
<1>1. \A q : /\ q.table = "ingest_run" => Rank(q) = 1
             /\ q.table = "raw_artifact" => Rank(q) = 2
             /\ q.table = "processing_run" => Rank(q) = 3
             /\ q.table = "extracted_record" => Rank(q) = 4
             /\ q.table = "observation_candidate" => Rank(q) = 5
             /\ q.table = "identity_resolution_attempt" => Rank(q) = 6
             /\ q.table = "price_observation" => Rank(q) = 7
             /\ q.table = "review_item" => Rank(q) = 8
  BY DEF Rank, WriteOrder
<1>2. \E q \in B : Name(q) = <<"ingest_run", Id(w, s)>> /\ q.table = "ingest_run"
  <2>1. Row("ingest_run", Id(w, s), {}, {}) \in B
    BY HeaderRows
  <2> QED  BY <2>1 DEF Name, Row
<1>3. \E q \in B : Name(q) = <<"raw_artifact", Id(w, s)>> /\ q.table = "raw_artifact"
  <2>1. Row("raw_artifact", Id(w, s), {<<"ingest_run", Id(w, s)>>}, {}) \in B
    BY HeaderRows
  <2> QED  BY <2>1 DEF Name, Row
<1>4. \E q \in B : Name(q) = <<"processing_run", Id(w, s)>> /\ q.table = "processing_run"
  <2>1. ProcessingRun(Id(w, s), Id(w, s), "v1", 1) \in B
    BY HeaderRows
  <2> QED  BY <2>1 DEF Name, Row, ProcessingRun
<1>5. ASSUME NEW c \in Counters(s, rows)
      PROVE  /\ \E q \in B : /\ Name(q) = <<"extracted_record", Id(w, c)>>
                             /\ q.table = "extracted_record"
             /\ \E q \in B : /\ Name(q) = <<"observation_candidate", Id(w, c)>>
                             /\ q.table = "observation_candidate"
  BY ParentRows DEF Name, Row, Record, Candidate
<1> HIDE DEF B
<1>6. CASE i = 1
  BY <1>6 DEF NewRow, Row
<1>7. CASE i = 2
  <2>1. r.table = "raw_artifact" /\ r.refs = {<<"ingest_run", Id(w, s)>>}
    BY <1>7 DEF NewRow, Row
  <2>2. Rank(r) = 2
    BY <1>1, <2>1
  <2> QED  BY <1>1, <1>2, <2>1, <2>2
<1>8. CASE i = 3
  <2>1. r.table = "processing_run" /\ r.refs = {<<"raw_artifact", Id(w, s)>>}
    BY <1>8 DEF NewRow, Row, ProcessingRun
  <2>2. Rank(r) = 3
    BY <1>1, <2>1
  <2> QED  BY <1>1, <1>3, <2>1, <2>2
<1>9. CASE i = 4
  <2>1. /\ r.table = "extracted_record"
        /\ r.refs = {<<"processing_run", Id(w, s)>>, <<"raw_artifact", Id(w, s)>>}
    BY <1>9 DEF NewRow, Row, Record
  <2>2. Rank(r) = 4
    BY <1>1, <2>1
  <2> QED  BY <1>1, <1>3, <1>4, <2>1, <2>2
<1>10. CASE i = 5
  <2>1. PICK c \in Counters(s, rows) : r = Candidate(Id(w, c), "v1")
    BY <1>10 DEF NewRow
  <2>2. r.table = "observation_candidate" /\ r.refs = {<<"extracted_record", Id(w, c)>>}
    BY <2>1 DEF Candidate, Row
  <2>3. Rank(r) = 5
    BY <1>1, <2>2
  <2> QED  BY <1>1, <1>5, <2>2, <2>3
<1>11. CASE i = 6
  <2>1. PICK c \in Counters(s, rows) :
          r = Attempt(Id(w, 2 * c), Id(w, c)) \/ r = Attempt(Id(w, 2 * c + 1), Id(w, c))
    BY <1>11 DEF NewRow
  <2>2. /\ r.table = "identity_resolution_attempt"
        /\ r.refs = {<<"observation_candidate", Id(w, c)>>}
    BY <2>1 DEF Attempt, Row
  <2>3. Rank(r) = 6
    BY <1>1, <2>2
  <2> QED  BY <1>1, <1>5, <2>2, <2>3
<1>12. CASE i = 7
  <2>1. PICK c \in Counters(s, rows) :
          r = Observation(Id(w, c), Id(w, c), Id(w, s),
                IdempotencyKey(Id(w, s), c - s * RecordsPerRun))
    BY <1>12 DEF NewRow
  <2>2. /\ r.table = "price_observation"
        /\ r.refs = {<<"observation_candidate", Id(w, c)>>, <<"raw_artifact", Id(w, s)>>}
    BY <2>1 DEF Observation, Row
  <2>3. Rank(r) = 7
    BY <1>1, <2>2
  <2> QED  BY <1>1, <1>3, <1>5, <2>2, <2>3
<1>13. CASE i = 8
  <2>1. PICK c \in Counters(s, rows) :
          r = Row("review_item", Id(w, c),
                {<<"ingest_run", Id(w, s)>>, <<"raw_artifact", Id(w, s)>>,
                 <<"extracted_record", Id(w, c)>>}, {})
    BY <1>13 DEF NewRow
  <2>2. /\ r.table = "review_item"
        /\ r.refs = {<<"ingest_run", Id(w, s)>>, <<"raw_artifact", Id(w, s)>>,
                     <<"extracted_record", Id(w, c)>>}
    BY <2>1 DEF Row
  <2>3. Rank(r) = 8
    BY <1>1, <2>2
  <2> QED  BY <1>1, <1>2, <1>3, <1>5, <2>2, <2>3
<1>14. i \in {1, 2, 3, 4, 5, 6, 7, 8}
  OBVIOUS
<1> QED
  BY <1>6, <1>7, <1>8, <1>9, <1>10, <1>11, <1>12, <1>13, <1>14

(* A writer's transaction has inserted the parents of its next rows.       *)
LEMMA ParentsAreThere ==
  ASSUME Known, NEW p \in Procs, StoresBodies(p), Active(p), todo[p] # <<>>,
         NEW r \in Head(todo[p])
  PROVE  ~ Orphan(p, r)
<1> SUFFICES ASSUME NEW n \in r.refs
             PROVE  \E q \in Visible(p) : Name(q) = n
  BY DEF Orphan
<1> DEFINE w == WriterId[p]
           s == SeqOf(p, begun[p])
<1>0. pc[p] = "txn" /\ r \in OwnRows(p)
  BY NextRows DEF Active
<1>1. w \in Nat /\ s \in Nat
  BY <1>0, OwnNumber, IngestionAssumption DEF Known
<1>2. PICK i \in 1 .. 8 : NewRow(i, r, w, s, RowsOf(p))
  BY <1>0, OwnForms DEF Known
<1>3. PICK q \in AllRows(BatchStatements(w, s, RowsOf(p))) :
        Name(q) = n /\ Rank(q) < Rank(r) /\ q.table # "price_observation"
  BY <1>1, <1>2, RowsPositive, BatchParents
<1>4. q \in OwnRows(p)
  BY <1>3 DEF OwnRows, Batch
<1>5. ~ Confirmed(q)
  BY <1>3 DEF Confirmed
<1>6. q \in LeftRows(p) \/ q \in pending[p]
  BY <1>4, <1>5 DEF Known, Progress, ProgressPart
<1>7. q \notin LeftRows(p)
  <2>1. todo[p] \in Seq((SUBSET OwnRows(p)) \ {{}}) /\ InOrder(todo[p])
    BY <1>0 DEF Known, Progress, ProgressPart, Txns, OwnBatch
  <2>2. /\ LeftRows(p) = Head(todo[p]) \cup AllRows(Tail(todo[p]))
        /\ \A x, y \in Head(todo[p]) : x.table = y.table
        /\ \A x \in Head(todo[p]), y \in AllRows(Tail(todo[p])) : Rank(x) < Rank(y)
    BY <2>1, HeadRows DEF LeftRows
  <2>3. Rank(q) \in Nat /\ Rank(r) \in Nat
    BY <1>0, <1>4, OwnRanks DEF Known
  <2>4. q \notin Head(todo[p])
    <3>1. q.table = r.table => Rank(q) = Rank(r)
      BY DEF Rank
    <3> QED  BY <1>3, <2>2, <2>3, <3>1
  <2>5. q \notin AllRows(Tail(todo[p]))
    BY <1>3, <2>2, <2>3
  <2> QED  BY <2>2, <2>4, <2>5
<1> QED  BY <1>3, <1>6, <1>7 DEF Visible

(* No row of a writer that it has not inserted yet clashes with one that   *)
(* it sees, or with another of the same statement.                         *)
LEMMA NothingClashes ==
  ASSUME Known, NEW p \in Procs, StoresBodies(p), Active(p), todo[p] # <<>>,
         NEW r \in Head(todo[p])
  PROVE  ~ Clashes(r, Visible(p) \cup (Head(todo[p]) \ {r}))
<1> SUFFICES ASSUME NEW t \in Visible(p) \cup (Head(todo[p]) \ {r}), Clash(r, t)
             PROVE  FALSE
  BY DEF Clashes
<1>0. /\ pc[p] = "txn" /\ r \in OwnRows(p) /\ Head(todo[p]) \subseteq OwnRows(p)
      /\ pending[p] \subseteq OwnRows(p) /\ Head(todo[p]) \cap pending[p] = {}
  BY NextRows DEF Active
<1>1. CASE t \in committed
  BY <1>0, <1>1, BatchIsNew DEF Known
<1>2. CASE t \in pending[p] \cup (Head(todo[p]) \ {r})
  <2>1. t \in OwnRows(p)
    BY <1>0, <1>2
  <2>2. r = t
    BY <1>0, <2>1, OwnDistinct DEF Known
  <2> QED  BY <1>0, <1>2, <2>2
<1> QED  BY <1>1, <1>2 DEF Visible

(* What a probe borrows is there.                                          *)
LEMMA Borrowed ==
  ASSUME Origins, NEW p \in Procs, Kind[p] = "probe"
  PROVE  {<<"observation_candidate", 1>>, <<"raw_artifact", 1>>} \subseteq Names(committed)
<1>1. SeedArtifacts >= 1 /\ 0 \in 0 .. SeedArtifacts - 1
  BY LoadAssumption, BatchesAssumption
<1>2. 0 * RecordsPerRun + 0 = 0 /\ 0 \in 0 .. RecordsPerRun - 1
  BY BatchesAssumption
<1>3. 0 \in {0 * RecordsPerRun + i : i \in 0 .. RecordsPerRun - 1}
  BY <1>2
<1>4. /\ Candidate(0 + 1, "v1") \in SeedRows(0)
      /\ Row("raw_artifact", 0 + 1, {<<"ingest_run", 0 + 1>>}, {}) \in SeedRows(0)
  BY <1>3 DEF SeedRows
<1>5. SeedRows(0) \subseteq committed
  BY <1>1 DEF Origins, SeedAll
<1>6. /\ Name(Candidate(0 + 1, "v1")) = <<"observation_candidate", 1>>
      /\ Name(Row("raw_artifact", 0 + 1, {<<"ingest_run", 0 + 1>>}, {})) = <<"raw_artifact", 1>>
  BY DEF Name, Candidate, Row
<1> QED  BY <1>4, <1>5, <1>6 DEF Names

(* The row of a probe shares its id with no row that the probe sees.       *)
LEMMA ProbeIsNew ==
  ASSUME Known, NEW p \in Procs, Kind[p] = "probe", Active(p), todo[p] # <<>>,
         NEW r, r = Observation(Id(WriterId[p], 1), 1, 1, ProbeKey),
         NEW t \in Visible(p), Clash(r, t)
  PROVE  r.keys \cap t.keys # {}
<1>1. r.keys = {ProbeKey} /\ r.id = Id(WriterId[p], 1)
  BY DEF Observation, Row
<1>2. WriterId[p] \in Nat
  BY IngestionAssumption
<1>3. Id(WriterId[p], 1) \in WriterRange(WriterId[p])
  BY <1>2, InRange, Wide, LoadAssumption, BatchesAssumption
<1>4. CASE t \in pending[p]
  <2>1. t \in OwnRows(p)
    BY <1>4, NextRows
  <2>2. t = r
    BY <2>1, ProbeRow
  <2> QED  BY <1>1, <2>2
<1>5. CASE t \in committed /\ FromOthers(t, p)
  <2>1. t.id \notin WriterRange(WriterId[p])
    BY <1>5, OthersForeign DEF Foreign
  <2> QED  BY <1>1, <1>3, <2>1 DEF Clash
<1>6. CASE t \in committed /\ ~ FromOthers(t, p)
  <2>1. Origin(t)
    BY <1>6 DEF Known, Origins
  <2>2. t \in AllRows(ProbeStatements(Id(WriterId[p], 1), ProbeKey))
    BY <1>6, <2>1 DEF Origin, FromOthers, StoresBodies
  <2>3. t = r
    BY <2>2, ProbeForms DEF AllRows
  <2> QED  BY <1>1, <2>3
<1> QED  BY <1>4, <1>5, <1>6 DEF Visible

(* Nobody but a reparse is refused.                                        *)
LEMMA NeverRefused ==
  ASSUME Known, NEW p \in Procs, Refuse(p)
  PROVE  Kind[p] = "reparse"
<1> SUFFICES ASSUME Kind[p] # "reparse" PROVE FALSE
  OBVIOUS
<1>1. Active(p) /\ Unexpected(p) /\ pc[p] = "txn"
  BY DEF Refuse, Connected, Active
<1>2. todo[p] # <<>>
  BY <1>1 DEF Unexpected, AtPlain, AtObservations
<1>3. NextRow(p) \in Head(todo[p])
  BY <1>1, <1>2, NextRows
<1>4. CASE StoresBodies(p)
  <2>1. \A r \in Head(todo[p]) :
          /\ ~ Orphan(p, r)
          /\ ~ Clashes(r, Visible(p) \cup (Head(todo[p]) \ {r}))
    BY <1>1, <1>2, <1>4, ParentsAreThere, NothingClashes
  <2>2. ~ Clashes(NextRow(p), Visible(p))
    BY <1>3, <2>1 DEF Clashes
  <2> QED  BY <1>1, <1>3, <2>1, <2>2 DEF Unexpected
<1>5. CASE Kind[p] = "probe"
  <2> DEFINE r == Observation(Id(WriterId[p], 1), 1, 1, ProbeKey)
  <2>1. Head(todo[p]) = {r}
    BY <1>1, <1>2, <1>5, NextRows, ProbeRow
  <2>2. NextRow(p) = r
    BY <1>3, <2>1
  <2>3. /\ r.table = "price_observation"
        /\ r.refs = {<<"observation_candidate", 1>>, <<"raw_artifact", 1>>}
    BY DEF Observation, Row
  <2>4. ~ AtPlain(p)
    BY <1>2, <2>1, <2>3 DEF AtPlain, AtObservations
  <2>5. ~ Orphan(p, r)
    BY <1>5, <2>3, Borrowed DEF Known, Orphan, Visible, Names
  <2>6. Clashes(r, Visible(p)) => KeyClashes(r, Visible(p))
    <3>1. ASSUME NEW t \in Visible(p), Clash(r, t) PROVE KeyClashes(r, Visible(p))
      <4>1. r.keys \cap t.keys # {}
        BY <1>1, <1>2, <1>5, <3>1, ProbeIsNew
      <4> QED  BY <3>1, <4>1 DEF KeyClashes, Clash
    <3> QED  BY <3>1 DEF Clashes
  <2> QED  BY <1>1, <2>2, <2>4, <2>5, <2>6 DEF Unexpected
<1> QED  BY <1>4, <1>5, IngestionAssumption DEF StoresBodies, Kinds

(* A step refuses nobody else.                                             *)
LEMMA NextRefused ==
  ASSUME Known, OnlyReparseRefused, NEW done, Turn(done), TypeOK'
  PROVE  OnlyReparseRefused'
<1> SUFFICES ASSUME NEW p \in refused' PROVE Kind[p] = "reparse"
  BY DEF OnlyReparseRefused
<1>1. p \in Procs
  BY DEF TypeOK
<1>2. p \in refused \/ Refuse(p)
  BY <1>1 DEF Turn, Refused
<1> QED  BY <1>1, <1>2, NeverRefused DEF OnlyReparseRefused
----------------------------------------------------------------------------
(* Every batch whose run is committed is whole, and so is every reparse    *)
(* whose processing run is committed.                                      *)
WholeRows ==
  /\ \A p \in Procs : StoresBodies(p) =>
       \A id \in RunIds \cap WriterRange(WriterId[p]) :
         Whole(AllRows(BatchStatements(WriterId[p], id - Id(WriterId[p], 0), RowsOf(p))))
  /\ \A p \in Procs : Kind[p] = "reparse" =>
       \A k \in 0 .. SeedArtifacts - 1 :
         ProcessingRun(Id(WriterId[p], k + 1), k + 1, "v2", 2) \in committed =>
           Whole(AllRows(ReparseStatements(k, WriterId[p], k + 1)))

(* What is whole stays whole.                                              *)
LEMMA WholeStays ==
  ASSUME committed \subseteq committed', NEW rows, Whole(rows)
  PROVE  Whole(rows)'
<1>1. Observations \subseteq Observations'
  BY DEF Observations
<1> QED  BY <1>1 DEF Whole

(* A transaction leaves its batch whole.                                   *)
LEMMA OwnWhole ==
  ASSUME Known, NEW done, Closes(done), NEW p \in done
  PROVE  \A r \in OwnRows(p) : IF r.table = "price_observation"
                               THEN \E o \in Observations' : o.keys = r.keys
                               ELSE r \in committed'
<1> SUFFICES ASSUME NEW r \in OwnRows(p)
             PROVE  IF r.table = "price_observation"
                    THEN \E o \in Observations' : o.keys = r.keys
                    ELSE r \in committed'
  OBVIOUS
<1>1. r \in committed' \/ Confirmed(r)
  BY ClosedRows
<1>2. committed \subseteq committed'
  BY DEF Closes
<1> QED  BY <1>1, <1>2 DEF Confirmed, Observations

(* The rows of another's transaction come from elsewhere.                  *)
LEMMA OwnFromOthers ==
  ASSUME Known, NEW p \in Procs, NEW q \in Procs \ {p}, pc[q] = "txn", NEW r \in OwnRows(q)
  PROVE  FromOthers(r, p)
<1>1. CASE StoresBodies(q)
  <2>1. PICK s \in Nat : s = SeqOf(q, begun[q]) /\ s >= 1 /\ s <= MaxBatches * BatchRows
    BY <1>1, OwnNumber DEF Known
  <2>2. s \in 1 .. MaxBatches * BatchRows
    BY <2>1, Wide
  <2>3. r \in AllRows(BatchStatements(WriterId[q], s, RowsOf(q)))
    BY <1>1, <2>1 DEF OwnRows, Batch
  <2> QED  BY <1>1, <2>2, <2>3 DEF FromOthers
<1>2. CASE Kind[q] = "reparse"
  <2>1. begun[q] \in Nat /\ begun[q] >= 1 /\ begun[q] <= SeedArtifacts /\ seqStart[q] = 0
    BY <1>2 DEF Known, Txns, TypeOK, Phases, ReparseTurns
  <2>2. SeqOf(q, begun[q]) = begun[q] /\ begun[q] \in 1 .. SeedArtifacts
    BY <1>2, <2>1, BatchesAssumption DEF SeqOf
  <2>3. r \in AllRows(ReparseStatements(begun[q] - 1, WriterId[q], begun[q]))
    BY <1>2, <2>2 DEF OwnRows, Batch, StoresBodies
  <2> QED  BY <1>2, <2>2, <2>3 DEF FromOthers
<1>3. CASE Kind[q] = "probe"
  <2>1. r \in AllRows(ProbeStatements(Id(WriterId[q], 1), ProbeKey))
    BY <1>3 DEF OwnRows, Batch, StoresBodies
  <2> QED  BY <1>3, <2>1 DEF FromOthers
<1> QED  BY <1>1, <1>2, <1>3, IngestionAssumption DEF StoresBodies, Kinds

(* The run of a reparse is the first of its rows, and has its number.      *)
LEMMA ReparseRun ==
  ASSUME Known, NEW p \in Procs, Kind[p] = "reparse", pc[p] = "txn", NEW k \in Nat,
         ProcessingRun(Id(WriterId[p], k + 1), k + 1, "v2", 2) \in OwnRows(p)
  PROVE  begun[p] = k + 1 /\ OwnRows(p) = AllRows(ReparseStatements(k, WriterId[p], k + 1))
<1> DEFINE w == WriterId[p]
           n == begun[p]
           h == ProcessingRun(Id(w, k + 1), k + 1, "v2", 2)
<1>1. n \in Nat /\ n >= 1 /\ seqStart[p] = 0
  BY DEF Known, Txns, TypeOK, Phases, ReparseTurns
<1>2. SeqOf(p, n) = n /\ n - 1 \in Nat /\ w \in Nat
  BY <1>1, IngestionAssumption DEF SeqOf
<1>3. OwnRows(p) = AllRows(ReparseStatements(n - 1, w, n))
  BY <1>2 DEF OwnRows, Batch, StoresBodies
<1>4. PICK i \in 1 .. 5 : ReparsedRow(i, h, n - 1, w, n)
  BY <1>1, <1>2, <1>3, ReparsedForms
<1>5. h.table = "processing_run" /\ h.id = Id(w, k + 1)
  BY DEF ProcessingRun, Row
<1> HIDE DEF h
<1>6. h.id = Id(w, n)
  BY <1>4, <1>5 DEF ReparsedRow, ProcessingRun, Record, Candidate, Attempt, Observation, Row
<1>7. n = k + 1
  <2>1. PICK x \in Nat : x = w * WriterStride
    BY <1>2, BatchesAssumption
  <2>2. x + n = x + (k + 1)
    BY <1>5, <1>6, <2>1 DEF Id
  <2> QED  BY <1>1, <2>2
<1>8. n - 1 = k
  BY <1>7
<1> QED  BY <1>3, <1>7, <1>8

(* A step leaves whole what it commits.                                    *)
LEMMA NextWholeRows ==
  ASSUME Known, WholeRows, NEW done, Closes(done)
  PROVE  WholeRows'
<1>1. committed \subseteq committed'
  BY DEF Closes
<1>2. ASSUME NEW p \in Procs, StoresBodies(p), NEW id \in (RunIds \cap WriterRange(WriterId[p]))'
      PROVE  Whole(AllRows(BatchStatements(WriterId[p], id - Id(WriterId[p], 0), RowsOf(p))))'
  <2> DEFINE B == AllRows(BatchStatements(WriterId[p], id - Id(WriterId[p], 0), RowsOf(p)))
  <2>0. id \in RunIds' /\ id \in WriterRange(WriterId[p])
    BY <1>2 DEF WriterRange, Id
  <2>1. CASE id \in RunIds
    <3>1. Whole(B)
      BY <1>2, <2>0, <2>1 DEF WholeRows
    <3> QED  BY <1>1, <3>1, WholeStays
  <2>2. CASE id \notin RunIds
    <3>1. PICK r \in committed' : r.id = id /\ r.table = "ingest_run"
      BY <2>0 DEF RunIds
    <3>2. r \notin committed
      BY <2>2, <3>1 DEF RunIds
    <3>3. PICK q \in done : q \in Procs /\ pc[q] = "txn" /\ r \in pending[q]
      BY <3>2, NewlyCommitted
    <3>4. q = p /\ id = Id(WriterId[p], Reached(p))
      BY <2>0, <3>1, <3>3, HeadersOfOthers DEF Known
    <3>5. PICK s \in Nat : s = SeqOf(p, begun[p]) /\ s = Reached(p)
      BY <1>2, <3>3, <3>4, OwnNumber DEF Known
    <3>6. id - Id(WriterId[p], 0) = s
      <4>1. PICK x \in Nat : x = Id(WriterId[p], 0) /\ id = x + s
        BY <3>4, <3>5, IdNat, IngestionAssumption
      <4>2. id - x = s
        BY <4>1
      <4> QED  BY <4>1, <4>2
    <3>7. B = OwnRows(p)
      BY <1>2, <3>5, <3>6 DEF OwnRows, Batch
    <3>8. \A t \in B : IF t.table = "price_observation"
                       THEN \E o \in Observations' : o.keys = t.keys
                       ELSE t \in committed'
      BY <3>3, <3>4, <3>7, OwnWhole
    <3> QED  BY <3>8 DEF Whole
  <2> QED  BY <2>1, <2>2
<1>3. ASSUME NEW p \in Procs, Kind[p] = "reparse", NEW k \in 0 .. SeedArtifacts - 1,
             ProcessingRun(Id(WriterId[p], k + 1), k + 1, "v2", 2) \in committed'
      PROVE  Whole(AllRows(ReparseStatements(k, WriterId[p], k + 1)))'
  <2> DEFINE h == ProcessingRun(Id(WriterId[p], k + 1), k + 1, "v2", 2)
             B == AllRows(ReparseStatements(k, WriterId[p], k + 1))
  <2>0. k \in Nat /\ k + 1 \in Nat /\ k + 1 <= SeedArtifacts
    BY BatchesAssumption
  <2>1. CASE h \in committed
    <3>1. Whole(B)
      BY <1>3, <2>1 DEF WholeRows
    <3> QED  BY <1>1, <3>1, WholeStays
  <2>2. CASE h \notin committed
    <3>1. PICK q \in done : q \in Procs /\ pc[q] = "txn" /\ h \in OwnRows(q)
      BY <1>3, <2>2, NewlyCommitted
    <3>2. h.id = Id(WriterId[p], k + 1)
      BY DEF ProcessingRun, Row
    <3>3. Id(WriterId[p], k + 1) \in WriterRange(WriterId[p])
      BY <2>0, Wide, InRange, IngestionAssumption, BatchesAssumption
    <3>4. q = p
      <4> SUFFICES ASSUME q # p PROVE FALSE
        OBVIOUS
      <4>1. FromOthers(h, p)
        BY <3>1, OwnFromOthers
      <4> QED  BY <3>2, <3>3, <4>1, OthersForeign DEF Foreign
    <3>5. B = OwnRows(p)
      BY <1>3, <2>0, <3>1, <3>4, ReparseRun
    <3>6. \A t \in B : IF t.table = "price_observation"
                       THEN \E o \in Observations' : o.keys = t.keys
                       ELSE t \in committed'
      BY <3>1, <3>4, <3>5, OwnWhole
    <3> QED  BY <3>6 DEF Whole
  <2> QED  BY <2>1, <2>2
<1> QED  BY <1>2, <1>3 DEF WholeRows, StoresBodies

(* At first nobody has committed anything.                                 *)
LEMMA InitWholeRows == Init => WholeRows
<1> SUFFICES ASSUME Init PROVE WholeRows
  OBVIOUS
<1>1. ASSUME NEW p \in Procs, NEW r \in committed
      PROVE  r.id \notin WriterRange(WriterId[p])
  BY SeedForeign, IngestionAssumption DEF Init, Foreign
<1>2. \A p \in Procs : RunIds \cap WriterRange(WriterId[p]) = {}
  BY <1>1 DEF RunIds
<1>3. ASSUME NEW p \in Procs, NEW k \in 0 .. SeedArtifacts - 1
      PROVE  ProcessingRun(Id(WriterId[p], k + 1), k + 1, "v2", 2) \notin committed
  <2>1. k + 1 \in Nat /\ k + 1 < WriterStride
    BY Wide, BatchesAssumption
  <2>2. Id(WriterId[p], k + 1) \in WriterRange(WriterId[p])
    BY <2>1, InRange, IngestionAssumption
  <2>3. ProcessingRun(Id(WriterId[p], k + 1), k + 1, "v2", 2).id = Id(WriterId[p], k + 1)
    BY DEF ProcessingRun, Row
  <2> QED  BY <1>1, <2>2, <2>3
<1> QED  BY <1>2, <1>3 DEF WholeRows

(* This is that no batch is seen in part.                                  *)
LEMMA SeenWhole ==
  ASSUME Parents, WholeRows
  PROVE  BatchesWhole
<1>1. \A r \in committed : r.refs \subseteq {Name(s) : s \in committed}
  BY DEF Parents, Names
<1>2. ASSUME NEW statements, Whole(AllRows(statements)), NEW i \in 1 .. Len(statements)
      PROVE  Whole(statements[i])
  <2>1. statements[i] \subseteq AllRows(statements)
    BY DEF AllRows
  <2> QED  BY <1>2, <2>1 DEF Whole
<1>3. ASSUME NEW p \in Procs, Kind[p] # "probe", NEW statements \in Statements(p),
             statements[1] \subseteq committed
      PROVE  Whole(AllRows(statements))
  <2>1. CASE Kind[p] = "reparse"
    <3>1. PICK k \in 0 .. SeedArtifacts - 1 :
            statements = ReparseStatements(k, WriterId[p], k + 1)
      BY <2>1 DEF Statements
    <3>2. k \in Nat /\ k + 1 \in Nat /\ WriterId[p] \in Nat
      BY IngestionAssumption, BatchesAssumption
    <3>3. ReparseStatements(k, WriterId[p], k + 1)[1]
            = {ProcessingRun(Id(WriterId[p], k + 1), k + 1, "v2", 2)}
      BY <3>2, HeaderRows
    <3>4. ProcessingRun(Id(WriterId[p], k + 1), k + 1, "v2", 2) \in committed
      BY <1>3, <3>1, <3>3
    <3> QED  BY <2>1, <3>1, <3>4 DEF WholeRows
  <2>2. CASE Kind[p] # "reparse"
    <3>1. StoresBodies(p)
      BY <1>3, <2>2, IngestionAssumption DEF StoresBodies, Kinds
    <3>2. PICK id \in RunIds \cap WriterRange(WriterId[p]) :
            statements = BatchStatements(WriterId[p], id - Id(WriterId[p], 0), RowsOf(p))
      BY <2>2 DEF Statements
    <3> QED  BY <3>1, <3>2 DEF WholeRows
  <2> QED  BY <2>1, <2>2
<1> QED  BY <1>1, <1>2, <1>3 DEF BatchesWhole
----------------------------------------------------------------------------
(* The inductive invariant of what the writers promise of their batches.   *)
BatchInv == IInv /\ CInv /\ WholeRows /\ OnlyReparseRefused

(* It holds at first.                                                      *)
LEMMA InitBatchInv == Init => BatchInv
<1>1. Init => OnlyReparseRefused
  BY DEF Init, OnlyReparseRefused
<1> QED  BY <1>1, InitIInv, InitKnown, InitWholeRows DEF BatchInv, CInv

(* It holds of what each lemma needs.                                      *)
LEMMA InvKnown == BatchInv => Known
  BY DEF BatchInv, IInv, CInv, Known

(* Every step keeps it.                                                    *)
LEMMA NextBatchInv == BatchInv /\ [Next]_vars => BatchInv'
<1> SUFFICES ASSUME BatchInv, [Next]_vars PROVE BatchInv'
  OBVIOUS
<1>1. Known /\ IInv /\ ProbesDone /\ WholeRows /\ OnlyReparseRefused
  BY InvKnown DEF BatchInv, CInv
<1>2. IInv'
  BY <1>1, NextIInv
<1>3. Txns' /\ TypeOK'
  BY <1>2 DEF IInv, Txns
<1>4. PICK done : Turn(done)
  BY <1>1, Turns
<1>5. Closes(done)
  BY <1>4 DEF Turn
<1>6. Progress'
  BY <1>1, <1>3, NextProgress
<1>7. Origins'
  BY <1>1, <1>5, NextOrigins
<1>8. Unused'
  BY <1>1, <1>4, NextUnused
<1>9. ReparseTurns'
  BY <1>1, <1>4, NextReparseTurns
<1>10. ProbesDone'
  BY <1>1, <1>4, NextProbesDone
<1>11. WholeRows'
  BY <1>1, <1>5, NextWholeRows
<1>12. OnlyReparseRefused'
  BY <1>1, <1>3, <1>4, NextRefused
<1> QED
  BY <1>2, <1>6, <1>7, <1>8, <1>9, <1>10, <1>11, <1>12 DEF BatchInv, CInv

(* It holds in every state.                                                *)
LEMMA BatchInvHolds == Spec => []BatchInv
  BY InitBatchInv, NextBatchInv, PTL DEF Spec

(* No constraint ever refuses a writer that records an ingest run, nor a   *)
(* probe: such a writer meets no row of its own or of another, and inserts *)
(* the parents before their children (next_sequence, _id, write_batch).    *)
THEOREM NoWriterRefused == Spec => []OnlyReparseRefused
<1>1. BatchInv => OnlyReparseRefused
  BY DEF BatchInv
<1> QED  BY <1>1, BatchInvHolds, PTL

(* Whatever commits, fails or is killed in between, a batch is seen as a   *)
(* whole or not at all, and an observation that it leaves out is confirmed *)
(* by another row (write_batch, insert_observations).                      *)
THEOREM BatchesAreWhole == Spec => []BatchesWhole
<1>1. BatchInv => BatchesWhole
  BY SeenWhole DEF BatchInv, IInv
<1> QED  BY <1>1, BatchInvHolds, PTL

(* The probes' shared key is confirmed at most once, and exactly once when *)
(* one of them has ended without an error (check_idempotent_concurrent).   *)
THEOREM OneProbeKept == Spec => []ProbesKeepOne
<1>1. BatchInv => ProbesKeepOne
  BY ProbesKept DEF BatchInv, IInv, CInv
<1> QED  BY <1>1, BatchInvHolds, PTL

(* A new observation is not a reparse's.                                   *)
LEMMA NothingAdded ==
  ASSUME Known, [Next]_vars, NEW r \in Observations' \ Observations,
         NEW p \in Procs, Kind[p] = "reparse"
  PROVE  r.id \notin WriterRange(WriterId[p])
<1>1. PICK done : Closes(done)
  BY Turns DEF Turn
<1>2. r \in committed' /\ r \notin committed /\ r.table = "price_observation"
  BY DEF Observations
<1>3. PICK q \in done : /\ q \in Procs /\ pc[q] = "txn" /\ q \notin stale
                        /\ r \in pending[q] /\ r \in OwnRows(q)
  BY <1>1, <1>2, NewlyCommitted
<1>4. q # p
  BY <1>2, <1>3 DEF Known, Progress, ProgressPart, Active
<1>5. FromOthers(r, p)
  BY <1>3, <1>4, OwnFromOthers
<1> QED  BY <1>5, OthersForeign DEF Foreign

(* A reparse never confirms an observation: every one that it derives has  *)
(* the key of the seed observation it repeats (_reparse_batch).            *)
THEOREM ReparsesAddNothing == Spec => ReparseAddsNothing
<1>1. Known /\ [Next]_vars =>
        [\A r \in Observations' \ Observations :
           \A p \in Procs : Kind[p] = "reparse" => r.id \notin WriterRange(WriterId[p])]_vars
  BY NothingAdded
<1>2. Spec => []Known
  BY BatchInvHolds, InvKnown, PTL
<1> QED  BY <1>1, <1>2, PTL DEF Spec, ReparseAddsNothing
=============================================================================
