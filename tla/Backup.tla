------------------------------- MODULE Backup -------------------------------
(***************************************************************************)
(* The encrypted backup of the database PoC and its restore                *)
(* (dbpoc/backup.py): one directory for each product, which the next       *)
(* backup empties first, and a second instance to restore into.  Writers   *)
(* may go on beside both; nothing in backup() stops them.  Each process    *)
(* may be killed, files may rot and artifact bodies may be lost.           *)
(*                                                                         *)
(* Every row of the database comes from a batch: a stored batch has rows   *)
(* in every table, a reparsed one has no artifact and no observation of    *)
(* its own.  So the rows of a table are a set of batches.                  *)
(***************************************************************************)
EXTENDS Integers, Sequences, FiniteSets

CONSTANTS
  Engines,     \* the products compared
  Stored,      \* batches that store an artifact, by number
  Reparsed,    \* batches that reparse one
  Loaded,      \* the batches the source database starts with
  HashSample,  \* ARTIFACT_HASH_SAMPLE
  RowSample,   \* ROW_HASH_SAMPLE
  MaxBackups,  \* backups begun (bound)
  MaxRestores, \* restores begun (bound)
  MaxFaults    \* kills, failed loads, rotten files and lost bodies (bound)

ASSUME BackupAssumption ==
  /\ Engines \subseteq {"postgres", "mariadb"}
  /\ Stored \subseteq Nat /\ IsFiniteSet(Stored)
  /\ Reparsed \subseteq Nat /\ IsFiniteSet(Reparsed)
  /\ Stored \cap Reparsed = {}
  /\ Loaded \subseteq Stored \cup Reparsed
  /\ HashSample \in Nat \ {0}
  /\ RowSample \in Nat
  /\ MaxBackups \in Nat
  /\ MaxRestores \in Nat
  /\ MaxFaults \in Nat

Batches == Stored \cup Reparsed

(* TABLE_ORDER, one table for each kind of rows, and the sample that        *)
(* entity_fingerprint reads after the counts.                               *)
Tables == {"raw_artifact", "extracted_record", "price_observation"}
Reads == <<"raw_artifact", "extracted_record", "price_observation", "sample">>
ReadNames == Tables \cup {"sample"}

RowsOf(read, batches) ==
  IF read = "extracted_record" THEN batches ELSE batches \cap Stored

(* ORDER BY id LIMIT n *)
Lowest(n, batches) == {b \in batches : Cardinality({c \in batches : c < b}) < n}

Labels == {"database", "globals"}
Encrypted(label) == IF label = "database" THEN "database.enc" ELSE "globals.enc"
Files == Labels \cup {Encrypted(l) : l \in Labels} \cup {"manifest", "hashes"}

Contents == {"none", "whole", "damaged"}

VARIABLES
  engine,     \* the product
  committed,  \* the batches whose rows the source database holds
  bodies,     \* the artifact bodies: none, stored, or altered since
  dir,        \* the files of the backup directory
  backups,    \* backups begun
  bpc,        \* where backup() is
  next,       \* the next read of entity_fingerprint
  dumped,     \* what the dump of the backup set holds
  sums,       \* the checksums in its manifest
  hashes,     \* the artifact hashes it sampled
  counted,    \* the rows each read of its fingerprint saw
  basis,      \* the batches committed at its basis_time (history)
  rpc,        \* where restore() is
  checked,    \* its checksum_results
  restored,   \* the rows of each table of the restored database
  agreed,     \* what its verification found
  verdict,    \* how the last restore of this set ended
  restores,   \* restores begun
  late,       \* a batch was committed inside its window (history)
  faults      \* faults so far

setVars == <<dumped, sums, hashes, counted, basis>>
backupVars == <<backups, bpc, next>>
restoreVars == <<rpc, checked, restored, agreed, verdict, restores>>
sourceVars == <<committed, bodies>>
vars == <<engine, committed, bodies, dir, backups, bpc, next, dumped, sums, hashes,
          counted, basis, rpc, checked, restored, agreed, verdict, restores, late,
          faults>>

(* From the snapshot of the dump to the last read of the fingerprint. *)
Window == {"copy", "globals", "encrypt database", "unlink database",
           "encrypt globals", "unlink globals", "sums", "artifacts", "count"}
----------------------------------------------------------------------------
Init ==
  /\ engine \in Engines
  /\ committed = Loaded
  /\ bodies = [b \in Stored |-> IF b \in Loaded THEN "stored" ELSE "none"]
  /\ dir = [f \in Files |-> "none"]
  /\ backups = 0 /\ bpc = "idle" /\ next = 1
  /\ dumped = {} /\ hashes = {} /\ basis = {}
  /\ sums = [l \in Labels |-> "none"]
  /\ counted = [t \in ReadNames |-> {}]
  /\ rpc = "idle" /\ checked = FALSE /\ restored = [t \in Tables |-> {}] /\ agreed = FALSE
  /\ verdict = "none" /\ restores = 0
  /\ late = FALSE
  /\ faults = 0

(* A writer commits a batch; the body of its artifact is stored by then     *)
(* (module Ingestion).                                                      *)
CommitBatch(b) ==
  /\ b \in Batches \ committed
  /\ committed' = committed \cup {b}
  /\ bodies' = [c \in Stored |-> IF c = b THEN "stored" ELSE bodies[c]]
  /\ late' = (late \/ bpc \in Window)
  /\ UNCHANGED <<engine, dir, backupVars, setVars, restoreVars, faults>>
----------------------------------------------------------------------------
(* backup().  The previous set is removed file by file.                     *)
BeginBackup ==
  /\ bpc = "idle" /\ rpc = "idle" /\ backups < MaxBackups
  /\ backups' = backups + 1
  /\ bpc' = "remove"
  /\ UNCHANGED <<engine, sourceVars, dir, next, setVars, restoreVars, late, faults>>

RemoveFile(f) ==
  /\ bpc = "remove" /\ dir[f] # "none"
  /\ dir' = [dir EXCEPT ![f] = "none"]
  /\ UNCHANGED <<engine, sourceVars, backupVars, setVars, restoreVars, late, faults>>

(* basis = datetime.now(UTC), before the dump starts.                       *)
TakeBasis ==
  /\ bpc = "remove" /\ \A f \in Files : dir[f] = "none"
  /\ basis' = committed
  /\ late' = FALSE
  /\ verdict' = "none"
  /\ bpc' = "dump"
  /\ UNCHANGED <<engine, sourceVars, dir, backups, next, dumped, sums, hashes,
                 counted, rpc, checked, restored, agreed, restores, faults>>

(* pg_dump and mariadb-dump --single-transaction read from one snapshot.    *)
TakeSnapshot ==
  /\ bpc = "dump"
  /\ dumped' = committed
  /\ bpc' = "copy"
  /\ UNCHANGED <<engine, sourceVars, dir, backups, next, sums, hashes, counted,
                 basis, restoreVars, late, faults>>

(* One file is written as a whole, or removed, and backup() goes on. *)
Leaves(step, file, content, after) ==
  /\ bpc = step
  /\ dir' = [dir EXCEPT ![file] = content]
  /\ bpc' = after
  /\ UNCHANGED <<engine, sourceVars, backups, next, setVars, restoreVars, late, faults>>

WriteDump == Leaves("copy", "database", "whole", "globals")
WriteGlobals == Leaves("globals", "globals", "whole", "encrypt database")

(* _encrypt: openssl writes the encrypted file, then the source is removed. *)
EncryptDump == Leaves("encrypt database", "database.enc", dir["database"], "unlink database")
UnlinkDump == Leaves("unlink database", "database", "none", "encrypt globals")
EncryptGlobals == Leaves("encrypt globals", "globals.enc", dir["globals"], "unlink globals")
UnlinkGlobals == Leaves("unlink globals", "globals", "none", "sums")

TakeSums ==
  /\ bpc = "sums"
  /\ sums' = [l \in Labels |-> dir[Encrypted(l)]]
  /\ bpc' = "artifacts"
  /\ UNCHANGED <<engine, sourceVars, dir, backups, next, dumped, hashes, counted,
                 basis, restoreVars, late, faults>>

(* artifact_manifest: of the artifacts in the order of their ids, those at  *)
(* every index that the step up to there divides are looked at, and the     *)
(* first HashSample of them that exist are hashed.  A missing one is noted, *)
(* and nothing is made of it.                                               *)
Picked(artifacts) ==
  {b \in artifacts :
     LET index == Cardinality({c \in artifacts : c < b})
         step == (index + 1) \div HashSample
     IN  step = 0 \/ index % step = 0}

(* A slip: a missing artifact is hashed as well. *)
HashMissing ==
  /\ bpc = "artifacts"
  /\ hashes' = {<<b, bodies[b]>> : b \in
                  Lowest(HashSample, Picked(committed \cap Stored))}
  /\ bpc' = "count"
  /\ next' = 1
  /\ UNCHANGED <<engine, sourceVars, dir, backups, dumped, sums, counted, basis,
                 restoreVars, late, faults>>

HashArtifacts ==
  /\ bpc = "artifacts"
  /\ hashes' = {<<b, bodies[b]>> : b \in
                  Lowest(HashSample, {c \in Picked(committed \cap Stored) : bodies[c] # "none"})}
  /\ bpc' = "count"
  /\ next' = 1
  /\ UNCHANGED <<engine, sourceVars, dir, backups, dumped, sums, counted, basis,
                 restoreVars, late, faults>>

(* entity_fingerprint.  PostgreSQL gives every statement a snapshot of its  *)
(* own, MariaDB (REPEATABLE READ) gives all of them the first one's.        *)
Count ==
  /\ bpc = "count"
  /\ LET last == IF engine = "mariadb" THEN Len(Reads) ELSE next
     IN  /\ counted' = [t \in ReadNames |->
                          IF \E i \in next .. last : Reads[i] = t
                          THEN RowsOf(t, committed) ELSE counted[t]]
         /\ next' = last + 1
         /\ bpc' = IF last = Len(Reads) THEN "manifest" ELSE "count"
  /\ UNCHANGED <<engine, sourceVars, dir, backups, dumped, sums, hashes, basis,
                 restoreVars, late, faults>>

(* A slip: the basis time is the time the manifest is written at. *)
WriteManifestNow ==
  /\ bpc = "manifest"
  /\ basis' = committed
  /\ dir' = [dir EXCEPT !["manifest"] = "whole"]
  /\ bpc' = "hashes"
  /\ UNCHANGED <<engine, sourceVars, backups, next, dumped, sums, hashes, counted,
                 restoreVars, late, faults>>

WriteManifest == Leaves("manifest", "manifest", "whole", "hashes")
WriteHashes == Leaves("hashes", "hashes", "whole", "idle")

Writing ==
  CASE bpc = "copy"             -> {"database"}
    [] bpc = "globals"          -> {"globals"}
    [] bpc = "encrypt database" -> {"database.enc"}
    [] bpc = "encrypt globals"  -> {"globals.enc"}
    [] bpc = "manifest"         -> {"manifest"}
    [] bpc = "hashes"           -> {"hashes"}
    [] OTHER                    -> {}

(* backup() is killed, or one of its commands fails; the file it was        *)
(* writing may be left behind in part.                                      *)
BackupDies ==
  /\ bpc # "idle" /\ faults < MaxFaults
  /\ faults' = faults + 1
  /\ \E part \in SUBSET Writing :
       dir' = [f \in Files |-> IF f \in part THEN "damaged" ELSE dir[f]]
  /\ bpc' = "idle"
  /\ UNCHANGED <<engine, sourceVars, backups, next, setVars, restoreVars, late>>
----------------------------------------------------------------------------
(* restore() raises: what was decrypted stays.                              *)
Raised(how) ==
  /\ rpc' = "idle"
  /\ verdict' = how
  /\ UNCHANGED <<engine, sourceVars, backupVars, setVars, late>>

CanRead ==
  /\ dir["manifest"] = "whole"
  /\ \A l \in Labels : dir[Encrypted(l)] # "none"

BeginRestore ==
  /\ rpc = "idle" /\ bpc = "idle" /\ restores < MaxRestores
  /\ CanRead
  /\ restores' = restores + 1
  /\ checked' = \A l \in Labels : dir[Encrypted(l)] = sums[l]
  /\ verdict' = "none"
  /\ rpc' = "prepare"
  /\ UNCHANGED <<engine, sourceVars, dir, backupVars, setVars, restored, agreed,
                 late, faults>>

(* There is no manifest, or it is cut short, or a file it names is missing. *)
NothingToRestore ==
  /\ rpc = "idle" /\ bpc = "idle" /\ restores < MaxRestores
  /\ ~CanRead
  /\ restores' = restores + 1
  /\ Raised("raised")
  /\ UNCHANGED <<dir, checked, restored, agreed, faults>>

(* instances.sh init and start: the instance is a new one.                  *)
Prepare ==
  /\ rpc = "prepare"
  /\ restored' = [t \in Tables |-> {}]
  /\ rpc' = "decrypt"
  /\ UNCHANGED <<engine, sourceVars, dir, backupVars, setVars, checked, agreed,
                 verdict, restores, late, faults>>

Decrypt ==
  /\ rpc = "decrypt"
  /\ dir' = [f \in Files |-> IF f \in Labels THEN dir[Encrypted(f)] ELSE dir[f]]
  /\ rpc' = "load"
  /\ UNCHANGED <<engine, sourceVars, backupVars, setVars, checked, restored, agreed,
                 verdict, restores, late, faults>>

(* openssl notices some damage, and leaves what it has written.             *)
DecryptFails ==
  /\ rpc = "decrypt" /\ \E l \in Labels : dir[Encrypted(l)] = "damaged"
  /\ \E left \in SUBSET Labels :
       dir' = [f \in Files |-> IF f \in left THEN "damaged" ELSE dir[f]]
  /\ Raised("raised")
  /\ UNCHANGED <<checked, restored, agreed, restores, faults>>

Loads(rows) ==
  /\ rpc = "load"
  /\ restored' = rows
  /\ rpc' = "verify"
  /\ UNCHANGED <<engine, sourceVars, dir, backupVars, setVars, checked, agreed,
                 verdict, restores, late>>

Load ==
  /\ dir["database"] = "whole"
  /\ Loads([t \in Tables |-> RowsOf(t, dumped)])
  /\ UNCHANGED faults

LoadIsDamaged(labels) ==
  \/ (\E l \in labels : dir[l] # "whole") /\ UNCHANGED faults
  \/ faults < MaxFaults /\ faults' = faults + 1

(* The return codes of psql, pg_restore and mariadb are not looked at: a    *)
(* load that loses rows, of any table, goes on to the verification.         *)
LoadsInPart ==
  /\ LoadIsDamaged({"database"})
  /\ \E rows \in [Tables -> SUBSET dumped] :
       /\ \A t \in Tables : rows[t] \subseteq RowsOf(t, dumped)
       /\ Loads(rows)

(* createdb has no owner, gzip rejects the file, or a table the             *)
(* verification reads is not there.                                         *)
LoadFails ==
  /\ rpc = "load" /\ LoadIsDamaged(Labels)
  /\ Raised("raised")
  /\ UNCHANGED <<dir, checked, restored, agreed, restores>>

(* A slip: only the observations are counted. *)
ObservationCountMatches ==
  Cardinality(restored["price_observation"]) = Cardinality(counted["price_observation"])

(* A slip: the restored rows are compared with the source as it is now. *)
CountsMatchToday ==
  \A t \in Tables : Cardinality(restored[t]) = Cardinality(RowsOf(t, committed))

CountsMatch ==
  \A t \in Tables : Cardinality(restored[t]) = Cardinality(counted[t])

SampleMatches ==
  Lowest(RowSample, restored["price_observation"]) = Lowest(RowSample, counted["sample"])

Missing == {b \in restored["raw_artifact"] : bodies[b] = "none"}

(* _verify_artifacts reads the hashes and every file they name.             *)
CanVerify ==
  /\ dir["hashes"] = "whole"
  /\ \A h \in hashes : bodies[h[1]] # "none"

Verify ==
  /\ rpc = "verify" /\ CanVerify
  /\ agreed' = /\ checked
               /\ CountsMatch
               /\ SampleMatches
               /\ Missing = {}
               /\ \A h \in hashes : bodies[h[1]] = h[2]
  /\ rpc' = "clean"
  /\ UNCHANGED <<engine, sourceVars, dir, backupVars, setVars, checked, restored,
                 verdict, restores, late, faults>>

CannotVerify ==
  /\ rpc = "verify" /\ ~CanVerify
  /\ Raised("raised")
  /\ UNCHANGED <<dir, checked, restored, agreed, restores, faults>>

(* A slip: only the dump is removed again. *)
CleanDump ==
  /\ rpc = "clean"
  /\ dir' = [dir EXCEPT !["database"] = "none"]
  /\ verdict' = IF agreed THEN "pass" ELSE "fail"
  /\ rpc' = "idle"
  /\ UNCHANGED <<engine, sourceVars, backupVars, setVars, checked, restored, agreed,
                 restores, late, faults>>

Clean ==
  /\ rpc = "clean"
  /\ dir' = [f \in Files |-> IF f \in Labels THEN "none" ELSE dir[f]]
  /\ verdict' = IF agreed THEN "pass" ELSE "fail"
  /\ rpc' = "idle"
  /\ UNCHANGED <<engine, sourceVars, backupVars, setVars, checked, restored, agreed,
                 restores, late, faults>>

RestoreDies ==
  /\ rpc # "idle" /\ faults < MaxFaults
  /\ faults' = faults + 1
  /\ Raised("killed")
  /\ UNCHANGED <<dir, checked, restored, agreed, restores>>
----------------------------------------------------------------------------
(* A finished file rots on the disk.                                        *)
Rot(f) ==
  /\ dir[f] = "whole" /\ faults < MaxFaults
  /\ faults' = faults + 1
  /\ dir' = [dir EXCEPT ![f] = "damaged"]
  /\ UNCHANGED <<engine, sourceVars, backupVars, setVars, restoreVars, late>>

(* An artifact body is lost or altered.                                     *)
LoseBody(b) ==
  /\ b \in committed \cap Stored /\ bodies[b] = "stored" /\ faults < MaxFaults
  /\ faults' = faults + 1
  /\ \E left \in {"none", "altered"} : bodies' = [bodies EXCEPT ![b] = left]
  /\ UNCHANGED <<engine, committed, dir, backupVars, setVars, restoreVars, late>>

Next ==
  \/ \E b \in Batches : CommitBatch(b) \/ LoseBody(b)
  \/ BeginBackup \/ TakeBasis \/ TakeSnapshot \/ WriteDump \/ WriteGlobals
  \/ EncryptDump \/ UnlinkDump \/ EncryptGlobals \/ UnlinkGlobals \/ TakeSums
  \/ HashArtifacts \/ Count \/ WriteManifest \/ WriteHashes \/ BackupDies
  \/ BeginRestore \/ NothingToRestore \/ Prepare \/ Decrypt \/ DecryptFails
  \/ Load \/ LoadsInPart \/ LoadFails \/ Verify \/ CannotVerify \/ Clean \/ RestoreDies
  \/ \E f \in Files : RemoveFile(f) \/ Rot(f)

Spec == Init /\ [][Next]_vars
----------------------------------------------------------------------------
BackupPCs ==
  Window \cup {"idle", "remove", "dump", "manifest", "hashes"}

(* Types and bounds of the source, the directory and both processes         *)
(* (backup.py).                                                             *)
TypeOK ==
  /\ engine \in Engines
  /\ committed \subseteq Batches
  /\ bodies \in [Stored -> {"none", "stored", "altered"}]
  /\ dir \in [Files -> Contents]
  /\ backups \in 0 .. MaxBackups
  /\ bpc \in BackupPCs
  /\ next \in 1 .. Len(Reads) + 1
  /\ dumped \subseteq Batches
  /\ sums \in [Labels -> Contents]
  /\ hashes \subseteq Stored \X {"stored", "altered"}
  /\ counted \in [ReadNames -> SUBSET Batches]
  /\ basis \subseteq Batches
  /\ rpc \in {"idle", "prepare", "decrypt", "load", "verify", "clean"}
  /\ checked \in BOOLEAN
  /\ restored \in [Tables -> SUBSET Batches]
  /\ agreed \in BOOLEAN
  /\ verdict \in {"none", "pass", "fail", "raised", "killed"}
  /\ restores \in 0 .. MaxRestores
  /\ late \in BOOLEAN
  /\ faults \in 0 .. MaxFaults

(* A restore that passes holds exactly the rows the fingerprint counted,    *)
(* table by table, although the dump was taken earlier, each count saw      *)
(* another state of the source, the load may have stopped early, and only   *)
(* numbers are compared (restore, entity_fingerprint).                      *)
AcceptedRestoreAgrees ==
  verdict = "pass" =>
    \A t \in Tables : restored[t] = counted[t]

(* A restore that passes has everything that was committed at the basis     *)
(* time of its manifest, which backup_age measures the age of the backup    *)
(* from (backup, monitor.backup_age).                                       *)
BasisCovered ==
  verdict = "pass" => \A t \in Tables : RowsOf(t, basis) \subseteq restored[t]

(* The verification accepts a sound backup: without a kill, damage or loss, *)
(* only a commit between the dump and the fingerprint makes it fail, no     *)
(* matter what is committed before and after ("Worker stopped for the       *)
(* backup window").                                                         *)
SoundBackupAccepted ==
  dir["manifest"] = "whole" /\ verdict \in {"fail", "raised"} /\ faults = 0 => late

(* Beside the set of the last backup, once its manifest is there, nothing   *)
(* is left in plain text but by a restore that is under way or did not come *)
(* to its end (_encrypt, restore).                                          *)
PlainTextGone ==
  dir["manifest"] = "whole" /\ rpc = "idle" /\ verdict \in {"none", "pass", "fail"}
    => \A l \in Labels : dir[l] = "none"
=============================================================================
