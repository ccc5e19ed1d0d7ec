---------------------------- MODULE BackupProofs ----------------------------
(***************************************************************************)
(* Proofs about Backup: a restore that passes holds exactly the rows the   *)
(* fingerprint counted, and all of those committed at the basis time; a    *)
(* sound backup passes; and no plain text stays beside the encrypted files.*)
(*                                                                         *)
(* The first argument (IInv): the source only grows, so what is committed  *)
(* at the basis time is in the dump, and what is in the dump is seen by    *)
(* every later count.  A load restores no more than the dump holds.  So    *)
(* each restored table is a subset of a finite counted one, and equal      *)
(* numbers are equal tables.                                               *)
(*                                                                         *)
(* The second (JInv): as long as no fault was counted, every file that a   *)
(* step reads is there and whole, from the dump to the load; with no batch *)
(* committed in between, what is restored is what was counted.             *)
(***************************************************************************)
EXTENDS Backup, FiniteSetTheorems, TLAPS

(* backup() has taken its snapshot and is still at work.                   *)
AfterSnapshot == Window \cup {"manifest", "hashes"}

(* What the rest of the invariant needs of the types.                       *)
Shape ==
  /\ committed \subseteq Batches
  /\ dir = [f \in Files |-> dir[f]]
  /\ next \in Nat
  /\ bpc = "count" => next \in 1 .. 4
  /\ \A t \in ReadNames : counted[t] \subseteq committed
  /\ counted = [t \in ReadNames |-> counted[t]]

(* Backup and restore take turns, a verdict is of the last restore of the  *)
(* set that is there, and only a set with its manifest is restored.        *)
Turns ==
  /\ bpc # "idle" => rpc = "idle"
  /\ rpc # "idle" \/ bpc \notin {"idle", "remove"} => verdict = "none"
  /\ bpc \in Window \cup {"dump", "manifest"} => dir["manifest"] = "none"
  /\ rpc # "idle" => dir["manifest"] # "none"

(* What was committed at the basis time is in the dump.                     *)
DumpAfterBasis ==
  /\ basis \subseteq committed
  /\ dumped \subseteq committed
  /\ bpc \in AfterSnapshot \/ dir["manifest"] # "none" => basis \subseteq dumped

(* What is in the dump has been seen by every read that is done.            *)
CountedAfterDump ==
  /\ bpc = "count" =>
       \A i \in 1 .. next - 1 :
         i \in 1 .. Len(Reads) => RowsOf(Reads[i], dumped) \subseteq counted[Reads[i]]
  /\ bpc = "manifest" \/ dir["manifest"] # "none" =>
       \A t \in ReadNames : RowsOf(t, dumped) \subseteq counted[t]

(* The restored instance, from the load to the verdict.                     *)
RestoredFromDump ==
  /\ rpc \in {"verify", "clean"} =>
       \A t \in Tables : restored[t] \subseteq RowsOf(t, dumped)
  /\ rpc = "clean" /\ agreed => \A t \in Tables : restored[t] = counted[t]
  /\ AcceptedRestoreAgrees
  /\ BasisCovered

(* The inductive invariant of the first argument: what the set holds and   *)
(* what a restore makes of it.                                             *)
IInv ==
  /\ Shape
  /\ Turns
  /\ DumpAfterBasis
  /\ CountedAfterDump
  /\ RestoredFromDump
----------------------------------------------------------------------------
(* RowsOf keeps the order of sets of batches (TABLE_ORDER).                 *)
LEMMA RowsGrow ==
  ASSUME NEW A, NEW B, A \subseteq B, NEW t
  PROVE  RowsOf(t, A) \subseteq RowsOf(t, B) /\ RowsOf(t, A) \subseteq A
BY DEF RowsOf

(* The reads of entity_fingerprint. *)
LEMMA ReadsInOrder ==
  /\ Len(Reads) = 4
  /\ \A i \in 1 .. 4 : Reads[i] \in ReadNames
  /\ \A t \in ReadNames : \E i \in 1 .. 4 : Reads[i] = t
<1>1. Len(Reads) = 4
  BY DEF Reads
<1>2. /\ Reads[1] = "raw_artifact" /\ Reads[2] = "extracted_record"
      /\ Reads[3] = "price_observation" /\ Reads[4] = "sample"
  BY DEF Reads
<1> QED  BY <1>1, <1>2 DEF ReadNames, Tables

(* The state of the first moment: nothing is backed up (backup.py).         *)
LEMMA InitHolds == Init => IInv
<1> SUFFICES ASSUME Init PROVE IInv
  OBVIOUS
<1>1. Shape
  BY BackupAssumption DEF Init, Shape, Batches
<1>2. dir["manifest"] = "none"
  BY DEF Init, Files
<1>3. Turns /\ DumpAfterBasis /\ CountedAfterDump /\ RestoredFromDump
  BY <1>2 DEF Init, Turns, DumpAfterBasis, CountedAfterDump, RestoredFromDump,
     AcceptedRestoreAgrees, BasisCovered, Window, AfterSnapshot
<1> QED  BY <1>1, <1>3 DEF IInv

(* The manifest is a file of its own. *)
LEMMA ManifestIsFile ==
  /\ "manifest" \in Files
  /\ \A l \in Labels : l # "manifest" /\ Encrypted(l) # "manifest"
BY DEF Files, Labels, Encrypted

(* Every action keeps the shape of the state (backup.py).                   *)
LEMMA ShapeKept == Shape /\ [Next]_vars => Shape'
<1> SUFFICES ASSUME Shape, [Next]_vars PROVE Shape'
  OBVIOUS
<1>1. ASSUME NEW b \in Batches, CommitBatch(b) PROVE Shape'
  BY <1>1 DEF CommitBatch, Shape, sourceVars, backupVars, setVars, restoreVars
<1>2. ASSUME NEW f \in Files, RemoveFile(f) PROVE Shape'
  BY <1>2 DEF RemoveFile, Shape, sourceVars, backupVars, setVars, restoreVars
<1>3. CASE Count
  <2> DEFINE last == IF engine = "mariadb" THEN Len(Reads) ELSE next
  <2> USE <1>3 DEF Count
  <2>1. /\ counted' = [t \in ReadNames |->
                        IF \E i \in next .. last : Reads[i] = t
                        THEN RowsOf(t, committed) ELSE counted[t]]
        /\ next' = last + 1
        /\ UNCHANGED <<committed, dir>>
    BY DEF sourceVars
  <2>2. last + 1 \in Nat /\ (bpc' = "count" => last + 1 \in 1 .. 4)
    BY ReadsInOrder DEF Shape
  <2> HIDE DEF last
  <2>3. \A t \in ReadNames : counted'[t] \subseteq committed
    BY <2>1, RowsGrow DEF Shape
  <2>4. counted' = [t \in ReadNames |-> counted'[t]]
    BY <2>1
  <2>5. committed' = committed /\ dir' = dir /\ next' = last + 1
    BY <2>1
  <2> QED  BY <2>2, <2>3, <2>4, <2>5 DEF Shape
<1>4. CASE BackupDies
  BY <1>4 DEF BackupDies, Shape, sourceVars, backupVars, setVars, restoreVars
<1>5. CASE Decrypt
  BY <1>5 DEF Decrypt, Shape, sourceVars, backupVars, setVars, restoreVars
<1>6. CASE DecryptFails
  BY <1>6 DEF DecryptFails, Raised, Shape, sourceVars, backupVars, setVars,
     restoreVars
<1>7. CASE Clean
  BY <1>7 DEF Clean, Shape, sourceVars, backupVars, setVars, restoreVars
<1>8. ASSUME NEW f \in Files, Rot(f) PROVE Shape'
  BY <1>8 DEF Rot, Shape, sourceVars, backupVars, setVars, restoreVars
<1>9. CASE \/ WriteDump \/ WriteGlobals \/ EncryptDump \/ UnlinkDump
           \/ EncryptGlobals \/ UnlinkGlobals \/ WriteManifest
           \/ WriteHashes
  BY <1>9 DEF WriteDump, Leaves, WriteGlobals, EncryptDump, UnlinkDump,
     EncryptGlobals, UnlinkGlobals, WriteManifest, WriteHashes, Shape,
     sourceVars, backupVars, setVars, restoreVars
<1>10. CASE \/ \E b \in Batches : LoseBody(b)
            \/ BeginBackup \/ TakeBasis \/ TakeSnapshot \/ TakeSums
            \/ HashArtifacts
  BY <1>10 DEF LoseBody, BeginBackup, TakeBasis, TakeSnapshot, TakeSums,
     HashArtifacts, Shape, sourceVars, backupVars, setVars, restoreVars
<1>11. CASE \/ BeginRestore \/ NothingToRestore \/ Prepare \/ Load
            \/ LoadsInPart \/ LoadFails \/ Verify \/ CannotVerify
            \/ RestoreDies
  BY <1>11 DEF BeginRestore, NothingToRestore, Raised, Prepare, Load, Loads,
     LoadsInPart, LoadIsDamaged, LoadFails, Verify, CannotVerify, RestoreDies,
     Shape, sourceVars, backupVars, setVars, restoreVars
<1>12. CASE UNCHANGED vars
  BY <1>12 DEF vars, Shape, sourceVars, backupVars, setVars, restoreVars
<1> QED  BY <1>1, <1>2, <1>3, <1>4, <1>5, <1>6, <1>7, <1>8, <1>9, <1>10, <1>11,
            <1>12 DEF Next

(* Backup and restore go on taking turns (main, backup, restore).           *)
LEMMA TurnsKept == Shape /\ Turns /\ [Next]_vars => Turns'
<1> SUFFICES ASSUME Shape /\ Turns, [Next]_vars PROVE Turns'
  OBVIOUS
<1>1. CASE TakeBasis
  BY <1>1, ManifestIsFile DEF TakeBasis, Shape, Turns, Window, CanRead,
     sourceVars, backupVars, setVars, restoreVars
<1>2. CASE WriteManifest
  BY <1>2, ManifestIsFile DEF WriteManifest, Leaves, Shape, Turns, Window,
     CanRead, sourceVars, backupVars, setVars, restoreVars
<1>3. CASE BackupDies
  BY <1>3, ManifestIsFile DEF BackupDies, Shape, Turns, Window, CanRead,
     sourceVars, backupVars, setVars, restoreVars
<1>4. CASE BeginRestore
  BY <1>4, ManifestIsFile DEF BeginRestore, Shape, Turns, Window, CanRead,
     sourceVars, backupVars, setVars, restoreVars
<1>5. CASE \/ WriteDump \/ WriteGlobals \/ EncryptDump \/ UnlinkDump
           \/ EncryptGlobals \/ UnlinkGlobals \/ WriteHashes
  BY <1>5, ManifestIsFile DEF WriteDump, Leaves, WriteGlobals, EncryptDump,
     UnlinkDump, EncryptGlobals, UnlinkGlobals, WriteHashes, Shape, Turns,
     Window, CanRead, sourceVars, backupVars, setVars, restoreVars
<1>6. CASE \/ \E b \in Batches : CommitBatch(b)
           \/ \E b \in Batches : LoseBody(b)
           \/ \E f \in Files : RemoveFile(f)
           \/ \E f \in Files : Rot(f)
           \/ BeginBackup \/ TakeSnapshot \/ TakeSums \/ HashArtifacts
           \/ Count \/ NothingToRestore \/ Prepare \/ Decrypt
           \/ DecryptFails \/ Load \/ LoadsInPart \/ LoadFails \/ Verify
           \/ CannotVerify \/ Clean \/ RestoreDies
  BY <1>6, ManifestIsFile DEF CommitBatch, LoseBody, RemoveFile, Rot,
     BeginBackup, TakeSnapshot, TakeSums, HashArtifacts, Count,
     NothingToRestore, Raised, Prepare, Decrypt, DecryptFails, Load, Loads,
     LoadsInPart, LoadIsDamaged, LoadFails, Verify, CannotVerify, Clean,
     RestoreDies, Shape, Turns, Window, CanRead, sourceVars, backupVars,
     setVars, restoreVars
<1>7. CASE UNCHANGED vars
  BY <1>7 DEF vars, Shape, Turns, Window, CanRead, sourceVars, backupVars,
     setVars, restoreVars
<1> QED  BY <1>1, <1>2, <1>3, <1>4, <1>5, <1>6, <1>7 DEF Next

(* The dump goes on holding what was committed at the basis time (backup).  *)
LEMMA DumpAfterBasisKept == Shape /\ Turns /\ DumpAfterBasis /\ [Next]_vars => DumpAfterBasis'
<1> SUFFICES ASSUME Shape /\ Turns /\ DumpAfterBasis, [Next]_vars PROVE DumpAfterBasis'
  OBVIOUS
<1>1. ASSUME NEW b \in Batches, CommitBatch(b) PROVE DumpAfterBasis'
  BY <1>1, ManifestIsFile DEF CommitBatch, Shape, Turns, DumpAfterBasis, Window,
     AfterSnapshot, sourceVars, backupVars, setVars, restoreVars
<1>2. CASE TakeBasis
  BY <1>2, ManifestIsFile DEF TakeBasis, Shape, Turns, DumpAfterBasis, Window,
     AfterSnapshot, sourceVars, backupVars, setVars, restoreVars
<1>3. CASE TakeSnapshot
  BY <1>3, ManifestIsFile DEF TakeSnapshot, Shape, Turns, DumpAfterBasis,
     Window, AfterSnapshot, sourceVars, backupVars, setVars, restoreVars
<1>4. CASE BackupDies
  <2>1. dir'["manifest"] # "none" => dir["manifest"] # "none" \/ bpc = "manifest"
    BY <1>4, ManifestIsFile DEF BackupDies, Writing, Shape
  <2> QED  BY <1>4, <2>1 DEF BackupDies, sourceVars, backupVars, setVars,
              restoreVars, Turns, DumpAfterBasis, AfterSnapshot, Window
<1>5. CASE \/ WriteDump \/ WriteGlobals \/ EncryptDump \/ UnlinkDump
           \/ EncryptGlobals \/ UnlinkGlobals \/ WriteManifest
           \/ WriteHashes
  BY <1>5, ManifestIsFile DEF WriteDump, Leaves, WriteGlobals, EncryptDump,
     UnlinkDump, EncryptGlobals, UnlinkGlobals, WriteManifest, WriteHashes,
     Shape, Turns, DumpAfterBasis, Window, AfterSnapshot, sourceVars,
     backupVars, setVars, restoreVars
<1>6. CASE \/ \E b \in Batches : LoseBody(b)
           \/ \E f \in Files : RemoveFile(f)
           \/ \E f \in Files : Rot(f)
           \/ BeginBackup \/ TakeSums \/ HashArtifacts \/ Count
           \/ BeginRestore \/ NothingToRestore \/ Prepare \/ Decrypt
           \/ DecryptFails \/ Load \/ LoadsInPart \/ LoadFails \/ Verify
           \/ CannotVerify \/ Clean \/ RestoreDies
  BY <1>6, ManifestIsFile DEF LoseBody, RemoveFile, Rot, BeginBackup, TakeSums,
     HashArtifacts, Count, BeginRestore, NothingToRestore, Raised, Prepare,
     Decrypt, DecryptFails, Load, Loads, LoadsInPart, LoadIsDamaged, LoadFails,
     Verify, CannotVerify, Clean, RestoreDies, Shape, Turns, DumpAfterBasis,
     Window, AfterSnapshot, sourceVars, backupVars, setVars, restoreVars
<1>7. CASE UNCHANGED vars
  BY <1>7 DEF vars, Shape, Turns, DumpAfterBasis, Window, AfterSnapshot,
     sourceVars, backupVars, setVars, restoreVars
<1> QED  BY <1>1, <1>2, <1>3, <1>4, <1>5, <1>6, <1>7 DEF Next

(* Each read of the fingerprint sees what the dump holds (backup).          *)
LEMMA CountedAfterDumpKept == Shape /\ Turns /\ DumpAfterBasis /\ CountedAfterDump /\ [Next]_vars => CountedAfterDump'
<1> SUFFICES ASSUME Shape /\ Turns /\ DumpAfterBasis /\ CountedAfterDump, [Next]_vars PROVE CountedAfterDump'
  OBVIOUS
<1>1. CASE TakeBasis
  BY <1>1, ManifestIsFile, RowsGrow, ReadsInOrder DEF TakeBasis, Shape, Turns,
     DumpAfterBasis, CountedAfterDump, Window, AfterSnapshot, sourceVars,
     backupVars, setVars, restoreVars
<1>2. CASE TakeSnapshot
  BY <1>2, ManifestIsFile, RowsGrow, ReadsInOrder DEF TakeSnapshot, Shape,
     Turns, DumpAfterBasis, CountedAfterDump, Window, AfterSnapshot, sourceVars,
     backupVars, setVars, restoreVars
<1>3. CASE HashArtifacts
  BY <1>3, ManifestIsFile, RowsGrow, ReadsInOrder DEF HashArtifacts, Shape,
     Turns, DumpAfterBasis, CountedAfterDump, Window, AfterSnapshot, sourceVars,
     backupVars, setVars, restoreVars
<1>4. CASE Count
  BY <1>4, ManifestIsFile, RowsGrow, ReadsInOrder DEF Count, Shape, Turns,
     DumpAfterBasis, CountedAfterDump, Window, AfterSnapshot, sourceVars,
     backupVars, setVars, restoreVars
<1>5. CASE WriteManifest
  BY <1>5, ManifestIsFile, RowsGrow, ReadsInOrder DEF WriteManifest, Leaves,
     Shape, Turns, DumpAfterBasis, CountedAfterDump, Window, AfterSnapshot,
     sourceVars, backupVars, setVars, restoreVars
<1>6. CASE BackupDies
  <2>1. dir'["manifest"] # "none" => dir["manifest"] # "none" \/ bpc = "manifest"
    BY <1>6, ManifestIsFile DEF BackupDies, Writing, Shape
  <2> QED  BY <1>6, <2>1 DEF BackupDies, sourceVars, backupVars, setVars,
              restoreVars, Turns, CountedAfterDump, Window
<1>7. CASE \/ WriteDump \/ WriteGlobals \/ EncryptDump \/ UnlinkDump
           \/ EncryptGlobals \/ UnlinkGlobals \/ WriteHashes
  BY <1>7, ManifestIsFile, RowsGrow, ReadsInOrder DEF WriteDump, Leaves,
     WriteGlobals, EncryptDump, UnlinkDump, EncryptGlobals, UnlinkGlobals,
     WriteHashes, Shape, Turns, DumpAfterBasis, CountedAfterDump, Window,
     AfterSnapshot, sourceVars, backupVars, setVars, restoreVars
<1>8. CASE \/ \E b \in Batches : CommitBatch(b)
           \/ \E b \in Batches : LoseBody(b)
           \/ \E f \in Files : RemoveFile(f)
           \/ \E f \in Files : Rot(f)
           \/ BeginBackup \/ TakeSums \/ BeginRestore \/ NothingToRestore
           \/ Prepare \/ Decrypt \/ DecryptFails \/ Load \/ LoadsInPart
           \/ LoadFails \/ Verify \/ CannotVerify \/ Clean \/ RestoreDies
  BY <1>8, ManifestIsFile, RowsGrow, ReadsInOrder DEF CommitBatch, LoseBody,
     RemoveFile, Rot, BeginBackup, TakeSums, BeginRestore, NothingToRestore,
     Raised, Prepare, Decrypt, DecryptFails, Load, Loads, LoadsInPart,
     LoadIsDamaged, LoadFails, Verify, CannotVerify, Clean, RestoreDies, Shape,
     Turns, DumpAfterBasis, CountedAfterDump, Window, AfterSnapshot, sourceVars,
     backupVars, setVars, restoreVars
<1>9. CASE UNCHANGED vars
  BY <1>9 DEF vars, Shape, Turns, DumpAfterBasis, CountedAfterDump, Window,
     AfterSnapshot, sourceVars, backupVars, setVars, restoreVars
<1> QED  BY <1>1, <1>2, <1>3, <1>4, <1>5, <1>6, <1>7, <1>8, <1>9 DEF Next

(* What a restore has found does not change beside it (backup, main).       *)
LEMMA RestoreStays ==
  RestoredFromDump /\ UNCHANGED <<setVars, restoreVars>> => RestoredFromDump'
BY DEF RestoredFromDump, AcceptedRestoreAgrees, BasisCovered, setVars,
   restoreVars

(* What is restored comes from the dump, up to the verdict (restore).       *)
LEMMA RestoredFromDumpKept == IInv /\ [Next]_vars => RestoredFromDump'
<1> SUFFICES ASSUME IInv, [Next]_vars PROVE RestoredFromDump'
  OBVIOUS
<1>1. CASE BeginRestore
  BY <1>1 DEF BeginRestore, IInv, Turns, RestoredFromDump,
     AcceptedRestoreAgrees, BasisCovered, Window, sourceVars, backupVars,
     setVars, restoreVars
<1>2. CASE Prepare
  BY <1>2 DEF Prepare, IInv, Turns, RestoredFromDump, AcceptedRestoreAgrees,
     BasisCovered, Window, sourceVars, backupVars, setVars, restoreVars
<1>3. CASE Load
  BY <1>3 DEF Load, Loads, IInv, Turns, RestoredFromDump, AcceptedRestoreAgrees,
     BasisCovered, Window, sourceVars, backupVars, setVars, restoreVars
<1>4. CASE LoadsInPart
  BY <1>4 DEF LoadsInPart, Loads, LoadIsDamaged, IInv, Turns, RestoredFromDump,
     AcceptedRestoreAgrees, BasisCovered, Window, sourceVars, backupVars,
     setVars, restoreVars
<1>5. CASE Verify
  <2>1. ASSUME agreed', NEW t \in Tables PROVE restored[t] = counted[t]
    <3>1. /\ restored[t] \subseteq RowsOf(t, dumped)
          /\ RowsOf(t, dumped) \subseteq counted[t]
          /\ counted[t] \subseteq Batches
      BY <1>5 DEF Verify, IInv, Shape, Turns, CountedAfterDump,
         RestoredFromDump, ReadNames
    <3>2. Cardinality(restored[t]) = Cardinality(counted[t])
      BY <1>5, <2>1 DEF Verify, CountsMatch
    <3>3. IsFiniteSet(counted[t])
      BY <3>1, FS_Subset, FS_Union, BackupAssumption DEF Batches
    <3> QED  BY <3>1, <3>2, <3>3, FS_Subset
  <2> QED  BY <1>5, <2>1 DEF Verify, IInv, Turns, RestoredFromDump,
              AcceptedRestoreAgrees, BasisCovered, sourceVars, setVars
<1>6. CASE Clean
  <2>1. ASSUME agreed, NEW t \in Tables
        PROVE  restored[t] = counted[t] /\ RowsOf(t, basis) \subseteq restored[t]
    <3>1. basis \subseteq dumped /\ RowsOf(t, dumped) \subseteq counted[t]
      BY <1>6 DEF Clean, IInv, Turns, DumpAfterBasis, CountedAfterDump,
         ReadNames
    <3>2. restored[t] = counted[t]
      BY <1>6, <2>1 DEF Clean, IInv, RestoredFromDump
    <3> QED  BY <3>1, <3>2, RowsGrow
  <2> QED  BY <1>6, <2>1 DEF Clean, IInv, RestoredFromDump,
              AcceptedRestoreAgrees, BasisCovered, setVars
<1>7. CASE \/ \E b \in Batches : CommitBatch(b)
           \/ \E b \in Batches : LoseBody(b)
           \/ \E f \in Files : RemoveFile(f)
           \/ \E f \in Files : Rot(f)
           \/ BeginBackup \/ BackupDies \/ WriteDump \/ WriteGlobals
           \/ EncryptDump \/ UnlinkDump \/ EncryptGlobals \/ UnlinkGlobals
           \/ WriteManifest \/ WriteHashes
  BY <1>7, RestoreStays DEF CommitBatch, LoseBody, RemoveFile, Rot, BeginBackup,
     BackupDies, WriteDump, Leaves, WriteGlobals, EncryptDump, UnlinkDump,
     EncryptGlobals, UnlinkGlobals, WriteManifest, WriteHashes, IInv
<1>8. CASE \/ TakeBasis \/ TakeSnapshot \/ TakeSums \/ HashArtifacts
           \/ Count
  BY <1>8 DEF TakeBasis, TakeSnapshot, TakeSums, HashArtifacts, Count, IInv,
     Turns, RestoredFromDump, AcceptedRestoreAgrees, BasisCovered, Window,
     sourceVars, backupVars, setVars, restoreVars
<1>9. CASE \/ NothingToRestore \/ Decrypt \/ DecryptFails \/ LoadFails
           \/ CannotVerify \/ RestoreDies
  BY <1>9 DEF NothingToRestore, Raised, Decrypt, DecryptFails, LoadFails,
     LoadIsDamaged, CannotVerify, RestoreDies, IInv, Turns, RestoredFromDump,
     AcceptedRestoreAgrees, BasisCovered, Window, sourceVars, backupVars,
     setVars, restoreVars
<1>10. CASE UNCHANGED vars
  BY <1>10 DEF vars, IInv, Turns, RestoredFromDump, AcceptedRestoreAgrees,
     BasisCovered, Window, sourceVars, backupVars, setVars, restoreVars
<1> QED  BY <1>1, <1>2, <1>3, <1>4, <1>5, <1>6, <1>7, <1>8, <1>9, <1>10 DEF Next

(* The invariant is inductive (backup.py).                                  *)
LEMMA Inductive == IInv /\ [Next]_vars => IInv'
BY ShapeKept, TurnsKept, DumpAfterBasisKept, CountedAfterDumpKept,
   RestoredFromDumpKept DEF IInv

(* The invariant always holds (backup.py).                                  *)
LEMMA Invariant == Spec => []IInv
<1>1. Init => IInv
  BY InitHolds
<1>2. IInv /\ [Next]_vars => IInv'
  BY Inductive
<1> QED  BY <1>1, <1>2, PTL DEF Spec

----------------------------------------------------------------------------
(* The plain text is gone when the manifest is written, and between         *)
(* restores.                                                                *)
PlainTextOnlyInside ==
  /\ bpc \in {"encrypt globals", "unlink globals", "sums", "artifacts", "count", "manifest"} =>
       dir["database"] = "none"
  /\ bpc \in {"sums", "artifacts", "count", "manifest"} => dir["globals"] = "none"
  /\ dir["manifest"] # "none" /\ rpc = "idle" /\ verdict \in {"none", "pass", "fail"} =>
       \A l \in Labels : dir[l] = "none"

(* As long as nothing goes wrong, files and bodies are whole.               *)
Undamaged ==
  /\ \A f \in Files : dir[f] # "damaged"
  /\ \A b \in committed \cap Stored : bodies[b] = "stored"
  /\ \A h \in hashes : h[1] \in Stored \cap committed /\ h[2] = "stored"

(* backup() has written what comes before the step it is at.                *)
SetWhole ==
  /\ bpc \in {"globals", "encrypt database", "unlink database"} => dir["database"] = "whole"
  /\ bpc \in {"encrypt database", "unlink database", "encrypt globals", "unlink globals"} =>
       dir["globals"] = "whole"
  /\ bpc \in {"unlink database", "encrypt globals", "unlink globals", "sums", "artifacts",
              "count", "manifest", "hashes"} => dir["database.enc"] = "whole"
  /\ bpc \in {"unlink globals", "sums", "artifacts", "count", "manifest", "hashes"} =>
       dir["globals.enc"] = "whole"
  /\ bpc \in {"artifacts", "count", "manifest", "hashes"} =>
       \A l \in Labels : sums[l] = "whole"
  /\ bpc = "idle" /\ dir["manifest"] # "none" =>
       /\ dir["hashes"] = "whole"
       /\ \A l \in Labels : dir[Encrypted(l)] = "whole" /\ sums[l] = "whole"

(* restore() has checked the set, and has read all of it.                   *)
Opened ==
  /\ rpc # "idle" => checked
  /\ rpc = "load" => \A l \in Labels : dir[l] = "whole"
  /\ rpc = "verify" => \A t \in Tables : restored[t] = RowsOf(t, dumped)

(* Nothing was committed between the dump and the fingerprint.              *)
Frozen ==
  /\ bpc \in Window => dumped = committed
  /\ bpc = "count" =>
       \A i \in 1 .. next - 1 : i \in 1 .. Len(Reads) =>
         counted[Reads[i]] = RowsOf(Reads[i], dumped)
  /\ bpc = "manifest" \/ dir["manifest"] # "none" =>
       \A t \in ReadNames : counted[t] = RowsOf(t, dumped)
  /\ rpc = "clean" => agreed

(* The inductive invariant of the second one: with the types, where plain  *)
(* text lies, and what is so as long as nothing went wrong.                *)
JInv ==
  /\ IInv
  /\ TypeOK
  /\ PlainTextOnlyInside
  /\ faults = 0 => Undamaged /\ SetWhole /\ Opened
  /\ faults = 0 /\ ~late => Frozen
  /\ SoundBackupAccepted

(* The six files of a backup directory by name.                            *)
LEMMA FileNames ==
  /\ Files = {"database", "globals", "database.enc", "globals.enc", "manifest", "hashes"}
  /\ Encrypted("database") = "database.enc" /\ Encrypted("globals") = "globals.enc"
  BY DEF Files, Labels, Encrypted

(* A step that counts a fault leaves the time in which nothing had gone    *)
(* wrong.                                                                  *)
LEMMA Faulty ==
  ASSUME TypeOK, faults' = faults + 1 PROVE faults' # 0 /\ faults' \in Nat
<1>1. faults \in Nat
  BY BackupAssumption DEF TypeOK
<1> QED  BY <1>1

(* Faults stay within their bound.                                         *)
LEMMA FaultCounted ==
  ASSUME TypeOK, faults < MaxFaults, faults' = faults + 1
  PROVE  faults' \in 0 .. MaxFaults
<1>1. faults \in Nat /\ MaxFaults \in Nat
  BY BackupAssumption DEF TypeOK
<1> QED  BY <1>1

(* LoadIsDamaged, when nothing went wrong, means that a file is not whole. *)
LEMMA DamagedLoad ==
  ASSUME TypeOK, NEW labels, LoadIsDamaged(labels)
  PROVE  faults' = 0 => faults = 0 /\ \E l \in labels : dir[l] # "whole"
  BY Faulty DEF LoadIsDamaged

(* A backup that is removed, or at its manifest or its hashes, writes no   *)
(* dump.                                                                   *)
LEMMA WritesNoPlainText ==
  bpc \in {"remove", "manifest", "hashes"} => \A l \in Labels : l \notin Writing
<1>1. bpc = "remove" => Writing = {}
  BY DEF Writing
<1>2. bpc = "manifest" => Writing = {"manifest"}
  BY DEF Writing
<1>3. bpc = "hashes" => Writing = {"hashes"}
  BY DEF Writing
<1> QED  BY <1>1, <1>2, <1>3 DEF Labels

(* Plain text is removed before the manifest is written, and after each    *)
(* restore that comes to an end (_encrypt, restore).                       *)
LEMMA PlainKept ==
  ASSUME TypeOK, Shape, Turns, PlainTextOnlyInside, [Next]_vars
  PROVE  PlainTextOnlyInside'
<1>1. CASE BackupDies
  <2>1. /\ dir'["manifest"] # "none" => dir["manifest"] # "none" \/ bpc = "manifest"
        /\ \A l \in Labels : dir[l] = "none" /\ bpc \in {"remove", "manifest", "hashes"}
                               => dir'[l] = "none"
    <3>1. PICK part \in SUBSET Writing :
            dir' = [f \in Files |-> IF f \in part THEN "damaged" ELSE dir[f]]
      BY <1>1 DEF BackupDies
    <3>2. dir'["manifest"] # "none" => dir["manifest"] # "none" \/ bpc = "manifest"
      BY <3>1, ManifestIsFile DEF Writing
    <3>3. bpc \in {"remove", "manifest", "hashes"} => \A l \in Labels : l \notin part
      BY <3>1, WritesNoPlainText
    <3>4. \A l \in Labels : l \in Files
      BY DEF Files
    <3> QED  BY <3>1, <3>2, <3>3, <3>4
  <2>2. dir["manifest"] # "none" /\ bpc # "idle" => bpc \in {"remove", "hashes"}
    <3>1. bpc \in BackupPCs
      BY DEF TypeOK
    <3> QED  BY <3>1 DEF Turns, BackupPCs, Window
  <2>3. bpc' = "idle" /\ UNCHANGED <<rpc, verdict>> /\ bpc # "idle"
    BY <1>1 DEF BackupDies, restoreVars
  <2>4. rpc = "idle" /\ (bpc # "remove" => verdict = "none")
    BY <2>2, <2>3 DEF Turns
  <2> QED  BY <2>1, <2>2, <2>3, <2>4 DEF PlainTextOnlyInside, Labels
<1>2. CASE BeginBackup
  BY <1>2, FileNames DEF BeginBackup, Shape, Turns, PlainTextOnlyInside, Window,
     restoreVars
<1>3. CASE TakeBasis
  BY <1>3, FileNames DEF TakeBasis, Shape, Turns, PlainTextOnlyInside, Window
<1>4. CASE TakeSnapshot
  BY <1>4, FileNames DEF TakeSnapshot, Shape, Turns, PlainTextOnlyInside, Window
<1>5. CASE TakeSums
  BY <1>5, FileNames DEF TakeSums, Shape, Turns, PlainTextOnlyInside, Window
<1>6. CASE HashArtifacts
  BY <1>6, FileNames DEF HashArtifacts, Shape, Turns, PlainTextOnlyInside,
     Window
<1>7. CASE Count
  BY <1>7, FileNames DEF Count, Shape, Turns, PlainTextOnlyInside, Window
<1>8. CASE WriteDump
  BY <1>8, FileNames DEF WriteDump, Leaves, Shape, Turns, PlainTextOnlyInside,
     Window, Labels, Writing, CanRead, sourceVars, setVars, restoreVars
<1>9. CASE WriteGlobals
  BY <1>9, FileNames DEF WriteGlobals, Leaves, Shape, Turns,
     PlainTextOnlyInside, Window, Labels, Writing, CanRead, sourceVars, setVars,
     restoreVars
<1>10. CASE EncryptDump
  BY <1>10, FileNames DEF EncryptDump, Leaves, Shape, Turns,
     PlainTextOnlyInside, Window, Labels, Writing, CanRead, sourceVars, setVars,
     restoreVars
<1>11. CASE UnlinkDump
  BY <1>11, FileNames DEF UnlinkDump, Leaves, Shape, Turns, PlainTextOnlyInside,
     Window, Labels, Writing, CanRead, sourceVars, setVars, restoreVars
<1>12. CASE EncryptGlobals
  BY <1>12, FileNames DEF EncryptGlobals, Leaves, Shape, Turns,
     PlainTextOnlyInside, Window, Labels, Writing, CanRead, sourceVars, setVars,
     restoreVars
<1>13. CASE UnlinkGlobals
  BY <1>13, FileNames DEF UnlinkGlobals, Leaves, Shape, Turns,
     PlainTextOnlyInside, Window, Labels, Writing, CanRead, sourceVars, setVars,
     restoreVars
<1>14. CASE WriteManifest
  BY <1>14, FileNames DEF WriteManifest, Leaves, Shape, Turns,
     PlainTextOnlyInside, Labels
<1>15. CASE WriteHashes
  BY <1>15, FileNames DEF WriteHashes, Leaves, Shape, Turns,
     PlainTextOnlyInside, Labels
<1>16. CASE BeginRestore
  BY <1>16, FileNames DEF BeginRestore, Shape, Turns, PlainTextOnlyInside,
     Window, backupVars
<1>17. CASE NothingToRestore
  BY <1>17, FileNames DEF NothingToRestore, Raised, Shape, Turns,
     PlainTextOnlyInside, backupVars
<1>18. CASE Prepare
  BY <1>18, FileNames DEF Prepare, Shape, Turns, PlainTextOnlyInside, Window,
     backupVars
<1>19. CASE Decrypt
  BY <1>19, FileNames DEF Decrypt, Shape, Turns, PlainTextOnlyInside, Window,
     backupVars
<1>20. CASE DecryptFails
  BY <1>20, FileNames DEF DecryptFails, Raised, Shape, Turns,
     PlainTextOnlyInside, backupVars
<1>21. CASE Load
  BY <1>21, FileNames DEF Load, Loads, Shape, Turns, PlainTextOnlyInside,
     backupVars
<1>22. CASE LoadsInPart
  BY <1>22, FileNames DEF LoadsInPart, Loads, LoadIsDamaged, Shape, Turns,
     PlainTextOnlyInside, Window, Labels, Writing, CanRead, sourceVars,
     backupVars
<1>23. CASE LoadFails
  BY <1>23, FileNames DEF LoadFails, Raised, LoadIsDamaged, Shape, Turns,
     PlainTextOnlyInside, Window, Labels, Writing, CanRead, sourceVars,
     backupVars
<1>24. CASE Verify
  BY <1>24, FileNames DEF Verify, Shape, Turns, PlainTextOnlyInside, Window,
     backupVars
<1>25. CASE CannotVerify
  BY <1>25, FileNames DEF CannotVerify, Raised, Shape, Turns,
     PlainTextOnlyInside, backupVars
<1>26. CASE Clean
  BY <1>26, FileNames DEF Clean, Shape, Turns, PlainTextOnlyInside, Window,
     Labels, Writing, CanRead, sourceVars, backupVars, setVars
<1>27. CASE RestoreDies
  BY <1>27, FileNames DEF RestoreDies, Raised, Shape, Turns,
     PlainTextOnlyInside, backupVars
<1>28. ASSUME NEW b \in Batches, CommitBatch(b) PROVE PlainTextOnlyInside'
  BY <1>28, FileNames DEF CommitBatch, Shape, Turns, PlainTextOnlyInside,
     Window, backupVars, restoreVars
<1>29. ASSUME NEW b \in Batches, LoseBody(b) PROVE PlainTextOnlyInside'
  BY <1>29, FileNames DEF LoseBody, Shape, Turns, PlainTextOnlyInside, Window,
     backupVars, restoreVars
<1>30. ASSUME NEW f \in Files, RemoveFile(f) PROVE PlainTextOnlyInside'
  BY <1>30, FileNames DEF RemoveFile, Shape, Turns, PlainTextOnlyInside, Window,
     backupVars, restoreVars
<1>31. ASSUME NEW f \in Files, Rot(f) PROVE PlainTextOnlyInside'
  BY <1>31, FileNames DEF Rot, Shape, Turns, PlainTextOnlyInside, Window,
     Labels, Writing, CanRead, sourceVars, backupVars, restoreVars
<1>32. CASE UNCHANGED vars
  BY <1>32, FileNames DEF vars, Shape, Turns, PlainTextOnlyInside, Window
<1> QED  BY <1>1, <1>2, <1>3, <1>4, <1>5, <1>6, <1>7, <1>8, <1>9, <1>10, <1>11,
            <1>12, <1>13, <1>14, <1>15, <1>16, <1>17, <1>18, <1>19, <1>20,
            <1>21, <1>22, <1>23, <1>24, <1>25, <1>26, <1>27, <1>28, <1>29,
            <1>30, <1>31, <1>32 DEF Next

(* Every step keeps the types, one action at a time.                       *)
LEMMA TypesKept ==
  ASSUME Shape, TypeOK, [Next]_vars
  PROVE  TypeOK'
<1>1. CASE TakeSums
  <2>1. \A l \in Labels : Encrypted(l) \in Files
    BY DEF Files
  <2>2. sums' \in [Labels -> Contents]
    BY <1>1, <2>1 DEF TakeSums, TypeOK
  <2> QED  BY <1>1, <2>2 DEF TakeSums, TypeOK, BackupPCs, Window, sourceVars,
              restoreVars
<1>2. CASE HashArtifacts
  <2> DEFINE sample == Lowest(HashSample, {c \in Picked(committed \cap Stored) : bodies[c] # "none"})
  <2>1. \A b \in sample : b \in Stored /\ bodies[b] \in {"stored", "altered"}
    BY DEF Lowest, Picked, TypeOK
  <2>2. hashes' = {<<b, bodies[b]>> : b \in sample}
    BY <1>2 DEF HashArtifacts
  <2> HIDE DEF sample
  <2>3. hashes' \subseteq Stored \X {"stored", "altered"}
    BY <2>1, <2>2
  <2>4. next' \in 1 .. Len(Reads) + 1
    BY <1>2, ReadsInOrder DEF HashArtifacts
  <2> QED  BY <1>2, <2>3, <2>4 DEF HashArtifacts, TypeOK, BackupPCs, Window,
              sourceVars, restoreVars
<1>3. CASE BackupDies
  <2>1. dir' \in [Files -> Contents]
    BY <1>3 DEF BackupDies, TypeOK, Contents
  <2>2. faults' \in 0 .. MaxFaults
    BY <1>3, FaultCounted DEF BackupDies
  <2> QED  BY <1>3, <2>1, <2>2 DEF BackupDies, TypeOK, BackupPCs, sourceVars,
              setVars, restoreVars
<1>4. CASE Decrypt
  <2>1. \A l \in Labels : Encrypted(l) \in Files
    BY DEF Files
  <2>2. dir' \in [Files -> Contents]
    BY <1>4, <2>1 DEF Decrypt, TypeOK
  <2> QED  BY <1>4, <2>2 DEF Decrypt, TypeOK, sourceVars, backupVars, setVars
<1>5. CASE DecryptFails
  <2>1. dir' \in [Files -> Contents]
    BY <1>5 DEF DecryptFails, TypeOK, Contents
  <2> QED  BY <1>5, <2>1 DEF DecryptFails, Raised, TypeOK, sourceVars,
              backupVars, setVars
<1>6. CASE LoadsInPart
  <2>1. faults' \in 0 .. MaxFaults
    BY <1>6, FaultCounted DEF LoadsInPart, LoadIsDamaged, TypeOK
  <2>2. restored' \in [Tables -> SUBSET Batches]
    BY <1>6 DEF LoadsInPart, Loads, TypeOK
  <2> QED  BY <1>6, <2>1, <2>2 DEF LoadsInPart, Loads, TypeOK, sourceVars,
              backupVars, setVars
<1>7. CASE LoadFails
  <2>1. faults' \in 0 .. MaxFaults
    BY <1>7, FaultCounted DEF LoadFails, LoadIsDamaged, TypeOK
  <2> QED  BY <1>7, <2>1 DEF LoadFails, Raised, TypeOK, sourceVars, backupVars,
              setVars
<1>8. CASE RestoreDies
  <2>1. faults' \in 0 .. MaxFaults
    BY <1>8, FaultCounted DEF RestoreDies
  <2> QED  BY <1>8, <2>1 DEF RestoreDies, Raised, TypeOK, sourceVars,
              backupVars, setVars
<1>9. ASSUME NEW b \in Batches, LoseBody(b) PROVE TypeOK'
  <2>1. bodies' \in [Stored -> {"none", "stored", "altered"}]
    BY <1>9 DEF LoseBody, TypeOK
  <2>2. faults' \in 0 .. MaxFaults
    BY <1>9, FaultCounted DEF LoseBody
  <2> QED  BY <1>9, <2>1, <2>2 DEF LoseBody, TypeOK, backupVars, setVars,
              restoreVars
<1>10. ASSUME NEW f \in Files, Rot(f) PROVE TypeOK'
  <2>1. dir' \in [Files -> Contents]
    BY <1>10 DEF Rot, TypeOK, Contents
  <2>2. faults' \in 0 .. MaxFaults
    BY <1>10, FaultCounted DEF Rot
  <2> QED  BY <1>10, <2>1, <2>2 DEF Rot, TypeOK, sourceVars, backupVars,
              setVars, restoreVars
<1>11. CASE BeginBackup
  BY <1>11, FileNames, BackupAssumption, ReadsInOrder DEF BeginBackup, Shape,
     TypeOK, BackupPCs, Window, Contents, Batches, RowsOf, sourceVars, setVars,
     restoreVars
<1>12. CASE TakeBasis
  BY <1>12, FileNames, BackupAssumption, ReadsInOrder DEF TakeBasis, Shape,
     TypeOK, BackupPCs, Window, Contents, Batches, RowsOf, sourceVars
<1>13. CASE TakeSnapshot
  BY <1>13, FileNames, BackupAssumption, ReadsInOrder DEF TakeSnapshot, Shape,
     TypeOK, BackupPCs, Window, sourceVars, restoreVars
<1>14. CASE Count
  BY <1>14, FileNames, BackupAssumption, ReadsInOrder DEF Count, Shape, TypeOK,
     BackupPCs, Window, Contents, Batches, RowsOf, sourceVars, restoreVars
<1>15. CASE WriteDump
  BY <1>15, FileNames, BackupAssumption, ReadsInOrder DEF WriteDump, Leaves,
     Shape, TypeOK, BackupPCs, Window, Contents, sourceVars, setVars,
     restoreVars
<1>16. CASE WriteGlobals
  BY <1>16, FileNames, BackupAssumption, ReadsInOrder DEF WriteGlobals, Leaves,
     Shape, TypeOK, BackupPCs, Window, Contents, sourceVars, setVars,
     restoreVars
<1>17. CASE EncryptDump
  BY <1>17, FileNames, BackupAssumption, ReadsInOrder DEF EncryptDump, Leaves,
     Shape, TypeOK, BackupPCs, Window, sourceVars, setVars, restoreVars
<1>18. CASE UnlinkDump
  BY <1>18, FileNames, BackupAssumption, ReadsInOrder DEF UnlinkDump, Leaves,
     Shape, TypeOK, BackupPCs, Window, Contents, sourceVars, setVars,
     restoreVars
<1>19. CASE EncryptGlobals
  BY <1>19, FileNames, BackupAssumption, ReadsInOrder DEF EncryptGlobals,
     Leaves, Shape, TypeOK, BackupPCs, Window, sourceVars, setVars, restoreVars
<1>20. CASE UnlinkGlobals
  BY <1>20, FileNames, BackupAssumption, ReadsInOrder DEF UnlinkGlobals, Leaves,
     Shape, TypeOK, BackupPCs, Window, Contents, sourceVars, setVars,
     restoreVars
<1>21. CASE WriteManifest
  BY <1>21, FileNames, BackupAssumption, ReadsInOrder DEF WriteManifest, Leaves,
     Shape, TypeOK, BackupPCs, Contents, sourceVars, setVars, restoreVars
<1>22. CASE WriteHashes
  BY <1>22, FileNames, BackupAssumption, ReadsInOrder DEF WriteHashes, Leaves,
     Shape, TypeOK, BackupPCs, Contents, sourceVars, setVars, restoreVars
<1>23. CASE BeginRestore
  BY <1>23, FileNames, BackupAssumption, ReadsInOrder DEF BeginRestore, Shape,
     TypeOK, sourceVars, backupVars, setVars
<1>24. CASE NothingToRestore
  BY <1>24, FileNames, BackupAssumption, ReadsInOrder DEF NothingToRestore,
     Raised, Shape, TypeOK, BackupPCs, Window, Contents, Batches, RowsOf,
     sourceVars, backupVars, setVars
<1>25. CASE Prepare
  BY <1>25, FileNames, BackupAssumption, ReadsInOrder DEF Prepare, Shape,
     TypeOK, sourceVars, backupVars, setVars
<1>26. CASE Load
  BY <1>26, FileNames, BackupAssumption, ReadsInOrder DEF Load, Loads, Shape,
     TypeOK, BackupPCs, Window, Contents, Batches, RowsOf, sourceVars,
     backupVars, setVars
<1>27. CASE Verify
  BY <1>27, FileNames, BackupAssumption, ReadsInOrder DEF Verify, Shape, TypeOK,
     sourceVars, backupVars, setVars
<1>28. CASE CannotVerify
  BY <1>28, FileNames, BackupAssumption, ReadsInOrder DEF CannotVerify, Raised,
     Shape, TypeOK, BackupPCs, Window, Contents, Batches, RowsOf, sourceVars,
     backupVars, setVars
<1>29. CASE Clean
  BY <1>29, FileNames, BackupAssumption, ReadsInOrder DEF Clean, Shape, TypeOK,
     Contents, sourceVars, backupVars, setVars
<1>30. ASSUME NEW b \in Batches, CommitBatch(b) PROVE TypeOK'
  BY <1>30, FileNames, BackupAssumption, ReadsInOrder DEF CommitBatch, Shape,
     TypeOK, backupVars, setVars, restoreVars
<1>31. ASSUME NEW f \in Files, RemoveFile(f) PROVE TypeOK'
  BY <1>31, FileNames, BackupAssumption, ReadsInOrder DEF RemoveFile, Shape,
     TypeOK, Contents, sourceVars, backupVars, setVars, restoreVars
<1>32. CASE UNCHANGED vars
  BY <1>32 DEF vars, TypeOK
<1> QED  BY <1>1, <1>2, <1>3, <1>4, <1>5, <1>6, <1>7, <1>8, <1>9, <1>10, <1>11,
            <1>12, <1>13, <1>14, <1>15, <1>16, <1>17, <1>18, <1>19, <1>20,
            <1>21, <1>22, <1>23, <1>24, <1>25, <1>26, <1>27, <1>28, <1>29,
            <1>30, <1>31, <1>32 DEF Next

(* A file or a body is damaged by a fault only.                            *)
LEMMA UndamagedKept ==
  ASSUME Shape, TypeOK, faults = 0 => Undamaged /\ SetWhole, [Next]_vars
  PROVE  (faults = 0 => Undamaged)'
<1>1. CASE HashArtifacts
  <2> DEFINE sample == Lowest(HashSample, {c \in Picked(committed \cap Stored) : bodies[c] # "none"})
  <2>1. \A b \in sample : b \in Stored \cap committed
    BY DEF Lowest, Picked
  <2>2. /\ hashes' = {<<b, bodies[b]>> : b \in sample}
        /\ UNCHANGED <<committed, bodies, dir, faults>>
    BY <1>1 DEF HashArtifacts, sourceVars
  <2> HIDE DEF sample
  <2>3. Undamaged => \A h \in hashes' : h[1] \in Stored \cap committed /\ h[2] = "stored"
    BY <2>1, <2>2 DEF Undamaged
  <2> QED  BY <2>2, <2>3 DEF Undamaged
<1>2. CASE BackupDies
  <2>1. faults' # 0
    BY <1>2, Faulty DEF BackupDies
  <2> QED  BY <2>1
<1>3. CASE LoadsInPart
  <2>1. UNCHANGED <<committed, bodies, dir, hashes>> /\ (faults' = 0 => faults = 0)
    BY <1>3, DamagedLoad DEF LoadsInPart, Loads, sourceVars, setVars
  <2> QED  BY <2>1 DEF Undamaged
<1>4. CASE LoadFails
  <2>1. UNCHANGED <<committed, bodies, dir, hashes>> /\ (faults' = 0 => faults = 0)
    BY <1>4, DamagedLoad DEF LoadFails, Raised, sourceVars, setVars
  <2> QED  BY <2>1 DEF Undamaged
<1>5. CASE RestoreDies
  <2>1. faults' # 0
    BY <1>5, Faulty DEF RestoreDies
  <2> QED  BY <2>1
<1>6. ASSUME NEW b \in Batches, LoseBody(b) PROVE (faults = 0 => Undamaged)'
  <2>1. faults' # 0
    BY <1>6, Faulty DEF LoseBody
  <2> QED  BY <2>1
<1>7. ASSUME NEW f \in Files, Rot(f) PROVE (faults = 0 => Undamaged)'
  <2>1. faults' # 0
    BY <1>7, Faulty DEF Rot
  <2> QED  BY <2>1
<1>8. CASE BeginBackup
  BY <1>8, FileNames DEF BeginBackup, Shape, Undamaged, SetWhole, Labels,
     sourceVars, setVars
<1>9. CASE TakeBasis
  BY <1>9, FileNames DEF TakeBasis, Shape, Undamaged, SetWhole, Labels,
     sourceVars
<1>10. CASE TakeSnapshot
  BY <1>10, FileNames DEF TakeSnapshot, Shape, Undamaged, SetWhole, Labels,
     sourceVars, restoreVars
<1>11. CASE TakeSums
  BY <1>11, FileNames DEF TakeSums, Shape, Undamaged, SetWhole, Labels,
     sourceVars, restoreVars
<1>12. CASE Count
  BY <1>12, FileNames DEF Count, Shape, Undamaged, SetWhole, Labels, sourceVars,
     restoreVars
<1>13. CASE WriteDump
  BY <1>13, FileNames DEF WriteDump, Leaves, Shape, Undamaged, SetWhole,
     sourceVars, setVars
<1>14. CASE WriteGlobals
  BY <1>14, FileNames DEF WriteGlobals, Leaves, Shape, Undamaged, SetWhole,
     sourceVars, setVars
<1>15. CASE EncryptDump
  BY <1>15, FileNames DEF EncryptDump, Leaves, Shape, Undamaged, SetWhole,
     sourceVars, setVars
<1>16. CASE UnlinkDump
  BY <1>16, FileNames DEF UnlinkDump, Leaves, Shape, Undamaged, SetWhole,
     sourceVars, setVars
<1>17. CASE EncryptGlobals
  BY <1>17, FileNames DEF EncryptGlobals, Leaves, Shape, Undamaged, SetWhole,
     sourceVars, setVars
<1>18. CASE UnlinkGlobals
  BY <1>18, FileNames DEF UnlinkGlobals, Leaves, Shape, Undamaged, SetWhole,
     sourceVars, setVars
<1>19. CASE WriteManifest
  BY <1>19, FileNames DEF WriteManifest, Leaves, Shape, Undamaged, SetWhole,
     sourceVars, setVars
<1>20. CASE WriteHashes
  BY <1>20, FileNames DEF WriteHashes, Leaves, Shape, Undamaged, SetWhole,
     sourceVars, setVars
<1>21. CASE BeginRestore
  BY <1>21, FileNames DEF BeginRestore, Shape, Undamaged, SetWhole, Labels,
     sourceVars, backupVars, setVars
<1>22. CASE NothingToRestore
  BY <1>22, FileNames DEF NothingToRestore, Raised, Shape, Undamaged, SetWhole,
     sourceVars, setVars
<1>23. CASE Prepare
  BY <1>23, FileNames DEF Prepare, Shape, Undamaged, SetWhole, Labels,
     sourceVars, backupVars, setVars
<1>24. CASE Decrypt
  BY <1>24, FileNames DEF Decrypt, Shape, Undamaged, SetWhole, Labels,
     sourceVars, backupVars, setVars
<1>25. CASE DecryptFails
  BY <1>25, FileNames DEF DecryptFails, Raised, Shape, Undamaged, SetWhole,
     Labels, sourceVars, backupVars, setVars
<1>26. CASE Load
  BY <1>26, FileNames DEF Load, Loads, Shape, Undamaged, SetWhole, sourceVars,
     setVars
<1>27. CASE Verify
  BY <1>27, FileNames DEF Verify, Shape, Undamaged, SetWhole, Labels,
     sourceVars, backupVars, setVars
<1>28. CASE CannotVerify
  BY <1>28, FileNames DEF CannotVerify, Raised, Shape, Undamaged, SetWhole,
     sourceVars, setVars
<1>29. CASE Clean
  BY <1>29, FileNames DEF Clean, Shape, Undamaged, SetWhole, Labels, sourceVars,
     backupVars, setVars
<1>30. ASSUME NEW b \in Batches, CommitBatch(b) PROVE (faults = 0 => Undamaged)'
  BY <1>30, FileNames DEF CommitBatch, Shape, Undamaged, SetWhole, Labels,
     setVars
<1>31. ASSUME NEW f \in Files, RemoveFile(f) PROVE (faults = 0 => Undamaged)'
  BY <1>31, FileNames DEF RemoveFile, Shape, Undamaged, SetWhole, Labels,
     sourceVars, backupVars, setVars
<1>32. CASE UNCHANGED vars
  BY <1>32, FileNames DEF vars, Shape, Undamaged, SetWhole, Labels
<1> QED  BY <1>1, <1>2, <1>3, <1>4, <1>5, <1>6, <1>7, <1>8, <1>9, <1>10, <1>11,
            <1>12, <1>13, <1>14, <1>15, <1>16, <1>17, <1>18, <1>19, <1>20,
            <1>21, <1>22, <1>23, <1>24, <1>25, <1>26, <1>27, <1>28, <1>29,
            <1>30, <1>31, <1>32 DEF Next

(* backup() writes its files in order, and none is read before it is       *)
(* written.                                                                *)
LEMMA SetWholeKept ==
  ASSUME Shape, Turns, TypeOK, faults = 0 => Undamaged /\ SetWhole,
         [Next]_vars
  PROVE  (faults = 0 => SetWhole)'
<1>1. CASE BackupDies
  <2>1. faults' # 0
    BY <1>1, Faulty DEF BackupDies
  <2> QED  BY <2>1
<1>2. CASE LoadsInPart
  <2>1. UNCHANGED <<bpc, dir, sums>> /\ (faults' = 0 => faults = 0)
    BY <1>2, DamagedLoad DEF LoadsInPart, Loads, Raised, backupVars, setVars
  <2> QED  BY <2>1 DEF SetWhole
<1>3. CASE LoadFails
  <2>1. UNCHANGED <<bpc, dir, sums>> /\ (faults' = 0 => faults = 0)
    BY <1>3, DamagedLoad DEF LoadFails, Loads, Raised, backupVars, setVars
  <2> QED  BY <2>1 DEF SetWhole
<1>4. CASE RestoreDies
  <2>1. faults' # 0
    BY <1>4, Faulty DEF RestoreDies
  <2> QED  BY <2>1
<1>5. ASSUME NEW b \in Batches, LoseBody(b) PROVE (faults = 0 => SetWhole)'
  <2>1. faults' # 0
    BY <1>5, Faulty DEF LoseBody
  <2> QED  BY <2>1
<1>6. ASSUME NEW f \in Files, Rot(f) PROVE (faults = 0 => SetWhole)'
  <2>1. faults' # 0
    BY <1>6, Faulty DEF Rot
  <2> QED  BY <2>1
<1>7. CASE BeginBackup
  BY <1>7, FileNames DEF BeginBackup, Shape, Turns, Undamaged, SetWhole
<1>8. CASE TakeBasis
  BY <1>8, FileNames DEF TakeBasis, Shape, Turns, Undamaged, SetWhole
<1>9. CASE TakeSnapshot
  BY <1>9, FileNames DEF TakeSnapshot, Shape, Turns, Undamaged, SetWhole
<1>10. CASE TakeSums
  BY <1>10, FileNames DEF TakeSums, Shape, Turns, Undamaged, SetWhole, Labels,
     Window, CanRead, sourceVars, restoreVars
<1>11. CASE HashArtifacts
  BY <1>11, FileNames DEF HashArtifacts, Shape, Turns, Undamaged, SetWhole
<1>12. CASE Count
  BY <1>12, FileNames DEF Count, Shape, Turns, Undamaged, SetWhole
<1>13. CASE WriteDump
  BY <1>13, FileNames DEF WriteDump, Leaves, Shape, Turns, Undamaged, SetWhole,
     Labels, Window, CanRead, sourceVars, setVars, restoreVars
<1>14. CASE WriteGlobals
  BY <1>14, FileNames DEF WriteGlobals, Leaves, Shape, Turns, Undamaged,
     SetWhole, Labels, Window, CanRead, sourceVars, setVars, restoreVars
<1>15. CASE EncryptDump
  BY <1>15, FileNames DEF EncryptDump, Leaves, Shape, Turns, Undamaged,
     SetWhole, Labels, Window, CanRead, sourceVars, setVars, restoreVars
<1>16. CASE UnlinkDump
  BY <1>16, FileNames DEF UnlinkDump, Leaves, Shape, Turns, Undamaged, SetWhole,
     Labels, Window, CanRead, sourceVars, setVars, restoreVars
<1>17. CASE EncryptGlobals
  BY <1>17, FileNames DEF EncryptGlobals, Leaves, Shape, Turns, Undamaged,
     SetWhole, Labels, Window, CanRead, sourceVars, setVars, restoreVars
<1>18. CASE UnlinkGlobals
  BY <1>18, FileNames DEF UnlinkGlobals, Leaves, Shape, Turns, Undamaged,
     SetWhole, Labels, Window, CanRead, sourceVars, setVars, restoreVars
<1>19. CASE WriteManifest
  BY <1>19, FileNames DEF WriteManifest, Leaves, Shape, Turns, Undamaged,
     SetWhole, Labels, Window, CanRead, sourceVars, setVars
<1>20. CASE WriteHashes
  BY <1>20, FileNames DEF WriteHashes, Leaves, Shape, Turns, Undamaged,
     SetWhole, Labels, setVars
<1>21. CASE BeginRestore
  BY <1>21, FileNames DEF BeginRestore, Shape, Turns, Undamaged, SetWhole,
     backupVars, setVars
<1>22. CASE NothingToRestore
  BY <1>22, FileNames DEF NothingToRestore, Raised, Shape, Turns, Undamaged,
     SetWhole, Labels, Window, CanRead, sourceVars, backupVars, setVars
<1>23. CASE Prepare
  BY <1>23, FileNames DEF Prepare, Shape, Turns, Undamaged, SetWhole,
     backupVars, setVars
<1>24. CASE Decrypt
  BY <1>24, FileNames DEF Decrypt, Shape, Turns, Undamaged, SetWhole, Labels,
     Window, CanRead, sourceVars, backupVars, setVars
<1>25. CASE DecryptFails
  BY <1>25, FileNames DEF DecryptFails, Raised, Shape, Turns, Undamaged,
     SetWhole, Labels, Window, CanRead, sourceVars, backupVars, setVars
<1>26. CASE Load
  BY <1>26, FileNames DEF Load, Loads, Shape, Turns, Undamaged, SetWhole,
     Labels, Window, CanRead, sourceVars, backupVars, setVars
<1>27. CASE Verify
  BY <1>27, FileNames DEF Verify, Shape, Turns, Undamaged, SetWhole, backupVars,
     setVars
<1>28. CASE CannotVerify
  BY <1>28, FileNames DEF CannotVerify, Raised, Shape, Turns, Undamaged,
     SetWhole, Labels, Window, CanRead, sourceVars, backupVars, setVars
<1>29. CASE Clean
  BY <1>29, FileNames DEF Clean, Shape, Turns, Undamaged, SetWhole, Labels,
     Window, CanRead, sourceVars, backupVars, setVars
<1>30. ASSUME NEW b \in Batches, CommitBatch(b) PROVE (faults = 0 => SetWhole)'
  BY <1>30, FileNames DEF CommitBatch, Shape, Turns, Undamaged, SetWhole,
     backupVars, setVars
<1>31. ASSUME NEW f \in Files, RemoveFile(f) PROVE (faults = 0 => SetWhole)'
  BY <1>31, FileNames DEF RemoveFile, Shape, Turns, Undamaged, SetWhole,
     backupVars
<1>32. CASE UNCHANGED vars
  BY <1>32, FileNames DEF vars, Shape, Turns, Undamaged, SetWhole
<1> QED  BY <1>1, <1>2, <1>3, <1>4, <1>5, <1>6, <1>7, <1>8, <1>9, <1>10, <1>11,
            <1>12, <1>13, <1>14, <1>15, <1>16, <1>17, <1>18, <1>19, <1>20,
            <1>21, <1>22, <1>23, <1>24, <1>25, <1>26, <1>27, <1>28, <1>29,
            <1>30, <1>31, <1>32 DEF Next

(* restore() loads what it has decrypted, and all of it.                   *)
LEMMA OpenedKept ==
  ASSUME Shape, Turns, TypeOK, faults = 0 => Undamaged /\ SetWhole /\ Opened,
         [Next]_vars
  PROVE  (faults = 0 => Opened)'
<1>1. CASE BackupDies
  <2>1. faults' # 0
    BY <1>1, Faulty DEF BackupDies
  <2> QED  BY <2>1
<1>2. CASE LoadsInPart
  <2>1. rpc = "load" /\ (faults' = 0 => faults = 0 /\ dir["database"] # "whole")
    BY <1>2, DamagedLoad DEF LoadsInPart, Loads
  <2> QED  BY <2>1 DEF Opened, Labels
<1>3. CASE LoadFails
  <2>1. rpc' = "idle"
    BY <1>3 DEF LoadFails, Raised
  <2> QED  BY <2>1 DEF Opened
<1>4. CASE RestoreDies
  <2>1. faults' # 0
    BY <1>4, Faulty DEF RestoreDies
  <2> QED  BY <2>1
<1>5. ASSUME NEW b \in Batches, LoseBody(b) PROVE (faults = 0 => Opened)'
  <2>1. faults' # 0
    BY <1>5, Faulty DEF LoseBody
  <2> QED  BY <2>1
<1>6. ASSUME NEW f \in Files, Rot(f) PROVE (faults = 0 => Opened)'
  <2>1. faults' # 0
    BY <1>6, Faulty DEF Rot
  <2> QED  BY <2>1
<1>7. CASE BeginBackup
  BY <1>7, FileNames DEF BeginBackup, Shape, Turns, Undamaged, SetWhole, Opened,
     Labels, Window, CanRead, sourceVars, setVars, restoreVars
<1>8. CASE TakeBasis
  BY <1>8, FileNames DEF TakeBasis, Shape, Turns, Undamaged, SetWhole, Opened,
     Labels, Window, CanRead, sourceVars
<1>9. CASE TakeSnapshot
  BY <1>9, FileNames DEF TakeSnapshot, Shape, Turns, Undamaged, SetWhole,
     Opened, Labels, Window, CanRead, sourceVars, restoreVars
<1>10. CASE TakeSums
  BY <1>10, FileNames DEF TakeSums, Shape, Turns, Undamaged, SetWhole, Opened,
     Labels, Window, CanRead, sourceVars, restoreVars
<1>11. CASE HashArtifacts
  BY <1>11, FileNames DEF HashArtifacts, Shape, Turns, Undamaged, SetWhole,
     Opened, Labels, Window, CanRead, sourceVars, restoreVars
<1>12. CASE Count
  BY <1>12, FileNames DEF Count, Shape, Turns, Undamaged, SetWhole, Opened,
     Labels, Window, CanRead, sourceVars, restoreVars
<1>13. CASE WriteDump
  BY <1>13, FileNames DEF WriteDump, Leaves, Shape, Turns, Undamaged, Opened,
     restoreVars
<1>14. CASE WriteGlobals
  BY <1>14, FileNames DEF WriteGlobals, Leaves, Shape, Turns, Undamaged, Opened,
     restoreVars
<1>15. CASE EncryptDump
  BY <1>15, FileNames DEF EncryptDump, Leaves, Shape, Turns, Undamaged, Opened,
     restoreVars
<1>16. CASE UnlinkDump
  BY <1>16, FileNames DEF UnlinkDump, Leaves, Shape, Turns, Undamaged, Opened,
     restoreVars
<1>17. CASE EncryptGlobals
  BY <1>17, FileNames DEF EncryptGlobals, Leaves, Shape, Turns, Undamaged,
     Opened, restoreVars
<1>18. CASE UnlinkGlobals
  BY <1>18, FileNames DEF UnlinkGlobals, Leaves, Shape, Turns, Undamaged,
     Opened, restoreVars
<1>19. CASE WriteManifest
  BY <1>19, FileNames DEF WriteManifest, Leaves, Shape, Turns, Undamaged,
     Opened, restoreVars
<1>20. CASE WriteHashes
  BY <1>20, FileNames DEF WriteHashes, Leaves, Shape, Turns, Undamaged, Opened,
     restoreVars
<1>21. CASE BeginRestore
  BY <1>21, FileNames DEF BeginRestore, Shape, Turns, Undamaged, SetWhole,
     Opened, Labels, Window, CanRead
<1>22. CASE NothingToRestore
  BY <1>22, FileNames DEF NothingToRestore, Raised, Shape, Turns, Undamaged,
     Opened
<1>23. CASE Prepare
  BY <1>23, FileNames DEF Prepare, Shape, Turns, Undamaged, SetWhole, Opened,
     Labels, Window, CanRead, sourceVars, backupVars, setVars
<1>24. CASE Decrypt
  BY <1>24, FileNames DEF Decrypt, Shape, Turns, Undamaged, SetWhole, Opened,
     Labels
<1>25. CASE DecryptFails
  BY <1>25, FileNames DEF DecryptFails, Raised, Shape, Turns, Undamaged,
     SetWhole, Opened, Labels, Window, CanRead, sourceVars, backupVars, setVars
<1>26. CASE Load
  BY <1>26, FileNames DEF Load, Loads, Shape, Turns, Undamaged, Opened, setVars
<1>27. CASE Verify
  BY <1>27, FileNames DEF Verify, Shape, Turns, Undamaged, SetWhole, Opened,
     Labels, Window, CanRead, sourceVars, backupVars, setVars
<1>28. CASE CannotVerify
  BY <1>28, FileNames DEF CannotVerify, Raised, Shape, Turns, Undamaged, Opened
<1>29. CASE Clean
  BY <1>29, FileNames DEF Clean, Shape, Turns, Undamaged, SetWhole, Opened,
     Labels, Window, CanRead, sourceVars, backupVars, setVars
<1>30. ASSUME NEW b \in Batches, CommitBatch(b) PROVE (faults = 0 => Opened)'
  BY <1>30, FileNames DEF CommitBatch, Shape, Turns, Undamaged, SetWhole,
     Opened, Labels, Window, CanRead, backupVars, setVars, restoreVars
<1>31. ASSUME NEW f \in Files, RemoveFile(f) PROVE (faults = 0 => Opened)'
  BY <1>31, FileNames DEF RemoveFile, Shape, Turns, Undamaged, SetWhole, Opened,
     Labels, Window, CanRead, sourceVars, backupVars, setVars, restoreVars
<1>32. CASE UNCHANGED vars
  BY <1>32, FileNames DEF vars, Shape, Turns, Undamaged, SetWhole, Opened,
     Labels, Window, CanRead, sourceVars, backupVars, setVars, restoreVars
<1> QED  BY <1>1, <1>2, <1>3, <1>4, <1>5, <1>6, <1>7, <1>8, <1>9, <1>10, <1>11,
            <1>12, <1>13, <1>14, <1>15, <1>16, <1>17, <1>18, <1>19, <1>20,
            <1>21, <1>22, <1>23, <1>24, <1>25, <1>26, <1>27, <1>28, <1>29,
            <1>30, <1>31, <1>32 DEF Next

(* With no batch between the dump and the fingerprint, each table is       *)
(* counted as it was dumped.                                               *)
LEMMA FrozenKept ==
  ASSUME Shape, Turns, DumpAfterBasis, TypeOK, faults = 0 => Undamaged /\
         SetWhole /\ Opened, faults = 0 /\ ~late => Frozen, [Next]_vars
  PROVE  (faults = 0 /\ ~late => Frozen)'
<1>1. CASE HashArtifacts
  BY <1>1 DEF HashArtifacts, Frozen, Window, Shape, Turns, sourceVars,
     restoreVars
<1>2. CASE Count
  <2> SUFFICES ASSUME faults = 0, ~late PROVE Frozen'
    BY <1>2 DEF Count
  <2>1. Frozen /\ dumped = committed
    BY <1>2 DEF Count, Frozen, Window
  <2> DEFINE last == IF engine = "mariadb" THEN Len(Reads) ELSE next
  <2>2. /\ counted' = [t \in ReadNames |-> IF \E i \in next .. last : Reads[i] = t
                                           THEN RowsOf(t, committed) ELSE counted[t]]
        /\ next' = last + 1
        /\ bpc' = IF last = Len(Reads) THEN "manifest" ELSE "count"
        /\ UNCHANGED <<committed, dumped, dir, rpc, agreed>>
        /\ bpc = "count"
    BY <1>2 DEF Count, sourceVars, restoreVars
  <2>3. next \in 1 .. 4 /\ last \in next .. 4 /\ Len(Reads) = 4
    BY <2>2, ReadsInOrder DEF Shape
  <2> HIDE DEF last
  <2>4. \A i \in 1 .. last : counted'[Reads[i]] = RowsOf(Reads[i], dumped)
    <3> SUFFICES ASSUME NEW i \in 1 .. last PROVE counted'[Reads[i]] = RowsOf(Reads[i], dumped)
      OBVIOUS
    <3>1. Reads[i] \in ReadNames
      BY <2>3, ReadsInOrder
    <3>2. i \in next .. last \/ i \in 1 .. next - 1
      BY <2>3
    <3>3. i \in 1 .. next - 1 => counted[Reads[i]] = RowsOf(Reads[i], dumped)
      BY <2>1, <2>2, <2>3 DEF Frozen
    <3> QED  BY <2>1, <2>2, <3>1, <3>2, <3>3
  <2>5. last = 4 => \A t \in ReadNames : counted'[t] = RowsOf(t, dumped)
    BY <2>4, ReadsInOrder
  <2>6. dir["manifest"] = "none"
    BY <2>2 DEF Turns, Window
  <2>7. bpc' = "count" => \A i \in 1 .. next' - 1 : i \in 1 .. Len(Reads)
                             => counted'[Reads[i]] = RowsOf(Reads[i], dumped')
    <3>1. next' - 1 = last
      BY <2>2, <2>3
    <3> QED  BY <3>1, <2>2, <2>4
  <2>8. rpc' # "clean"
    BY <2>2 DEF Turns
  <2> QED  BY <2>1, <2>2, <2>3, <2>5, <2>6, <2>7, <2>8 DEF Frozen, Window
<1>3. CASE BackupDies
  <2>1. faults' # 0
    BY <1>3, Faulty DEF BackupDies
  <2> QED  BY <2>1
<1>4. CASE WriteManifest
  BY <1>4, ManifestIsFile DEF WriteManifest, Leaves, Frozen, Window, Shape,
     setVars, restoreVars
<1>5. CASE LoadsInPart
  <2>1. rpc = "load" /\ (faults' = 0 => faults = 0 /\ dir["database"] # "whole")
    BY <1>5, DamagedLoad DEF LoadsInPart, Loads
  <2> QED  BY <2>1 DEF Opened, Labels
<1>6. CASE LoadFails
  <2>1. rpc = "load" /\ (faults' = 0 => faults = 0 /\ \E l \in Labels : dir[l] # "whole")
    BY <1>6, DamagedLoad DEF LoadFails
  <2> QED  BY <2>1 DEF Opened
<1>7. CASE Verify
  <2> SUFFICES ASSUME faults = 0, ~late PROVE Frozen'
    BY <1>7 DEF Verify
  <2>1. Frozen /\ Undamaged /\ Opened
    OBVIOUS
  <2>2. dir["manifest"] # "none" /\ rpc = "verify" /\ bpc = "idle"
    BY <1>7 DEF Verify, Turns
  <2>3. \A t \in ReadNames : counted[t] = RowsOf(t, dumped)
    BY <2>1, <2>2 DEF Frozen
  <2>4. \A t \in Tables : restored[t] = RowsOf(t, dumped)
    BY <2>1, <2>2 DEF Opened
  <2>5. CountsMatch
    BY <2>3, <2>4 DEF CountsMatch, ReadNames
  <2>6. SampleMatches
    <3>1. restored["price_observation"] = RowsOf("price_observation", dumped)
      BY <2>4 DEF Tables
    <3>2. counted["sample"] = RowsOf("sample", dumped)
      BY <2>3 DEF ReadNames
    <3>3. RowsOf("price_observation", dumped) = RowsOf("sample", dumped)
      BY DEF RowsOf
    <3> QED  BY <3>1, <3>2, <3>3 DEF SampleMatches
  <2>7. Missing = {}
    <3>1. restored["raw_artifact"] = dumped \cap Stored
      BY <2>4 DEF Tables, RowsOf
    <3>2. dumped \subseteq committed
      BY DEF DumpAfterBasis
    <3>3. \A b \in dumped \cap Stored : bodies[b] # "none"
      BY <2>1, <3>2 DEF Undamaged
    <3> QED  BY <3>1, <3>3 DEF Missing
  <2>8. checked
    BY <2>1, <2>2 DEF Opened
  <2>9. \A h \in hashes : bodies[h[1]] = h[2]
    BY <2>1 DEF Undamaged
  <2>10. agreed' = (checked /\ CountsMatch /\ SampleMatches /\ Missing = {}
                    /\ \A h \in hashes : bodies[h[1]] = h[2])
    BY <1>7 DEF Verify
  <2>11. agreed'
    BY <2>5, <2>6, <2>7, <2>8, <2>9, <2>10
  <2>12. UNCHANGED <<committed, dumped, counted, next, bpc, dir>>
    BY <1>7 DEF Verify, sourceVars, backupVars, setVars
  <2> QED  BY <2>1, <2>11, <2>12 DEF Frozen
<1>8. CASE RestoreDies
  <2>1. faults' # 0
    BY <1>8, Faulty DEF RestoreDies
  <2> QED  BY <2>1
<1>9. ASSUME NEW b \in Batches, LoseBody(b) PROVE (faults = 0 /\ ~late => Frozen)'
  <2>1. faults' # 0
    BY <1>9, Faulty DEF LoseBody
  <2> QED  BY <2>1
<1>10. ASSUME NEW f \in Files, Rot(f) PROVE (faults = 0 /\ ~late => Frozen)'
  <2>1. faults' # 0
    BY <1>10, Faulty DEF Rot
  <2> QED  BY <2>1
<1>11. CASE BeginBackup
  BY <1>11, FileNames DEF BeginBackup, Shape, Turns, Frozen, Window, setVars,
     restoreVars
<1>12. CASE TakeBasis
  BY <1>12, FileNames DEF TakeBasis, Shape, Turns, Frozen, Window
<1>13. CASE TakeSnapshot
  BY <1>13, FileNames DEF TakeSnapshot, Shape, Turns, Frozen, Window,
     sourceVars, restoreVars
<1>14. CASE TakeSums
  BY <1>14, FileNames DEF TakeSums, Shape, Turns, Frozen, Window, sourceVars,
     restoreVars
<1>15. CASE WriteDump
  BY <1>15, FileNames DEF WriteDump, Leaves, Shape, Turns, Frozen, Window,
     CanRead, sourceVars, setVars, restoreVars
<1>16. CASE WriteGlobals
  BY <1>16, FileNames DEF WriteGlobals, Leaves, Shape, Turns, Frozen, Window,
     CanRead, sourceVars, setVars, restoreVars
<1>17. CASE EncryptDump
  BY <1>17, FileNames DEF EncryptDump, Leaves, Shape, Turns, Frozen, Window,
     CanRead, sourceVars, setVars, restoreVars
<1>18. CASE UnlinkDump
  BY <1>18, FileNames DEF UnlinkDump, Leaves, Shape, Turns, Frozen, Window,
     CanRead, sourceVars, setVars, restoreVars
<1>19. CASE EncryptGlobals
  BY <1>19, FileNames DEF EncryptGlobals, Leaves, Shape, Turns, Frozen, Window,
     CanRead, sourceVars, setVars, restoreVars
<1>20. CASE UnlinkGlobals
  BY <1>20, FileNames DEF UnlinkGlobals, Leaves, Shape, Turns, Frozen, Window,
     CanRead, sourceVars, setVars, restoreVars
<1>21. CASE WriteHashes
  BY <1>21, FileNames DEF WriteHashes, Leaves, Shape, Turns, Frozen, Window,
     CanRead, sourceVars, setVars, restoreVars
<1>22. CASE BeginRestore
  BY <1>22, FileNames DEF BeginRestore, Shape, Turns, Frozen, Window,
     backupVars, setVars
<1>23. CASE NothingToRestore
  BY <1>23, FileNames DEF NothingToRestore, Raised, Shape, Turns, Frozen,
     Window, CanRead, sourceVars, backupVars, setVars
<1>24. CASE Prepare
  BY <1>24, FileNames DEF Prepare, Shape, Turns, Frozen, Window, backupVars,
     setVars
<1>25. CASE Decrypt
  BY <1>25, FileNames DEF Decrypt, Shape, Turns, Frozen, Window, backupVars,
     setVars
<1>26. CASE DecryptFails
  BY <1>26, FileNames DEF DecryptFails, Raised, Shape, Turns, Frozen,
     backupVars, setVars
<1>27. CASE Load
  BY <1>27, FileNames DEF Load, Loads, Shape, Turns, Frozen, backupVars, setVars
<1>28. CASE CannotVerify
  BY <1>28, FileNames DEF CannotVerify, Raised, Shape, Turns, Frozen,
     backupVars, setVars
<1>29. CASE Clean
  BY <1>29, FileNames DEF Clean, Shape, Turns, Frozen, Window, backupVars,
     setVars
<1>30. ASSUME NEW b \in Batches, CommitBatch(b) PROVE (faults = 0 /\ ~late => Frozen)'
  BY <1>30, FileNames DEF CommitBatch, Shape, Turns, Frozen, Window, backupVars,
     setVars, restoreVars
<1>31. ASSUME NEW f \in Files, RemoveFile(f) PROVE (faults = 0 /\ ~late => Frozen)'
  BY <1>31, FileNames DEF RemoveFile, Shape, Turns, Frozen, Window, backupVars,
     setVars, restoreVars
<1>32. CASE UNCHANGED vars
  BY <1>32, FileNames DEF vars, Shape, Turns, Frozen, Window
<1> QED  BY <1>1, <1>2, <1>3, <1>4, <1>5, <1>6, <1>7, <1>8, <1>9, <1>10, <1>11,
            <1>12, <1>13, <1>14, <1>15, <1>16, <1>17, <1>18, <1>19, <1>20,
            <1>21, <1>22, <1>23, <1>24, <1>25, <1>26, <1>27, <1>28, <1>29,
            <1>30, <1>31, <1>32 DEF Next

(* A verdict is of counts that agree, unless something went wrong or a     *)
(* batch came late.                                                        *)
LEMMA AcceptedKept ==
  ASSUME Shape, Turns, TypeOK, faults = 0 => Undamaged /\ SetWhole /\ Opened,
         faults = 0 /\ ~late => Frozen, SoundBackupAccepted, [Next]_vars
  PROVE  SoundBackupAccepted'
<1>1. CASE BackupDies
  <2>1. faults' # 0
    BY <1>1, Faulty DEF BackupDies
  <2> QED  BY <2>1 DEF SoundBackupAccepted
<1>2. CASE NothingToRestore
  <2>1. bpc = "idle" /\ ~CanRead /\ UNCHANGED <<dir, faults>>
    BY <1>2 DEF NothingToRestore
  <2>2. dir["manifest"] = "whole" /\ faults = 0 => CanRead
    BY <2>1 DEF CanRead, SetWhole
  <2> QED  BY <2>1, <2>2 DEF SoundBackupAccepted
<1>3. CASE DecryptFails
  <2>1. faults' = faults /\ \E l \in Labels : dir[Encrypted(l)] = "damaged"
    BY <1>3 DEF DecryptFails
  <2>2. faults # 0
    BY <2>1 DEF Undamaged, Files
  <2> QED  BY <2>1, <2>2 DEF SoundBackupAccepted
<1>4. CASE LoadsInPart
  <2>1. UNCHANGED <<dir, verdict, late>> /\ (faults' = 0 => faults = 0)
    BY <1>4, DamagedLoad DEF LoadsInPart, Loads
  <2> QED  BY <2>1 DEF SoundBackupAccepted
<1>5. CASE LoadFails
  <2>1. rpc = "load" /\ (faults' = 0 => faults = 0 /\ \E l \in Labels : dir[l] # "whole")
    BY <1>5, DamagedLoad DEF LoadFails
  <2> QED  BY <2>1 DEF Opened, SoundBackupAccepted
<1>6. CASE CannotVerify
  <2>1. rpc = "verify" /\ ~CanVerify /\ UNCHANGED faults
    BY <1>6 DEF CannotVerify
  <2>2. bpc = "idle" /\ dir["manifest"] # "none"
    BY <2>1 DEF Turns
  <2>3. faults = 0 => dir["hashes"] = "whole"
    BY <2>2 DEF SetWhole
  <2>4. faults = 0 => \A h \in hashes : bodies[h[1]] # "none"
    BY DEF Undamaged
  <2> QED  BY <2>1, <2>3, <2>4 DEF SoundBackupAccepted, CanVerify
<1>7. CASE Clean
  <2>1. rpc = "clean" /\ UNCHANGED <<late, faults>> /\ verdict' = IF agreed THEN "pass" ELSE "fail"
    BY <1>7 DEF Clean
  <2>2. faults = 0 /\ ~late => agreed
    BY <2>1 DEF Frozen
  <2> QED  BY <2>1, <2>2 DEF SoundBackupAccepted
<1>8. CASE RestoreDies
  <2>1. faults' # 0
    BY <1>8, Faulty DEF RestoreDies
  <2> QED  BY <2>1 DEF SoundBackupAccepted
<1>9. ASSUME NEW b \in Batches, LoseBody(b) PROVE SoundBackupAccepted'
  <2>1. faults' # 0
    BY <1>9, Faulty DEF LoseBody
  <2> QED  BY <2>1 DEF SoundBackupAccepted
<1>10. ASSUME NEW f \in Files, Rot(f) PROVE SoundBackupAccepted'
  <2>1. faults' # 0
    BY <1>10, Faulty DEF Rot
  <2> QED  BY <2>1 DEF SoundBackupAccepted
<1>11. CASE BeginBackup
  BY <1>11, FileNames DEF BeginBackup, Shape, Turns, SoundBackupAccepted,
     Window, restoreVars
<1>12. CASE TakeBasis
  BY <1>12, FileNames DEF TakeBasis, Shape, Turns, SoundBackupAccepted, Window
<1>13. CASE TakeSnapshot
  BY <1>13, FileNames DEF TakeSnapshot, Shape, Turns, SoundBackupAccepted,
     Window
<1>14. CASE TakeSums
  BY <1>14, FileNames DEF TakeSums, Shape, Turns, SoundBackupAccepted, Window
<1>15. CASE HashArtifacts
  BY <1>15, FileNames DEF HashArtifacts, Shape, Turns, SoundBackupAccepted,
     Window
<1>16. CASE Count
  BY <1>16, FileNames DEF Count, Shape, Turns, SoundBackupAccepted, Window
<1>17. CASE WriteDump
  BY <1>17, FileNames DEF WriteDump, Leaves, Shape, Turns, SoundBackupAccepted,
     Window, CanRead, sourceVars, setVars, restoreVars
<1>18. CASE WriteGlobals
  BY <1>18, FileNames DEF WriteGlobals, Leaves, Shape, Turns,
     SoundBackupAccepted, Window, CanRead, sourceVars, setVars, restoreVars
<1>19. CASE EncryptDump
  BY <1>19, FileNames DEF EncryptDump, Leaves, Shape, Turns,
     SoundBackupAccepted, Window, CanRead, sourceVars, setVars, restoreVars
<1>20. CASE UnlinkDump
  BY <1>20, FileNames DEF UnlinkDump, Leaves, Shape, Turns, SoundBackupAccepted,
     Window, CanRead, sourceVars, setVars, restoreVars
<1>21. CASE EncryptGlobals
  BY <1>21, FileNames DEF EncryptGlobals, Leaves, Shape, Turns,
     SoundBackupAccepted, Window, CanRead, sourceVars, setVars, restoreVars
<1>22. CASE UnlinkGlobals
  BY <1>22, FileNames DEF UnlinkGlobals, Leaves, Shape, Turns,
     SoundBackupAccepted, Window, CanRead, sourceVars, setVars, restoreVars
<1>23. CASE WriteManifest
  BY <1>23, FileNames DEF WriteManifest, Leaves, Shape, Turns,
     SoundBackupAccepted, restoreVars
<1>24. CASE WriteHashes
  BY <1>24, FileNames DEF WriteHashes, Leaves, Shape, Turns,
     SoundBackupAccepted, restoreVars
<1>25. CASE BeginRestore
  BY <1>25, FileNames DEF BeginRestore, Shape, Turns, SoundBackupAccepted,
     Window
<1>26. CASE Prepare
  BY <1>26, FileNames DEF Prepare, Shape, Turns, SoundBackupAccepted, Window
<1>27. CASE Decrypt
  BY <1>27, FileNames DEF Decrypt, Shape, Turns, SoundBackupAccepted, Window
<1>28. CASE Load
  BY <1>28, FileNames DEF Load, Loads, Shape, Turns, SoundBackupAccepted
<1>29. CASE Verify
  BY <1>29, FileNames DEF Verify, Shape, Turns, SoundBackupAccepted, Window
<1>30. ASSUME NEW b \in Batches, CommitBatch(b) PROVE SoundBackupAccepted'
  BY <1>30, FileNames DEF CommitBatch, Shape, Turns, SoundBackupAccepted,
     Window, restoreVars
<1>31. ASSUME NEW f \in Files, RemoveFile(f) PROVE SoundBackupAccepted'
  BY <1>31, FileNames DEF RemoveFile, Shape, Turns, SoundBackupAccepted, Window,
     restoreVars
<1>32. CASE UNCHANGED vars
  BY <1>32, FileNames DEF vars, Shape, Turns, SoundBackupAccepted, Window
<1> QED  BY <1>1, <1>2, <1>3, <1>4, <1>5, <1>6, <1>7, <1>8, <1>9, <1>10, <1>11,
            <1>12, <1>13, <1>14, <1>15, <1>16, <1>17, <1>18, <1>19, <1>20,
            <1>21, <1>22, <1>23, <1>24, <1>25, <1>26, <1>27, <1>28, <1>29,
            <1>30, <1>31, <1>32 DEF Next

(* No backup has been made.                                                *)
LEMMA FullInit == Init => JInv
<1> SUFFICES ASSUME Init PROVE JInv
  OBVIOUS
<1>1. TypeOK
  <2>1. /\ bodies \in [Stored -> {"none", "stored", "altered"}]
        /\ dir \in [Files -> Contents]
        /\ sums \in [Labels -> Contents]
        /\ counted \in [ReadNames -> SUBSET Batches]
        /\ restored \in [Tables -> SUBSET Batches]
    BY DEF Init, Contents
  <2>2. /\ backups \in 0 .. MaxBackups /\ restores \in 0 .. MaxRestores
        /\ faults \in 0 .. MaxFaults /\ next \in 1 .. Len(Reads) + 1
    BY BackupAssumption, ReadsInOrder DEF Init
  <2>3. engine \in Engines /\ committed \subseteq Batches
    BY BackupAssumption DEF Init, Batches
  <2>4. /\ dumped = {} /\ hashes = {} /\ basis = {} /\ bpc = "idle" /\ rpc = "idle"
        /\ verdict = "none" /\ checked = FALSE /\ agreed = FALSE /\ late = FALSE
    BY DEF Init
  <2> QED  BY <2>1, <2>2, <2>3, <2>4 DEF TypeOK, BackupPCs
<1>2. \A f \in Files : dir[f] = "none"
  BY DEF Init
<1>3. PlainTextOnlyInside
  BY <1>2 DEF Init, PlainTextOnlyInside, Files
<1>4. Undamaged
  BY <1>2 DEF Init, Undamaged
<1>5. SetWhole /\ Opened /\ SoundBackupAccepted
  BY <1>2, FileNames DEF Init, SetWhole, Opened, SoundBackupAccepted
<1>6. Frozen
  BY <1>2, FileNames DEF Init, Frozen, Window
<1> QED  BY InitHolds, <1>1, <1>3, <1>4, <1>5, <1>6 DEF JInv

(* The parts of JInv together.                                             *)
LEMMA FullInductive == JInv /\ [Next]_vars => JInv'
<1> SUFFICES ASSUME JInv, [Next]_vars PROVE JInv'
  OBVIOUS
<1>1. /\ IInv /\ Shape /\ Turns /\ DumpAfterBasis /\ TypeOK /\ PlainTextOnlyInside
      /\ faults = 0 => Undamaged /\ SetWhole /\ Opened
      /\ faults = 0 /\ ~late => Frozen
      /\ SoundBackupAccepted
  BY DEF JInv, IInv
<1>2. IInv'
  BY <1>1, Inductive
<1>3. TypeOK'
  BY <1>1, TypesKept
<1>4. PlainTextOnlyInside'
  BY <1>1, PlainKept
<1>5. (faults = 0 => Undamaged)' /\ (faults = 0 => SetWhole)' /\ (faults = 0 => Opened)'
  BY <1>1, UndamagedKept, SetWholeKept, OpenedKept
<1>6. (faults = 0 /\ ~late => Frozen)'
  BY <1>1, FrozenKept
<1>7. SoundBackupAccepted'
  BY <1>1, AcceptedKept
<1> QED  BY <1>2, <1>3, <1>4, <1>5, <1>6, <1>7 DEF JInv

(* The second invariant always holds (backup.py).                          *)
LEMMA FullInvariant == Spec => []JInv
<1>1. Init => JInv
  BY FullInit
<1>2. JInv /\ [Next]_vars => JInv'
  BY FullInductive
<1> QED  BY <1>1, <1>2, PTL DEF Spec

(* The source, the directory and both processes keep their types           *)
(* (backup.py).                                                             *)
THEOREM BackupTyped == Spec => []TypeOK
<1>1. JInv => TypeOK
  BY DEF JInv
<1> QED  BY <1>1, FullInvariant, PTL

(* All the places for plain text.  Without a manifest: a backup at work, up *)
(* to the removal of its second file, one that ended before its manifest,   *)
(* or the rest of a set that the next one removes.  With one: a restore     *)
(* under way, or the last one raised, be it while it decrypted, loaded or   *)
(* verified, or was killed.                                                 *)
PlainTextPlaces ==
  (\E l \in Labels : dir[l] # "none") =>
    \/ /\ dir["manifest"] = "none"
       /\ bpc \in {"idle", "remove", "copy", "globals", "encrypt database", "unlink database",
                   "encrypt globals", "unlink globals"}
    \/ rpc # "idle"
    \/ verdict \in {"raised", "killed"}

(* Before the dump begins, everything has been removed.                     *)
Emptied == bpc = "dump" => \A f \in Files : dir[f] = "none"

(* Nothing but the removal comes to the dump, and nothing writes before it. *)
LEMMA StaysEmptied ==
  ASSUME TypeOK, Turns, Emptied, [Next]_vars
  PROVE  Emptied'
<1> SUFFICES ASSUME bpc' = "dump" PROVE \A f \in Files : dir'[f] = "none"
  BY DEF Emptied
<1> USE DEF sourceVars, setVars, backupVars, restoreVars
<1>1. CASE TakeBasis
  BY <1>1 DEF TakeBasis
<1>2. ASSUME bpc = "dump", UNCHANGED dir PROVE \A f \in Files : dir'[f] = "none"
  BY <1>2 DEF Emptied
<1>3. CASE BeginBackup \/ TakeSnapshot \/ TakeSums \/ HashArtifacts \/ BackupDies
  BY <1>3 DEF BeginBackup, TakeSnapshot, TakeSums, HashArtifacts, BackupDies
<1>4. CASE Count
  <2>1. bpc' \in {"manifest", "count"}
    BY <1>4 DEF Count
  <2> QED  BY <2>1
<1>5. CASE WriteDump \/ WriteGlobals \/ EncryptDump \/ UnlinkDump \/ EncryptGlobals
           \/ UnlinkGlobals \/ WriteManifest \/ WriteHashes
  BY <1>5 DEF WriteDump, WriteGlobals, EncryptDump, UnlinkDump, EncryptGlobals, UnlinkGlobals,
              WriteManifest, WriteHashes, Leaves
<1>6. CASE BeginRestore \/ NothingToRestore
  BY <1>6 DEF BeginRestore, NothingToRestore, Raised
<1>7. CASE Prepare \/ Decrypt \/ DecryptFails \/ Load \/ LoadsInPart \/ LoadFails \/ Verify
           \/ CannotVerify \/ Clean \/ RestoreDies
  <2>1. bpc' = bpc /\ rpc # "idle"
    BY <1>7 DEF Prepare, Decrypt, DecryptFails, Load, LoadsInPart, Loads, LoadFails, Verify,
                CannotVerify, Clean, RestoreDies, Raised
  <2> QED  BY <2>1 DEF Turns
<1>8. ASSUME NEW b \in Batches, CommitBatch(b) \/ LoseBody(b)
      PROVE  \A f \in Files : dir'[f] = "none"
  <2>1. bpc' = bpc /\ dir' = dir
    BY <1>8 DEF CommitBatch, LoseBody
  <2> QED  BY <1>2, <2>1
<1>9. ASSUME NEW f \in Files, RemoveFile(f) \/ Rot(f)
      PROVE  \A g \in Files : dir'[g] = "none"
  <2>1. bpc' = bpc /\ (bpc = "remove" \/ dir[f] = "whole")
    BY <1>9 DEF RemoveFile, Rot
  <2> QED  BY <2>1 DEF Emptied
<1>10. CASE UNCHANGED vars
  BY <1>2, <1>10 DEF vars
<1> QED
  BY <1>1, <1>3, <1>4, <1>5, <1>6, <1>7, <1>8, <1>9, <1>10 DEF Next

(* The manifest is written before the hashes.                               *)
Listed == bpc = "hashes" => dir["manifest"] # "none"

(* And is there until they are.                                             *)
LEMMA StaysListed ==
  ASSUME TypeOK, Turns, Listed, [Next]_vars
  PROVE  Listed'
<1> SUFFICES ASSUME bpc' = "hashes" PROVE dir'["manifest"] # "none"
  BY DEF Listed
<1> USE ManifestIsFile DEF sourceVars, setVars, backupVars, restoreVars
<1>1. CASE WriteManifest
  BY <1>1 DEF WriteManifest, Leaves, TypeOK
<1>2. ASSUME bpc = "hashes", UNCHANGED dir PROVE dir'["manifest"] # "none"
  BY <1>2 DEF Listed
<1>3. CASE BeginBackup \/ TakeBasis \/ TakeSnapshot \/ TakeSums \/ HashArtifacts \/ BackupDies
  BY <1>3 DEF BeginBackup, TakeBasis, TakeSnapshot, TakeSums, HashArtifacts, BackupDies
<1>4. CASE Count
  <2>1. bpc' \in {"manifest", "count"}
    BY <1>4 DEF Count
  <2> QED  BY <2>1
<1>5. CASE WriteDump \/ WriteGlobals \/ EncryptDump \/ UnlinkDump \/ EncryptGlobals
           \/ UnlinkGlobals \/ WriteHashes
  BY <1>5 DEF WriteDump, WriteGlobals, EncryptDump, UnlinkDump, EncryptGlobals, UnlinkGlobals,
              WriteHashes, Leaves
<1>6. CASE BeginRestore \/ NothingToRestore
  BY <1>6 DEF BeginRestore, NothingToRestore, Raised
<1>7. CASE Prepare \/ Decrypt \/ DecryptFails \/ Load \/ LoadsInPart \/ LoadFails \/ Verify
           \/ CannotVerify \/ Clean \/ RestoreDies
  <2>1. bpc' = bpc /\ rpc # "idle"
    BY <1>7 DEF Prepare, Decrypt, DecryptFails, Load, LoadsInPart, Loads, LoadFails, Verify,
                CannotVerify, Clean, RestoreDies, Raised
  <2> QED  BY <2>1 DEF Turns
<1>8. ASSUME NEW b \in Batches, CommitBatch(b) \/ LoseBody(b) PROVE dir'["manifest"] # "none"
  <2>1. bpc' = bpc /\ dir' = dir
    BY <1>8 DEF CommitBatch, LoseBody
  <2> QED  BY <1>2, <2>1
<1>9. ASSUME NEW f \in Files, RemoveFile(f) \/ Rot(f) PROVE dir'["manifest"] # "none"
  <2>1. /\ bpc' = bpc /\ (bpc = "remove" \/ dir' = [dir EXCEPT ![f] = "damaged"])
    BY <1>9 DEF RemoveFile, Rot
  <2> QED  BY <2>1 DEF Listed, TypeOK
<1>10. CASE UNCHANGED vars
  BY <1>2, <1>10 DEF vars
<1> QED
  BY <1>1, <1>3, <1>4, <1>5, <1>6, <1>7, <1>8, <1>9, <1>10 DEF Next

(* Both hold in every state.                                                *)
LEMMA EmptiedAndListed == Spec => [](Emptied /\ Listed)
<1>1. Init => Emptied /\ Listed
  BY DEF Init, Emptied, Listed
<1>2. JInv => TypeOK /\ Turns
  BY DEF JInv, IInv
<1>3. TypeOK /\ Turns /\ Emptied /\ [Next]_vars => Emptied'
  BY StaysEmptied
<1>4. TypeOK /\ Turns /\ Listed /\ [Next]_vars => Listed'
  BY StaysListed
<1> QED  BY <1>1, <1>2, <1>3, <1>4, FullInvariant, PTL DEF Spec

(* Plain text lies beside the encrypted files at these places and no other; *)
(* so none does with a manifest there and no restore under way or broken    *)
(* off (_encrypt, restore).                                                 *)
THEOREM NoPlainTextLeft == Spec => [](PlainTextGone /\ PlainTextPlaces)
<1>1. JInv => PlainTextGone
  BY DEF JInv, PlainTextOnlyInside, PlainTextGone
<1>2. JInv /\ Emptied /\ Listed => PlainTextPlaces
  <2> SUFFICES ASSUME JInv, Emptied, Listed, NEW l \in Labels, dir[l] # "none", rpc = "idle",
                      verdict \notin {"raised", "killed"}
               PROVE  /\ dir["manifest"] = "none"
                      /\ bpc \in {"idle", "remove", "copy", "globals", "encrypt database",
                                  "unlink database", "encrypt globals", "unlink globals"}
    BY DEF PlainTextPlaces
  <2>1. TypeOK /\ PlainTextOnlyInside /\ l \in Files /\ l \in {"database", "globals"}
    BY DEF JInv, Files, Labels
  <2>2. verdict \in {"none", "pass", "fail"} /\ bpc \in BackupPCs
    BY <2>1 DEF TypeOK
  <2>3. dir["manifest"] = "none"
    BY <2>1, <2>2 DEF PlainTextOnlyInside
  <2>4. bpc \notin {"sums", "artifacts", "count", "manifest", "dump"}
    BY <2>1 DEF PlainTextOnlyInside, Emptied
  <2>5. bpc # "hashes"
    BY <2>3 DEF Listed
  <2> QED  BY <2>2, <2>3, <2>4, <2>5 DEF BackupPCs, Window
<1> QED  BY <1>1, <1>2, FullInvariant, EmptiedAndListed, PTL

(* The verification fails, without a kill, damage or loss, only when a      *)
(* batch was committed between the dump and the fingerprint (restore).      *)
THEOREM SoundBackupPasses == Spec => []SoundBackupAccepted
<1>1. JInv => SoundBackupAccepted
  BY DEF JInv
<1> QED  BY <1>1, FullInvariant, PTL

(* A restore that passes holds exactly the rows the fingerprint counted,    *)
(* whatever is committed meanwhile and however much of the load is lost     *)
(* (restore, entity_fingerprint).                                           *)
THEOREM PassedRestoreIsExact == Spec => []AcceptedRestoreAgrees
<1>1. IInv => AcceptedRestoreAgrees
  BY DEF IInv, RestoredFromDump
<1> QED  BY <1>1, Invariant, PTL

(* A restore that passes has all that was committed at the basis time, so   *)
(* backup_age never takes the backup for younger than its contents          *)
(* (backup, monitor.backup_age).                                            *)
THEOREM PassedRestoreCoversBasis == Spec => []BasisCovered
<1>1. IInv => BasisCovered
  BY DEF IInv, RestoredFromDump
<1> QED  BY <1>1, Invariant, PTL
=============================================================================
