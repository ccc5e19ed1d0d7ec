--------------------------- MODULE HarnessProofs ---------------------------
(***************************************************************************)
(* What a check of crash.py that passes has interrupted, and what keeps    *)
(* run_all from going on, for any number of readers, writers and batches.  *)
(***************************************************************************)
EXTENDS Harness, FiniteSetTheorems, TLAPS

(* Where crash.py is from the start of a holder to the count.              *)
CrashPhases == {"await", "kill-server", "kill", "start-server", "count"}

(* Where a child can be.                                                   *)
ChildPhases == Over \cup {"begin", "loop", "flushing", "inserted", "asleep"}

(* The event is set, and the rows are in the open transaction, only by a    *)
(* holder that has gone to sleep.                                           *)
Awaited ==
  pc = "await" =>
    /\ event => child[Holder] = "asleep"
    /\ child[Holder] \in {"inserted", "asleep"} => open

(* Before the kill: a wait that came back with the event found the rows in  *)
(* place.                                                                   *)
BeforeKill ==
  /\ pc = "kill-server" => round # 1
  /\ pc = "kill-server" \/ (pc = "kill" /\ round = 1) =>
       excuse # {} \/ (child[Holder] = "asleep" /\ open)

(* After the kill the interruption is recorded, or an excuse is.           *)
AfterKill ==
  (pc = "kill" /\ round # 1) \/ pc \in {"start-server", "count"} =>
    interrupted \/ excuse # {}

(* The inductive invariant of PassInterrupts.                              *)
IInv ==
  /\ child \in [Children -> ChildPhases]
  /\ pc \in CrashPhases => verdict = "none"
  /\ Awaited /\ BeforeKill /\ AfterKill /\ PassInterrupts

(* The children of the six steps are different ones.                       *)
LEMMA HolderIsOne ==
  /\ Holder \in Children /\ DayReader \in Children /\ OldReader \in Children
  /\ Holder # DayReader
  /\ Holder \notin BenchCrew \cup Loops \cup Helpers
  /\ DayReader \notin BenchCrew \cup Loops \cup Helpers
  /\ BenchCrew \subseteq Children /\ Loops \subseteq Children /\ Helpers \subseteq Children
  /\ BenchCrew \cap Loops = {} /\ Helpers \cap (BenchCrew \cup Loops) = {}
  BY HarnessAssumption DEF Children, Loops

(* IInv holds before the first step of the sequence.                       *)
LEMMA InitInv == Init => IInv
  BY DEF Init, IInv, Awaited, BeforeKill, AfterKill, PassInterrupts, ChildPhases, CrashPhases, Over

(* Outside of crash.py's phases nothing is claimed but the last verdict.    *)
LEMMA Elsewhere ==
  ASSUME IInv, child' \in [Children -> ChildPhases], pc' \notin CrashPhases,
         \/ UNCHANGED <<interrupted, excuse, verdict>>
         \/ verdict' = "none"
  PROVE  IInv'
  BY DEF IInv, Awaited, BeforeKill, AfterKill, PassInterrupts, CrashPhases

(* run_all starts every step anew, and touches no running one.             *)
LEMMA RunAllInv == IInv /\ RunAll => IInv'
<1> SUFFICES ASSUME IInv, RunAll PROVE IInv'
  OBVIOUS
<1>1. CASE Skip \/ Restart \/ TimeLimit \/ Finish
  <2>1. UNCHANGED <<pc, child, event, open, round, interrupted, excuse, verdict>>
    BY <1>1 DEF Skip, Restart, TimeLimit, Finish, stepVars, crashVars
  <2> QED  BY <2>1 DEF IInv, Awaited, BeforeKill, AfterKill, PassInterrupts
<1>2. CASE RunStep
  BY <1>2, Elsewhere DEF RunStep, IInv, ChildPhases, CrashPhases, Over
<1>3. CASE StepOver
  BY <1>3, Elsewhere DEF StepOver, IInv, crashVars, CrashPhases
<1> QED  BY <1>1, <1>2, <1>3 DEF RunAll

(* The steps of the other parents do not touch the holder.                  *)
LEMMA OthersInv ==
  ASSUME IInv,
         \/ CompatBegins \/ CompatStartsOne \/ CompatTells \/ CompatLeaves \/ CompatFails
         \/ ChecksLeave \/ (\E crew \in SUBSET Helpers : HelpersStart(crew))
         \/ (\E c \in Helpers : TerminatesHelper(c))
         \/ (\E crew \in SUBSET BenchCrew : BenchStartsSome(crew))
         \/ OtherStep \/ DayBegins \/ DayWrites \/ DayTells \/ DayCollects \/ DayFails
         \/ BenchBegins \/ BenchSamples \/ BenchReports \/ BenchFails \/ CrashFails
         \/ \E c \in BenchCrew : BenchCollects(c)
  PROVE  IInv'
<1> USE DEF In, IInv, crashVars, CrashPhases
<1>1. CASE DayWrites \/ DayTells \/ DayCollects \/ BenchSamples \/ BenchReports \/ CompatTells
  BY <1>1, Elsewhere DEF DayWrites, DayTells, DayCollects, BenchSamples, BenchReports, CompatTells
<1>2. CASE DayBegins
  BY <1>2, Elsewhere, HolderIsOne DEF DayBegins, Goes, ChildPhases
<1>3. CASE BenchBegins \/ CompatBegins
  BY <1>3, Elsewhere DEF BenchBegins, CompatBegins, ChildPhases
<1>4. CASE DayFails \/ BenchFails \/ CrashFails \/ CompatFails
  BY <1>4, Elsewhere DEF DayFails, BenchFails, CrashFails, CompatFails, Fails
<1>6. CASE OtherStep \/ CompatLeaves \/ ChecksLeave
  <2>1. Leaves
    BY <1>6 DEF OtherStep, CompatLeaves, ChecksLeave
  <2> QED  BY <2>1, Elsewhere DEF Leaves
<1>7. CASE CompatStartsOne
  BY <1>7, Elsewhere, HolderIsOne DEF CompatStartsOne, Goes, ChildPhases
<1>8. ASSUME NEW crew, BenchStartsSome(crew) \/ HelpersStart(crew) PROVE IInv'
  BY <1>8, Elsewhere DEF BenchStartsSome, HelpersStart, ChildPhases
<1>9. ASSUME NEW c \in Helpers, TerminatesHelper(c) PROVE IInv'
  BY <1>9, Elsewhere, HolderIsOne DEF TerminatesHelper, Checking, Goes, ChildPhases, Over
<1>5. ASSUME NEW c \in BenchCrew, BenchCollects(c) PROVE IInv'
  BY <1>5, Elsewhere DEF BenchCollects
<1> QED  BY <1>1, <1>2, <1>3, <1>4, <1>5, <1>6, <1>7, <1>8, <1>9

(* The steps of crash.py, from the wait for the holder to the verdict.     *)
LEMMA CrashInv ==
  ASSUME IInv, StartHolder \/ Awaits \/ KillServer \/ KillHolder \/ StartServer \/ Counts
  PROVE  IInv'
<1> USE DEF In, IInv, Awaited, BeforeKill, AfterKill, PassInterrupts, CrashPhases
<1>1. CASE StartHolder
  BY <1>1, HolderIsOne DEF StartHolder, Goes, ChildPhases
<1>2. CASE Awaits
  BY <1>2 DEF Awaits
<1>3. CASE KillServer
  BY <1>3 DEF KillServer, GoesOn
<1>4. CASE KillHolder
  <2>1. child' \in [Children -> ChildPhases]
    BY <1>4 DEF KillHolder, ChildPhases, Over
  <2> QED  BY <1>4, <2>1 DEF KillHolder
<1>5. CASE StartServer
  BY <1>5 DEF StartServer, GoesOn, crashVars
<1>6. CASE Counts
  BY <1>6 DEF Counts
<1> QED  BY <1>1, <1>2, <1>3, <1>4, <1>5, <1>6

(* Only the holder moves what a check of crash.py interrupts.              *)
LEMMA ChildInv == ASSUME IInv, NEW c \in Children, Child(c) PROVE IInv'
<1> USE DEF IInv, Awaited, BeforeKill, AfterKill, PassInterrupts, ChildOf, Goes, ChildPhases, Over
<1>1. CASE ChildRaises(c) \/ ChildLoops(c) \/ ChildReports(c) \/ ChildEnds(c)
  BY <1>1, HolderIsOne DEF ChildRaises, ChildLoops, ChildReports, ChildEnds
<1>4. CASE LoopEnds(c) \/ HelperEnds(c)
  BY <1>4, HolderIsOne DEF LoopEnds, HelperEnds
<1>5. CASE HolderWakes
  BY <1>5, HolderIsOne DEF HolderWakes, CrashPhases
<1>2. CASE HolderInserts
  BY <1>2, HolderIsOne DEF HolderInserts
<1>3. CASE HolderReady
  BY <1>3, HolderIsOne DEF HolderReady
<1> QED  BY <1>1, <1>2, <1>3, <1>4, <1>5 DEF Child

(* Every step of the system keeps IInv.                                    *)
LEMMA NextInv == IInv /\ [Next]_vars => IInv'
<1> SUFFICES ASSUME IInv, [Next]_vars PROVE IInv'
  OBVIOUS
<1>1. CASE UNCHANGED vars
  BY <1>1 DEF vars, stepVars, crashVars, IInv, Awaited, BeforeKill, AfterKill, PassInterrupts
<1>2. CASE Parent
  BY <1>2, OthersInv, CrashInv DEF Parent
<1> QED  BY <1>1, <1>2, RunAllInv, ChildInv DEF Next, Ended

(* A crash check that passes although the holder's rows were not in an open *)
(* transaction when it killed has an excuse: the holder had not reported,   *)
(* or the server was spared.                                                *)
THEOREM PassedCheckInterrupted == Spec => []PassInterrupts
<1>1. IInv => PassInterrupts
  BY DEF IInv
<1> QED  BY <1>1, InitInv, NextInv, PTL DEF Spec
----------------------------------------------------------------------------
(* The members of the benchmark whose report has left them.                 *)
Reported == {c \in BenchCrew : child[c] \in {"flushing", "ended"}}

(* No child runs.                                                          *)
AllOver == \A c \in Children : child[c] \in Over

(* A step begins with no child and nothing in the queue.                    *)
StartClean ==
  pc = "start" =>
    /\ queue = {} /\ got = 0 /\ AllOver
    /\ Step = "bench" => \A c \in Children : child[c] = "none"

(* Reports are in the queue or counted.                                     *)
Counted ==
  Step = "bench" /\ pc \in {"sample", "collect"} =>
    /\ \A c \in Children \ BenchCrew : child[c] \in Over
    /\ \A c \in BenchCrew : child[c] \in {"begin", "loop", "flushing", "ended", "raised"}
    /\ queue \subseteq Reported
    /\ got = Cardinality(Reported \ queue)

(* A benchmark that leaves has counted a report of every child, unless one  *)
(* could not be started.                                                    *)
BenchLeaves ==
  Step = "bench" /\ pc = "leaving" =>
    /\ \A c \in Children \ BenchCrew : child[c] \in Over
    /\ \/ \E c \in BenchCrew : child[c] = "none"
       \/ queue = {} /\ \A c \in BenchCrew : child[c] \in Over \cup {"flushing"}

(* The reader has been told once the batches are written.                   *)
DayRuns ==
  Step = "ingest-daily" /\ pc \in {"write", "collect", "leaving"} =>
    /\ \A c \in Children \ {DayReader} : child[c] \in Over
    /\ child[DayReader] \in Over \cup {"begin", "loop", "flushing"}
    /\ pc = "collect" => event
    /\ pc = "leaving" => event \/ left > 0 \/ child[DayReader] \in Over

(* Only the holder runs beside crash.py, and nothing is queued.            *)
CrashRuns ==
  /\ pc \in {"await", "kill-server", "kill"} =>
       \A c \in Children \ {Holder} : child[c] \in Over
  /\ pc \in {"start-server", "count"} => AllOver
  /\ pc \in CrashPhases => queue = {} /\ got = 0

(* The threads have been told once the migration is over, or it failed.     *)
CompatRuns ==
  Step = "migrate-compat" /\ pc \in {"migrate", "join", "leaving"} =>
    /\ \A c \in Children \ Loops : child[c] \in Over
    /\ pc = "join" => event
    /\ pc = "leaving" => event \/ code = "failed"

(* The checks start helpers alone.                                         *)
ChecksRun ==
  pc = "check" => Step \in Checkers /\ \A c \in Children \ Helpers : child[c] \in Over

(* Every other step leaves no child behind but one that ends by itself.     *)
OthersLeave ==
  Step \notin {"bench", "ingest-daily", "migrate-compat"} /\ pc = "leaving" =>
    \A c \in Children \ (Helpers \cup {Holder}) : child[c] \in Over

(* What each kind of child can be about: a helper and the holder have no   *)
(* loop, and the threads leave no report.                                  *)
Kinds ==
  /\ \A c \in BenchCrew \cup {DayReader} : child[c] \in Over \cup {"begin", "loop", "flushing"}
  /\ \A c \in Loops : child[c] \in Over \cup {"begin", "loop"}
  /\ \A c \in Helpers : child[c] \in Over \cup {"begin"}
  /\ child[Holder] \in Over \cup {"begin", "inserted", "asleep"}

(* Where the children and the parent can be.                               *)
Places ==
  /\ child \in [Children -> ChildPhases] /\ left \in Nat /\ Kinds
  /\ pc \in {"idle", "start", "write", "collect", "sample", "migrate", "join", "check", "leaving"}
           \cup CrashPhases

(* The inductive invariant of OnlyLostReportsHang.                         *)
HInv ==
  /\ Places /\ StartClean /\ Counted /\ BenchLeaves /\ DayRuns /\ CrashRuns /\ CompatRuns
  /\ ChecksRun /\ OthersLeave

(* The children of the benchmark are finitely many.                        *)
LEMMA CrewFinite == IsFiniteSet(BenchCrew) /\ Cardinality(BenchCrew) \in Nat
<1>1. IsFiniteSet(BenchCrew)
  BY HarnessAssumption, FS_Union DEF BenchCrew
<1> QED  BY <1>1, FS_CardinalityType

(* HInv holds before the first step of the sequence.                       *)
LEMMA InitHang == Init => HInv
  BY HarnessAssumption, HolderIsOne
  DEF Init, HInv, Places, Kinds, StartClean, Counted, BenchLeaves, DayRuns, CrashRuns, CompatRuns,
      ChecksRun, OthersLeave,
      ChildPhases, CrashPhases, Over

(* run_all gives a step no child and an empty queue.                       *)
LEMMA RunAllHang == HInv /\ RunAll => HInv'
<1> SUFFICES ASSUME HInv, RunAll PROVE HInv'
  OBVIOUS
<1> USE DEF HInv, Places, Kinds, StartClean, Counted, BenchLeaves, DayRuns, CrashRuns, CompatRuns,
            ChecksRun, OthersLeave,
        ChildPhases, CrashPhases, Over, stepVars, crashVars, runVars
<1>1. CASE Skip \/ Restart
  <2>1. pc = "idle" /\ UNCHANGED <<pc, child, left>>
    BY <1>1 DEF Skip, Restart
  <2> QED  BY <2>1
<1>2. CASE TimeLimit \/ Finish
  <2>1. UNCHANGED <<at, pc, code, child, queue, got, left, event>>
    BY <1>2 DEF TimeLimit, Finish
  <2> QED  BY <2>1 DEF Step, AllOver, Reported
<1>3. CASE RunStep
  <2>1. /\ pc' = "start" /\ child' = [c \in Children |-> "none"] /\ queue' = {} /\ got' = 0
        /\ left' = Batches
    BY <1>3 DEF RunStep
  <2> QED  BY <2>1, HarnessAssumption, HolderIsOne DEF AllOver
<1>4. CASE StepOver
  <2>1. pc' = "idle" /\ UNCHANGED <<child, left>>
    BY <1>4 DEF StepOver
  <2> QED  BY <2>1
<1> QED  BY <1>1, <1>2, <1>3, <1>4 DEF RunAll

(* bench: the count of the reports.                                         *)
LEMMA BenchHang ==
  ASSUME HInv,
         BenchBegins \/ BenchSamples \/ BenchReports \/ BenchFails
           \/ (\E crew \in SUBSET BenchCrew : BenchStartsSome(crew))
           \/ \E c \in BenchCrew : BenchCollects(c)
  PROVE  HInv'
<1> USE DEF In, CrashPhases
<1>0. Step' = Step /\ Step = "bench" /\ left' = left
  BY DEF BenchBegins, BenchSamples, BenchReports, BenchFails, BenchStartsSome, BenchCollects, Fails,
         runVars, Step
<1>1. CASE BenchBegins
  <2>1. /\ pc = "start" /\ pc' = "sample" /\ UNCHANGED <<queue, got, event>>
        /\ child' = [c \in Children |-> IF c \in BenchCrew THEN "begin" ELSE child[c]]
    BY <1>1 DEF BenchBegins
  <2>2. AllOver /\ queue = {} /\ got = 0
    BY <2>1 DEF HInv, StartClean
  <2>3. /\ \A c \in Children \ BenchCrew : child'[c] \in Over
        /\ \A c \in BenchCrew : child'[c] = "begin"
    BY <2>1, <2>2, HolderIsOne DEF AllOver
  <2>4. Reported' = {} /\ Kinds'
    BY <2>3, HolderIsOne DEF Reported, Over, Kinds
  <2>5. Counted'
    BY <2>1, <2>2, <2>3, <2>4, FS_EmptySet DEF Counted
  <2> QED  BY <1>0, <2>1, <2>4, <2>5
           DEF HInv, Places, Kinds, StartClean, BenchLeaves, DayRuns, CrashRuns, CompatRuns,
               ChecksRun,
               OthersLeave, ChildPhases
<1>2. CASE BenchSamples
  <2>1. pc = "sample" /\ pc' = "collect" /\ UNCHANGED <<child, queue, got, event>>
    BY <1>2 DEF BenchSamples
  <2> QED  BY <1>0, <2>1
           DEF HInv, Places, Kinds, StartClean, Counted, BenchLeaves, DayRuns, CrashRuns,
               CompatRuns, ChecksRun, OthersLeave,
               Reported
<1>3. ASSUME NEW c \in BenchCrew, BenchCollects(c) PROVE HInv'
  <2>1. /\ pc = "collect" /\ pc' = pc /\ UNCHANGED <<child, event>>
        /\ c \in queue /\ queue' = queue \ {c} /\ got' = got + 1
    BY <1>3 DEF BenchCollects, Takes
  <2>2. queue \subseteq Reported /\ got = Cardinality(Reported \ queue) /\ Reported' = Reported
    BY <1>0, <2>1 DEF HInv, Counted, Reported
  <2>3. Reported' \ queue' = (Reported \ queue) \cup {c} /\ c \notin Reported \ queue
    BY <2>1, <2>2
  <2>4. IsFiniteSet(Reported \ queue)
    BY CrewFinite, FS_Subset DEF Reported
  <2>5. got' = Cardinality(Reported' \ queue')
    BY <2>1, <2>2, <2>3, <2>4, FS_AddElement
  <2> QED  BY <1>0, <2>1, <2>2, <2>5
           DEF HInv, Places, Kinds, StartClean, Counted, BenchLeaves, DayRuns, CrashRuns,
               CompatRuns, ChecksRun, OthersLeave
<1>5. ASSUME NEW crew \in SUBSET BenchCrew, BenchStartsSome(crew) PROVE HInv'
  <2>1. /\ pc = "start" /\ pc' = "leaving" /\ UNCHANGED <<queue, got, event>> /\ crew # BenchCrew
        /\ child' = [c \in Children |-> IF c \in crew THEN "begin" ELSE child[c]]
    BY <1>5 DEF BenchStartsSome
  <2>2. (\A c \in Children : child[c] = "none") /\ queue = {}
    BY <1>0, <2>1 DEF HInv, StartClean
  <2>3. /\ \A c \in Children \ crew : child'[c] = "none"
        /\ \A c \in crew : child'[c] = "begin"
    BY <2>1, <2>2, HolderIsOne
  <2>4. BenchLeaves' /\ Kinds'
    BY <2>1, <2>3, HolderIsOne DEF BenchLeaves, Kinds, Over
  <2> QED  BY <1>0, <2>1, <2>4
           DEF HInv, Places, Kinds, StartClean, Counted, DayRuns, CrashRuns, CompatRuns, ChecksRun,
               OthersLeave, ChildPhases, CrashPhases
<1>4. CASE BenchReports \/ BenchFails
  <2>1. /\ pc = "start" \/ (pc = "collect" /\ got = Cardinality(BenchCrew))
        /\ pc' = "leaving" /\ UNCHANGED <<child, queue, got, event>>
    BY <1>4 DEF BenchReports, BenchFails, Fails, crashVars
  <2>2. /\ \A c \in Children \ BenchCrew : child[c] \in Over
        /\ queue = {} /\ \A c \in BenchCrew : child[c] \in Over \cup {"flushing"}
    <3>1. CASE pc = "start"
      BY <3>1, HolderIsOne DEF HInv, StartClean, AllOver
    <3>2. CASE pc = "collect" /\ got = Cardinality(BenchCrew)
      <4>1. queue \subseteq Reported /\ got = Cardinality(Reported \ queue)
        BY <1>0, <3>2 DEF HInv, Counted
      <4>2. Reported \ queue = BenchCrew
        BY <3>2, <4>1, CrewFinite, FS_Subset DEF Reported
      <4>3. queue = {} /\ \A c \in BenchCrew : child[c] \in {"flushing", "ended"}
        BY <4>1, <4>2 DEF Reported
      <4> QED  BY <1>0, <3>2, <4>3 DEF HInv, Counted, Over
    <3> QED  BY <2>1, <3>1, <3>2
  <2> QED  BY <1>0, <2>1, <2>2
           DEF HInv, Places, Kinds, StartClean, Counted, BenchLeaves, DayRuns, CrashRuns,
               CompatRuns, ChecksRun, OthersLeave
<1> QED  BY <1>1, <1>2, <1>3, <1>4, <1>5

(* The day: the reader is told before its report is waited for.            *)
LEMMA DayHang ==
  ASSUME HInv, DayBegins \/ DayWrites \/ DayTells \/ DayCollects \/ DayFails
  PROVE  HInv'
<1> USE DEF In, CrashPhases
<1>0. Step' = Step /\ Step = "ingest-daily"
  BY DEF DayBegins, DayWrites, DayTells, DayCollects, DayFails, Fails, runVars, Step
<1>1. CASE DayBegins
  <2>1. /\ pc = "start" /\ pc' = "write" /\ left' = left
        /\ child' = [child EXCEPT ![DayReader] = "begin"]
    BY <1>1 DEF DayBegins, Goes
  <2>2. AllOver
    BY <2>1 DEF HInv, StartClean
  <2> QED  BY <1>0, <2>1, <2>2, HolderIsOne
           DEF HInv, Places, Kinds, StartClean, Counted, BenchLeaves, DayRuns, CrashRuns,
               CompatRuns, ChecksRun, OthersLeave,
               ChildPhases, Over, AllOver
<1>2. CASE DayWrites
  <2>1. pc = "write" /\ pc' = pc /\ left > 0 /\ left' = left - 1 /\ UNCHANGED <<child, event>>
    BY <1>2 DEF DayWrites
  <2> QED  BY <1>0, <2>1
           DEF HInv, Places, Kinds, StartClean, Counted, BenchLeaves, DayRuns, CrashRuns,
               CompatRuns, ChecksRun, OthersLeave
<1>3. CASE DayTells
  <2>1. pc = "write" /\ pc' = "collect" /\ event' /\ UNCHANGED <<child, left>>
    BY <1>3 DEF DayTells
  <2> QED  BY <1>0, <2>1
           DEF HInv, Places, Kinds, StartClean, Counted, BenchLeaves, DayRuns, CrashRuns,
               CompatRuns, ChecksRun, OthersLeave
<1>4. CASE DayCollects
  <2>1. pc = "collect" /\ pc' = "leaving" /\ UNCHANGED <<child, left, event>>
    BY <1>4 DEF DayCollects
  <2> QED  BY <1>0, <2>1
           DEF HInv, Places, Kinds, StartClean, Counted, BenchLeaves, DayRuns, CrashRuns,
               CompatRuns, ChecksRun, OthersLeave
<1>5. CASE DayFails
  <2>1. /\ pc = "start" \/ (pc = "write" /\ left > 0) \/ pc = "collect"
        /\ pc' = "leaving" /\ UNCHANGED <<child, left, event>>
    BY <1>5 DEF DayFails, Fails
  <2>2. CASE pc = "start"
    <3>1. AllOver
      BY <2>2 DEF HInv, StartClean
    <3> QED  BY <1>0, <2>1, <3>1, HolderIsOne
             DEF HInv, Places, Kinds, StartClean, Counted, BenchLeaves, DayRuns, CrashRuns,
                 CompatRuns, ChecksRun, OthersLeave,
                 AllOver
  <2>3. CASE pc # "start"
    BY <1>0, <2>1, <2>3
    DEF HInv, Places, Kinds, StartClean, Counted, BenchLeaves, DayRuns, CrashRuns, CompatRuns,
        ChecksRun,
        OthersLeave
  <2> QED  BY <2>2, <2>3
<1> QED  BY <1>1, <1>2, <1>3, <1>4, <1>5

(* crash.py and the steps without children: the holder is killed before    *)
(* the count, or the check is left while it sleeps.                        *)
LEMMA CrashHang ==
  ASSUME HInv,
         \/ StartHolder \/ Awaits \/ KillServer \/ KillHolder \/ StartServer \/ Counts \/ CrashFails
         \/ OtherStep
  PROVE  HInv'
<1> USE DEF In, CrashPhases
<1>0. /\ Step' = Step /\ Step \notin {"bench", "ingest-daily", "migrate-compat"}
      /\ UNCHANGED <<queue, got, left>>
  BY DEF StartHolder, Awaits, KillServer, KillHolder, StartServer, Counts, CrashFails, OtherStep,
         OwnChildren, Leaves, Fails, runVars, crashVars, Step
<1>1. CASE StartHolder
  <2>1. pc = "start" /\ pc' = "await" /\ child' = [child EXCEPT ![Holder] = "begin"]
    BY <1>1 DEF StartHolder, Goes
  <2> QED  BY <1>0, <2>1, HolderIsOne
           DEF HInv, Places, Kinds, StartClean, Counted, BenchLeaves, DayRuns, CrashRuns,
               CompatRuns, ChecksRun, OthersLeave,
               ChildPhases, Kinds, Over, AllOver
<1>2. CASE Awaits \/ KillServer
  <2>1. /\ pc \in {"await", "kill-server"} /\ pc' \in {"kill-server", "kill", "leaving"}
        /\ child' = child
    BY <1>2 DEF Awaits, KillServer, GoesOn
  <2> QED  BY <1>0, <2>1, HolderIsOne
           DEF HInv, Places, Kinds, StartClean, Counted, BenchLeaves, DayRuns, CrashRuns,
               CompatRuns, ChecksRun, OthersLeave
<1>3. CASE KillHolder
  <2>1. /\ pc = "kill" /\ pc' \in {"count", "start-server"}
        /\ child' = IF child[Holder] = "raised" THEN child ELSE [child EXCEPT ![Holder] = "killed"]
    BY <1>3 DEF KillHolder
  <2>2. child \in [Children -> ChildPhases] /\ \A c \in Children \ {Holder} : child[c] \in Over
    BY <2>1 DEF HInv, Places, Kinds, CrashRuns
  <2>3. child'[Holder] \in Over /\ \A c \in Children \ {Holder} : child'[c] = child[c]
    BY <2>1, <2>2, HolderIsOne DEF Over
  <2>4. child' \in [Children -> ChildPhases] /\ Kinds'
    BY <2>1, <2>2, <2>3, HolderIsOne DEF HInv, Places, Kinds, ChildPhases, Over
  <2>5. AllOver'
    BY <2>2, <2>3 DEF AllOver
  <2> QED  BY <1>0, <2>1, <2>4, <2>5
           DEF HInv, Places, Kinds, StartClean, Counted, BenchLeaves, DayRuns, CrashRuns,
               CompatRuns, ChecksRun, OthersLeave
<1>4. CASE StartServer \/ Counts \/ CrashFails \/ OtherStep
  <2>1. /\ pc \in {"start", "start-server", "count"} /\ pc' \in {"start", "count", "leaving"}
        /\ child' = child
    BY <1>4 DEF StartServer, Counts, CrashFails, OtherStep, GoesOn, Leaves, Fails, crashVars
  <2>2. AllOver /\ AllOver' /\ queue = {} /\ got = 0
    BY <2>1 DEF HInv, StartClean, CrashRuns, AllOver
  <2>3. Places' /\ StartClean' /\ CrashRuns' /\ OthersLeave'
    BY <1>0, <2>1, <2>2
    DEF HInv, Places, Kinds, StartClean, CrashRuns, OthersLeave, AllOver
  <2> QED  BY <1>0, <2>1, <2>3
           DEF HInv, Counted, BenchLeaves, DayRuns, CompatRuns, ChecksRun
<1> QED  BY <1>1, <1>2, <1>3, <1>4

(* compat_migration: the threads are told before they are joined.           *)
LEMMA CompatHang ==
  ASSUME HInv, CompatBegins \/ CompatStartsOne \/ CompatTells \/ CompatLeaves \/ CompatFails
  PROVE  HInv'
<1> USE DEF In, CrashPhases
<1>0. Step' = Step /\ Step = "migrate-compat" /\ left' = left
  BY DEF CompatBegins, CompatStartsOne, CompatTells, CompatLeaves, CompatFails, Leaves, Fails,
         runVars, Step
<1>1. CASE CompatBegins \/ CompatStartsOne
  <2>1. /\ pc = "start" /\ pc' \in {"migrate", "leaving"} /\ (pc' = "leaving" => code' = "failed")
        /\ \A c \in Children \ Loops : child'[c] = child[c]
        /\ \A c \in Loops : child'[c] \in {"begin", child[c]}
        /\ child' \in [Children -> ChildPhases]
    <3>1. child \in [Children -> ChildPhases]
      BY DEF HInv, Places
    <3>2. CASE CompatBegins
      BY <3>1, <3>2, HolderIsOne DEF CompatBegins, ChildPhases
    <3>3. CASE CompatStartsOne
      BY <3>1, <3>3, HolderIsOne DEF CompatStartsOne, Goes, ChildPhases, Loops
    <3> QED  BY <1>1, <3>2, <3>3
  <2>2. AllOver /\ Kinds
    BY <2>1 DEF HInv, StartClean, Places
  <2>3. (\A c \in Children \ Loops : child'[c] \in Over) /\ Kinds'
    BY <2>1, <2>2, HolderIsOne DEF AllOver, Kinds
  <2> QED  BY <1>0, <2>1, <2>3
           DEF HInv, Places, Kinds, StartClean, Counted, BenchLeaves, DayRuns, CrashRuns,
               CompatRuns, ChecksRun, OthersLeave
<1>2. CASE CompatTells
  <2>1. pc = "migrate" /\ pc' = "join" /\ event' /\ child' = child
    BY <1>2 DEF CompatTells
  <2> QED  BY <1>0, <2>1
           DEF HInv, Places, Kinds, StartClean, Counted, BenchLeaves, DayRuns, CrashRuns,
               CompatRuns, ChecksRun, OthersLeave
<1>3. CASE CompatLeaves \/ CompatFails
  <2>1. /\ pc = "join" \/ (pc \in {"start", "migrate"} /\ code' = "failed")
        /\ pc' = "leaving" /\ UNCHANGED <<child, event>>
    BY <1>3 DEF CompatLeaves, CompatFails, Leaves, Fails
  <2>2. \A c \in Children \ Loops : child[c] \in Over
    BY <1>0, <2>1 DEF HInv, StartClean, AllOver, CompatRuns
  <2> QED  BY <1>0, <2>1, <2>2
           DEF HInv, Places, Kinds, StartClean, Counted, BenchLeaves, DayRuns, CrashRuns,
               CompatRuns, ChecksRun, OthersLeave
<1> QED  BY <1>1, <1>2, <1>3

(* integrity.py and monitor.py: nothing but helpers is started.             *)
LEMMA ChecksHang ==
  ASSUME HInv,
         \/ \E crew \in SUBSET Helpers : HelpersStart(crew)
         \/ \E c \in Helpers : TerminatesHelper(c)
         \/ ChecksLeave
  PROVE  HInv'
<1> USE DEF CrashPhases
<1>0. Step' = Step /\ Step \in Checkers /\ pc \in {"start", "check"} /\ left' = left
  BY DEF HelpersStart, TerminatesHelper, ChecksLeave, Checking, Leaves, runVars, Step
<1> DEFINE Others ==
        /\ pc' \in {"check", "leaving"}
        /\ \A c \in Children \ Helpers : child'[c] = child[c]
        /\ \A c \in Helpers : child'[c] \in Over \cup {"begin"}
        /\ child' \in [Children -> ChildPhases]
<1>1. Others
  <2>1. child \in [Children -> ChildPhases] /\ \A c \in Helpers : child[c] \in Over \cup {"begin"}
    BY DEF HInv, Places, Kinds
  <2>2. ASSUME NEW crew \in SUBSET Helpers, HelpersStart(crew) PROVE Others
    BY <2>1, <2>2, HolderIsOne DEF HelpersStart, ChildPhases
  <2>3. ASSUME NEW c \in Helpers, TerminatesHelper(c) PROVE Others
    <3>1. child[c] = "begin" /\ pc' = pc /\ child' = [child EXCEPT ![c] = "killed"]
      BY <2>3 DEF TerminatesHelper, Goes
    <3>2. pc # "start"
      BY <3>1, HolderIsOne DEF HInv, StartClean, AllOver, Over
    <3> QED  BY <1>0, <2>1, <3>1, <3>2, HolderIsOne DEF ChildPhases, Over
  <2>4. CASE ChecksLeave
    BY <2>1, <2>4, HolderIsOne DEF ChecksLeave, Leaves
  <2> QED  BY <2>2, <2>3, <2>4
<1>2. \A c \in Children \ Helpers : child'[c] \in Over
  BY <1>0, <1>1 DEF HInv, StartClean, AllOver, ChecksRun
<1>3. Kinds'
  BY <1>1, <1>2, HolderIsOne DEF Kinds
<1> QED  BY <1>0, <1>1, <1>2, <1>3, HolderIsOne
         DEF HInv, Places, Kinds, StartClean, Counted, BenchLeaves, DayRuns, CrashRuns, CompatRuns,
             ChecksRun, OthersLeave, Checkers, AllOver

(* A child changes its own place alone, and reports once, from its loop.    *)
LEMMA ChildMoves ==
  ASSUME HInv, NEW c \in Children, Child(c)
  PROVE  /\ UNCHANGED <<at, pc, code, got, left>> /\ child[c] \notin Over
         /\ child' = [child EXCEPT ![c] = child'[c]] /\ child'[c] \in ChildPhases
         /\ child'[c] # "none"
         /\ event => event'
         /\ \/ queue' = queue
               /\ \/ <<child[c], child'[c]>> \in
                       {<<"begin", "raised">>, <<"loop", "raised">>, <<"begin", "loop">>,
                        <<"flushing", "ended">>}
                  \/ c \in Loops \cup Helpers \cup {Holder} /\ child'[c] = "ended"
                  \/ c = Holder /\ child'[c] \in {"inserted", "asleep"}
            \/ /\ queue' = queue \cup {c} /\ child[c] = "loop" /\ child'[c] = "flushing"
               /\ c \notin Loops \cup Helpers \cup {Holder} /\ (c = DayReader => event)
         /\ child'[c] = "loop" => c \notin Helpers \cup {Holder}
<1> USE DEF HInv, Places, Kinds, ChildOf, Goes, runVars, Over, ChildPhases
<1>1. CASE ChildRaises(c) \/ ChildLoops(c) \/ ChildReports(c) \/ ChildEnds(c)
  BY <1>1, HolderIsOne DEF ChildRaises, ChildLoops, ChildReports, ChildEnds, Kinds
<1>3. CASE LoopEnds(c) \/ HelperEnds(c)
  BY <1>3, HolderIsOne DEF LoopEnds, HelperEnds
<1>2. CASE c = Holder /\ (HolderInserts \/ HolderReady \/ HolderWakes)
  BY <1>2, HolderIsOne DEF HolderInserts, HolderReady, HolderWakes
<1> QED  BY <1>1, <1>2, <1>3 DEF Child

(* A child that moves keeps every part of HInv.                            *)
LEMMA ChildHang == ASSUME HInv, NEW c \in Children, Child(c) PROVE HInv'
<1>1. /\ UNCHANGED <<at, pc, code, got, left>> /\ child[c] \notin Over
      /\ \A d \in Children \ {c} : child'[d] = child[d]
      /\ event => event'
  BY ChildMoves DEF HInv, Places
<1>2. Step' = Step /\ ~AllOver
  BY <1>1 DEF Step, AllOver
<1>3. Places'
  <2>1. child' = [child EXCEPT ![c] = child'[c]] /\ child'[c] \in ChildPhases
    BY ChildMoves
  <2>3. Kinds
    BY DEF HInv, Places
  <2>4. \/ c \in BenchCrew \cup {DayReader}
           /\ child'[c] \in Over \cup {"begin", "loop", "flushing"}
        \/ c \in Loops /\ child'[c] \in Over \cup {"begin", "loop"}
        \/ c \in Helpers /\ child'[c] \in Over \cup {"begin"}
        \/ c = Holder /\ child'[c] \in Over \cup {"begin", "inserted", "asleep"}
    <3>1. c \in BenchCrew \cup {DayReader} \/ c \in Loops \/ c \in Helpers \/ c = Holder
      BY DEF Children
    <3> QED  BY <2>3, <3>1, ChildMoves, HolderIsOne DEF Kinds, Over
  <2>2. Kinds'
    BY <1>1, <2>3, <2>4, HolderIsOne DEF Kinds
  <2> QED  BY <1>1, <2>1, <2>2 DEF HInv, Places
<1>4. StartClean'
  BY <1>1, <1>2 DEF HInv, StartClean
<1>5. Counted'
  <2> SUFFICES ASSUME Step = "bench", pc \in {"sample", "collect"} PROVE Counted'
    BY <1>1, <1>2 DEF Counted
  <2>1. /\ \A d \in Children \ BenchCrew : child[d] \in Over
        /\ \A d \in BenchCrew : child[d] \in {"begin", "loop", "flushing", "ended", "raised"}
        /\ queue \subseteq Reported /\ got = Cardinality(Reported \ queue)
    BY DEF HInv, Counted
  <2>2. c \in BenchCrew /\ c \notin Loops \cup Helpers \cup {Holder}
    BY <1>1, <2>1, HolderIsOne
  <2>5. \A d \in Children \ BenchCrew : child'[d] \in Over
    BY <1>1, <2>1, <2>2
  <2>3. CASE /\ queue' = queue
             /\ <<child[c], child'[c]>> \in
                  {<<"begin", "raised">>, <<"loop", "raised">>, <<"begin", "loop">>,
                   <<"flushing", "ended">>}
    <3>1. \/ child[c] \in {"begin", "loop"} /\ child'[c] \in {"raised", "loop"}
          \/ child[c] = "flushing" /\ child'[c] = "ended"
      BY <2>3
    <3>2. \A d \in BenchCrew : (child'[d] \in {"flushing", "ended"}
                                <=> child[d] \in {"flushing", "ended"})
      BY <1>1, <2>2, <3>1, HolderIsOne
    <3>3. Reported' = Reported
      BY <3>2 DEF Reported
    <3>4. \A d \in BenchCrew : child'[d] \in {"begin", "loop", "flushing", "ended", "raised"}
      BY <1>1, <2>1, <3>1, HolderIsOne
    <3> QED  BY <1>1, <2>1, <2>3, <2>5, <3>3, <3>4 DEF Counted
  <2>4. CASE queue' = queue \cup {c} /\ child[c] = "loop" /\ child'[c] = "flushing"
    <3>1. Reported' = Reported \cup {c} /\ c \notin Reported
      BY <1>1, <2>2, <2>4, HolderIsOne DEF Reported
    <3>2. queue' \subseteq Reported' /\ Reported' \ queue' = Reported \ queue
      BY <2>1, <2>4, <3>1
    <3>3. \A d \in BenchCrew : child'[d] \in {"begin", "loop", "flushing", "ended", "raised"}
      BY <1>1, <2>1, <2>4, HolderIsOne
    <3> QED  BY <1>1, <2>1, <2>5, <3>2, <3>3 DEF Counted
  <2> QED  BY <2>2, <2>3, <2>4, ChildMoves
<1>6. BenchLeaves'
  <2> SUFFICES ASSUME Step = "bench", pc = "leaving" PROVE BenchLeaves'
    BY <1>1, <1>2 DEF BenchLeaves
  <2>1. /\ \A d \in Children \ BenchCrew : child[d] \in Over
        /\ \/ \E d \in BenchCrew : child[d] = "none"
           \/ queue = {} /\ \A d \in BenchCrew : child[d] \in Over \cup {"flushing"}
    BY DEF HInv, BenchLeaves
  <2>2. c \in BenchCrew /\ c \notin Loops \cup Helpers \cup {Holder}
    BY <1>1, <2>1, HolderIsOne
  <2>3. \A d \in Children \ BenchCrew : child'[d] \in Over
    BY <1>1, <2>1, <2>2
  <2>4. CASE \E d \in BenchCrew : child[d] = "none"
    <3>1. PICK d \in BenchCrew : child[d] = "none"
      BY <2>4
    <3>2. d # c /\ child'[d] = "none"
      BY <1>1, <3>1, HolderIsOne DEF Over
    <3> QED  BY <2>3, <3>2 DEF BenchLeaves
  <2>5. CASE queue = {} /\ \A d \in BenchCrew : child[d] \in Over \cup {"flushing"}
    <3>1. child[c] = "flushing"
      BY <1>1, <2>2, <2>5
    <3>2. queue' = queue /\ child'[c] = "ended"
      BY <2>2, <3>1, ChildMoves
    <3> QED  BY <1>1, <2>3, <2>5, <3>2, HolderIsOne DEF BenchLeaves, Over
  <2> QED  BY <2>1, <2>4, <2>5
<1>7. DayRuns'
  <2> SUFFICES ASSUME Step = "ingest-daily", pc \in {"write", "collect", "leaving"} PROVE DayRuns'
    BY <1>1, <1>2 DEF DayRuns
  <2>1. /\ \A d \in Children \ {DayReader} : child[d] \in Over
        /\ child[DayReader] \in Over \cup {"begin", "loop", "flushing"}
        /\ pc = "collect" => event
        /\ pc = "leaving" => event \/ left > 0 \/ child[DayReader] \in Over
    BY DEF HInv, DayRuns
  <2>2. c = DayReader
    BY <1>1, <2>1
  <2>3. child'[DayReader] \in Over \cup {"begin", "loop", "flushing"}
    BY <1>3, HolderIsOne DEF Places, Kinds
  <2> QED  BY <1>1, <2>1, <2>2, <2>3 DEF DayRuns
<1>8. CrashRuns'
  <2>1. ASSUME pc \in {"await", "kill-server", "kill"} PROVE c = Holder
    BY <1>1, <2>1 DEF HInv, CrashRuns
  <2>2. ASSUME pc \in CrashPhases PROVE queue = {} /\ got = 0 /\ c = Holder
    BY <1>2, <2>1, <2>2 DEF HInv, CrashRuns, CrashPhases
  <2>3. ASSUME pc \in CrashPhases PROVE queue' = queue
    BY <2>2, <2>3, ChildMoves
  <2> QED  BY <1>1, <1>2, <2>1, <2>2, <2>3 DEF HInv, CrashRuns, CrashPhases
<1>9. OthersLeave'
  BY <1>1, <1>2 DEF HInv, OthersLeave
<1>10. CompatRuns' /\ ChecksRun'
  BY <1>1, <1>2 DEF HInv, CompatRuns, ChecksRun
<1> QED  BY <1>3, <1>4, <1>5, <1>6, <1>7, <1>8, <1>9, <1>10 DEF HInv

(* Every step of the system keeps HInv.                                    *)
LEMMA NextHang == HInv /\ [Next]_vars => HInv'
<1> SUFFICES ASSUME HInv, [Next]_vars PROVE HInv'
  OBVIOUS
<1>1. CASE UNCHANGED vars
  BY <1>1 DEF vars, stepVars, crashVars, runVars, HInv, Places, Kinds, StartClean, Counted,
              BenchLeaves,
              DayRuns, CrashRuns, CompatRuns, ChecksRun, OthersLeave, AllOver, Reported, Step
<1>2. CASE Parent
  BY <1>2, BenchHang, DayHang, CrashHang, CompatHang, ChecksHang DEF Parent
<1> QED  BY <1>1, <1>2, RunAllHang, ChildHang DEF Next, Ended

(* Where nothing goes on, a report was lost or a loop was not told to stop. *)
LEMMA StuckWhere ==
  ASSUME HInv, TimeLimit
  PROVE  \/ Step = "bench" /\ \E c \in BenchCrew : child[c] \in {"raised", "none"}
         \/ Step = "ingest-daily" /\ (left > 0 \/ queue # {})
         \/ Step = "migrate-compat" /\ code = "failed" /\ ~event
<1> USE DEF HInv
<1>1. \A c \in Children : Waits(c)
  BY DEF TimeLimit, Stuck
<1>2. CASE In("bench", "collect") /\ queue = {} /\ got < Cardinality(BenchCrew)
  <2> SUFFICES ASSUME \A c \in BenchCrew : child[c] # "raised" PROVE FALSE
    BY <1>2 DEF In
  <2>1. /\ \A c \in BenchCrew : child[c] \in {"begin", "loop", "flushing", "ended"}
        /\ got = Cardinality(Reported \ queue)
    BY <1>2 DEF In, Counted
  <2>2. \A c \in BenchCrew : child[c] = "ended"
    BY <1>1, <1>2, <2>1, HolderIsOne DEF Waits, Over
  <2>3. Reported \ queue = BenchCrew
    BY <1>2, <2>2 DEF Reported
  <2> QED  BY <1>2, <2>1, <2>3, CrewFinite
<1>3. CASE pc = "leaving" /\ ~CanLeave
  <2>1. PICK c \in Children : child[c] \notin Over
    BY <1>3 DEF CanLeave
  <2>2. CASE Step = "bench"
    <3>1. c \in BenchCrew
      BY <1>3, <2>1, <2>2 DEF BenchLeaves
    <3>2. c \in queue
      <4>1. c \notin Loops \cup {DayReader}
        BY <3>1, HolderIsOne
      <4> QED  BY <1>1, <2>1, <4>1 DEF Waits
    <3> QED  BY <1>3, <2>2, <3>2 DEF BenchLeaves
  <2>3. CASE Step = "ingest-daily"
    <3>1. c = DayReader
      BY <1>3, <2>1, <2>3 DEF DayRuns
    <3>2. ~event => left > 0
      BY <1>3, <2>1, <2>3, <3>1 DEF DayRuns
    <3> QED  BY <1>1, <2>1, <2>3, <3>2 DEF Waits
  <2>4. CASE Step = "migrate-compat"
    <3>1. c \in Loops /\ child[c] \in {"begin", "loop"} /\ (event \/ code = "failed")
      BY <1>3, <2>1, <2>4 DEF CompatRuns, Places, Kinds
    <3>2. ~event
      BY <1>1, <2>1, <3>1 DEF Waits
    <3> QED  BY <2>4, <3>1, <3>2
  <2>5. CASE Step \notin {"bench", "ingest-daily", "migrate-compat"}
    <3>1. c \in Helpers \cup {Holder}
      BY <1>3, <2>1, <2>5 DEF OthersLeave
    <3>2. child[c] \in {"begin", "inserted", "asleep"}
      BY <2>1, <3>1 DEF Places, Kinds
    <3> QED  BY <1>1, <2>1, <3>2 DEF Waits
  <2> QED  BY <2>2, <2>3, <2>4, <2>5
<1> QED  BY <1>2, <1>3 DEF TimeLimit, Stuck

(* A step is ended by the time limit only when a member of the benchmark    *)
(* raised or was never started, when a batch of the day failed before the   *)
(* reader was told to stop or the reader's report is left in the queue, or  *)
(* when the compatible migration failed before its threads were told.       *)
THEOREM OnlyLostReports == Spec => OnlyLostReportsHang
<1>1. HInv /\ [Next]_vars =>
        [TimeLimit =>
           \/ Step = "bench" /\ \E c \in BenchCrew : child[c] \in {"raised", "none"}
           \/ Step = "ingest-daily" /\ (left > 0 \/ queue # {})
           \/ Step = "migrate-compat" /\ code = "failed" /\ ~event]_vars
  BY StuckWhere
<1> QED  BY <1>1, InitHang, NextHang, PTL DEF Spec, OnlyLostReportsHang
----------------------------------------------------------------------------
(* The day takes one report, of its reader.                                *)
DayGot == Step = "ingest-daily" /\ pc \in {"write", "collect"} => got = 0

(* A step that runs is one of the sequence.                                *)
AtStep == pc # "idle" => at <= Len(Steps)

(* The inductive invariant of TypeOK.                                      *)
TInv == TypeOK /\ DayGot /\ AtStep /\ HInv

(* The restart is not the last step, so two steps behind it there is one.  *)
LEMMA StepsInOrder ==
  /\ Len(Steps) = 21
  /\ Steps[21] # "restart"
  BY DEF Steps

(* The children are finitely many, no fewer than the benchmark's.          *)
LEMMA ChildrenFinite ==
  /\ Cardinality(BenchCrew) <= Cardinality(Children)
  /\ Cardinality(Children) \in Nat /\ 1 <= Cardinality(Children)
<1>1. IsFiniteSet({DayReader, Holder})
  <2>1. IsFiniteSet({DayReader})
    BY FS_Singleton
  <2>2. {DayReader, Holder} = {DayReader} \cup {Holder}
    OBVIOUS
  <2> QED  BY <2>1, <2>2, FS_AddElement
<1>2. IsFiniteSet(Loops)
  <2>1. IsFiniteSet({OldReader})
    BY FS_Singleton
  <2>2. Loops = {OldReader} \cup {OldWriter}
    BY DEF Loops
  <2> QED  BY <2>1, <2>2, FS_AddElement
<1>3. IsFiniteSet(Children)
  <2>1. IsFiniteSet(BenchCrew \cup Loops)
    BY <1>2, CrewFinite, FS_Union
  <2>2. IsFiniteSet(BenchCrew \cup Loops \cup Helpers)
    BY <2>1, HarnessAssumption, FS_Union
  <2> QED  BY <1>1, <2>2, FS_Union DEF Children
<1>4. Cardinality(BenchCrew) <= Cardinality(Children)
  BY <1>3, HolderIsOne, FS_Subset
<1>5. Cardinality({Holder}) <= Cardinality(Children)
  BY <1>3, HolderIsOne, FS_Subset
<1>6. Cardinality({Holder}) = 1
  BY FS_Singleton
<1> QED  BY <1>3, <1>4, <1>5, <1>6, FS_CardinalityType

(* The types hold before the first step of the sequence.                   *)
LEMMA TypedInit == Init => TypeOK
<1> SUFFICES ASSUME Init PROVE TypeOK
  OBVIOUS
<1>1. /\ at \in 1 .. Len(Steps) + 1 /\ got \in 0 .. Cardinality(Children)
      /\ left \in 0 .. Batches
  BY StepsInOrder, ChildrenFinite, HarnessAssumption DEF Init
<1> QED  BY <1>1 DEF Init, TypeOK, Over

(* TInv holds before the first step of the sequence.                       *)
LEMMA InitTyped == Init => TInv
<1> SUFFICES ASSUME Init PROVE TInv
  OBVIOUS
<1>1. DayGot /\ AtStep
  BY DEF Init, DayGot, AtStep
<1> QED  BY <1>1, TypedInit, InitHang DEF TInv

(* run_all comes to no step beyond the summary.                            *)
LEMMA RunAllTyped == ASSUME TypeOK, DayGot, AtStep, RunAll
  PROVE  TypeOK' /\ DayGot' /\ AtStep'
<1> USE DEF stepVars, crashVars, runVars
<1>0. Step = "restart" /\ at <= Len(Steps) => at + 2 \in 1 .. Len(Steps) + 1
  <2> SUFFICES ASSUME Step = "restart", at <= Len(Steps) PROVE at + 2 \in 1 .. Len(Steps) + 1
    OBVIOUS
  <2>1. at \in 1 .. 21
    BY StepsInOrder DEF TypeOK
  <2>2. at # 21
    BY <2>1, StepsInOrder DEF Step
  <2> QED  BY <2>1, <2>2, StepsInOrder
<1>1. CASE Skip
  <2>1. (at' = at + 2 /\ Step = "restart") \/ at' = at + 1
    BY <1>1 DEF Skip
  <2>2. at' \in 1 .. Len(Steps) + 1
    BY <1>0, <1>1, <2>1, StepsInOrder DEF Skip, TypeOK
  <2> QED  BY <1>1, <2>2 DEF Skip, TypeOK, DayGot, AtStep
<1>2. CASE Restart
  <2>1. at \in 1 .. Len(Steps)
    BY <1>2 DEF Restart, Step
  <2>2. at' \in 1 .. Len(Steps) + 1
    BY <1>2, <2>1, StepsInOrder DEF Restart
  <2> QED  BY <1>2, <2>2 DEF Restart, TypeOK, DayGot, AtStep
<1>3. CASE RunStep
  <2>1. /\ got' \in 0 .. Cardinality(Children) /\ left' \in 0 .. Batches
        /\ child' \in [Children -> Over]
    BY <1>3, ChildrenFinite, HarnessAssumption DEF RunStep, Over
  <2>2. TypeOK'
    BY <1>3, <2>1 DEF RunStep, TypeOK, Over
  <2> QED  BY <1>3, <2>2 DEF RunStep, DayGot, AtStep
<1>4. CASE StepOver
  <2>1. at' \in 1 .. Len(Steps) + 1
    BY <1>4, StepsInOrder DEF StepOver, CanLeave, TypeOK, AtStep
  <2> QED  BY <1>4, <2>1 DEF StepOver, TypeOK, DayGot, AtStep
<1>5. CASE Finish \/ TimeLimit
  <2>1. /\ UNCHANGED <<at, anyFailed, server, stepVars>>
        /\ all' \in {"running", "ok", "failed", "aborted"}
    <3>1. CASE Finish
      BY <1>5, <3>1 DEF Finish
    <3>2. CASE TimeLimit
      BY <1>5, <3>2 DEF TimeLimit
    <3> QED  BY <1>5, <3>1, <3>2
  <2>2. TypeOK'
    BY <2>1 DEF TypeOK
  <2>3. Finish => pc' = "idle"
    BY DEF Finish
  <2>4. TimeLimit => UNCHANGED <<at, pc, got>>
    BY DEF TimeLimit
  <2> QED  BY <1>5, <2>1, <2>2, <2>3, <2>4 DEF DayGot, AtStep, Step
<1> QED  BY <1>1, <1>2, <1>3, <1>4, <1>5 DEF RunAll

(* The day writes no more than its batches and takes one report.           *)
LEMMA DayTyped ==
  ASSUME TInv, DayBegins \/ DayWrites \/ DayTells \/ DayCollects \/ DayFails
  PROVE  TypeOK' /\ DayGot' /\ AtStep'
<1> USE DEF stepVars, crashVars, runVars, In, TInv
<1>0. Step' = Step /\ AtStep'
  <2>1. at' = at /\ pc # "idle"
    BY DEF DayBegins, DayWrites, DayTells, DayCollects, DayFails, Fails
  <2> QED  BY <2>1 DEF Step, AtStep
<1>1. CASE DayBegins
  <2>1. got' = 0
    BY <1>1 DEF DayBegins, HInv, StartClean
  <2>2. child' \in [Children -> ChildPhases]
    BY <1>1, HolderIsOne DEF DayBegins, Goes, TypeOK, ChildPhases, Over
  <2>3. TypeOK'
    BY <1>1, <2>2 DEF DayBegins, TypeOK, ChildPhases
  <2> QED  BY <1>0, <2>1, <2>3 DEF DayGot
<1>2. CASE DayWrites
  <2>1. left' \in 0 .. Batches
    BY <1>2, HarnessAssumption DEF DayWrites, TypeOK
  <2> QED  BY <1>0, <1>2, <2>1 DEF DayWrites, TypeOK, DayGot
<1>3. CASE DayTells
  BY <1>0, <1>3 DEF DayTells, TypeOK, DayGot
<1>4. CASE DayCollects
  <2>1. got = 0 /\ got' = got + 1
    BY <1>4 DEF DayCollects, Takes, DayGot
  <2>2. got' \in 0 .. Cardinality(Children)
    BY <2>1, ChildrenFinite
  <2> QED  BY <1>0, <1>4, <2>2 DEF DayCollects, Takes, TypeOK, DayGot
<1>5. CASE DayFails
  BY <1>0, <1>5 DEF DayFails, Fails, TypeOK, DayGot
<1> QED  BY <1>1, <1>2, <1>3, <1>4, <1>5

(* The benchmark takes no more reports than it has children.               *)
LEMMA BenchTyped ==
  ASSUME TInv,
         BenchBegins \/ BenchSamples \/ BenchReports \/ BenchFails
           \/ (\E crew \in SUBSET BenchCrew : BenchStartsSome(crew))
           \/ \E c \in BenchCrew : BenchCollects(c)
  PROVE  TypeOK' /\ DayGot' /\ AtStep'
<1> USE DEF stepVars, crashVars, runVars, In, TInv
<1>0. AtStep' /\ DayGot'
  <2>1. at' = at /\ pc # "idle" /\ Step = "bench"
    BY DEF BenchBegins, BenchSamples, BenchReports, BenchFails, BenchStartsSome, BenchCollects, Fails
  <2> QED  BY <2>1 DEF Step, AtStep, DayGot
<1>1. CASE BenchBegins
  <2>1. child' \in [Children -> ChildPhases]
    BY <1>1 DEF BenchBegins, TypeOK, ChildPhases, Over
  <2> QED  BY <1>0, <1>1, <2>1 DEF BenchBegins, TypeOK, ChildPhases
<1>2. CASE BenchSamples \/ BenchReports \/ BenchFails
  BY <1>0, <1>2 DEF BenchSamples, BenchReports, BenchFails, Fails, TypeOK
<1>3. ASSUME NEW c \in BenchCrew, BenchCollects(c) PROVE TypeOK'
  <2>1. got' \in 0 .. Cardinality(Children)
    <3>1. got \in 0 .. Cardinality(Children) /\ got < Cardinality(BenchCrew) /\ got' = got + 1
      BY <1>3 DEF BenchCollects, Takes, TypeOK
    <3> QED  BY <3>1, ChildrenFinite, CrewFinite
  <2>2. UNCHANGED <<runVars, server, pc, code, child, left, event, crashVars>>
    BY <1>3 DEF BenchCollects
  <2>3. queue' \subseteq Children
    BY <1>3 DEF BenchCollects, Takes, TypeOK
  <2> QED  BY <2>1, <2>2, <2>3 DEF TypeOK
<1>4. ASSUME NEW crew \in SUBSET BenchCrew, BenchStartsSome(crew) PROVE TypeOK'
  <2>1. child' \in [Children -> ChildPhases]
    BY <1>4 DEF BenchStartsSome, TypeOK, ChildPhases, Over
  <2> QED  BY <1>4, <2>1 DEF BenchStartsSome, TypeOK, ChildPhases
<1> QED  BY <1>0, <1>1, <1>2, <1>3, <1>4

(* compat_migration and the checks of integrity.py and monitor.py.         *)
LEMMA CompatTyped ==
  ASSUME TInv,
         \/ CompatBegins \/ CompatStartsOne \/ CompatTells \/ CompatLeaves \/ CompatFails
         \/ (\E crew \in SUBSET Helpers : HelpersStart(crew))
         \/ (\E c \in Helpers : TerminatesHelper(c))
         \/ ChecksLeave
  PROVE  TypeOK' /\ DayGot' /\ AtStep'
<1> USE DEF stepVars, crashVars, runVars, In, Checking, TInv
<1>0. AtStep' /\ DayGot'
  <2>1. at' = at /\ pc # "idle" /\ Step # "ingest-daily"
    BY DEF CompatBegins, CompatStartsOne, CompatTells, CompatLeaves, CompatFails, HelpersStart,
           TerminatesHelper, ChecksLeave, Leaves, Fails, Checkers
  <2> QED  BY <2>1 DEF Step, AtStep, DayGot
<1>1. CASE CompatBegins
  <2>1. child' \in [Children -> ChildPhases]
    BY <1>1 DEF CompatBegins, TypeOK, ChildPhases, Over
  <2> QED  BY <1>0, <1>1, <2>1 DEF CompatBegins, TypeOK, ChildPhases
<1>2. CASE CompatStartsOne
  <2>1. child' \in [Children -> ChildPhases]
    BY <1>2 DEF CompatStartsOne, Goes, TypeOK, ChildPhases, Over
  <2> QED  BY <1>0, <1>2, <2>1 DEF CompatStartsOne, TypeOK, ChildPhases
<1>3. CASE CompatTells
  BY <1>0, <1>3 DEF CompatTells, TypeOK
<1>4. CASE CompatLeaves \/ CompatFails \/ ChecksLeave
  BY <1>0, <1>4 DEF CompatLeaves, CompatFails, ChecksLeave, Leaves, Fails, TypeOK
<1>5. ASSUME NEW crew \in SUBSET Helpers, HelpersStart(crew) PROVE TypeOK'
  <2>1. child' \in [Children -> ChildPhases]
    BY <1>5 DEF HelpersStart, TypeOK, ChildPhases, Over
  <2> QED  BY <1>5, <2>1 DEF HelpersStart, TypeOK, ChildPhases
<1>6. ASSUME NEW c \in Helpers, TerminatesHelper(c) PROVE TypeOK'
  <2>1. child' \in [Children -> ChildPhases]
    BY <1>6 DEF TerminatesHelper, Goes, TypeOK, ChildPhases, Over
  <2> QED  BY <1>6, <2>1 DEF TerminatesHelper, TypeOK, ChildPhases
<1> QED  BY <1>0, <1>1, <1>2, <1>3, <1>4, <1>5, <1>6

(* crash.py and the steps without children keep the types.                 *)
LEMMA CrashTyped ==
  ASSUME TInv,
         \/ StartHolder \/ Awaits \/ KillServer \/ KillHolder \/ StartServer \/ Counts \/ CrashFails
         \/ OtherStep
  PROVE  TypeOK' /\ DayGot' /\ AtStep'
<1> USE DEF stepVars, crashVars, runVars, In, TInv
<1>0. AtStep' /\ DayGot'
  <2>1. at' = at /\ pc # "idle" /\ Step # "ingest-daily"
    BY DEF StartHolder, Awaits, KillServer, KillHolder, StartServer, Counts, CrashFails, OtherStep,
           OwnChildren, Leaves, Fails
  <2> QED  BY <2>1 DEF Step, AtStep, DayGot
<1>1. CASE StartHolder
  <2>1. child' \in [Children -> ChildPhases]
    BY <1>1, HolderIsOne DEF StartHolder, Goes, TypeOK, ChildPhases, Over
  <2> QED  BY <1>0, <1>1, <2>1 DEF StartHolder, TypeOK, ChildPhases
<1>2. CASE Awaits
  BY <1>0, <1>2 DEF Awaits, TypeOK
<1>3. CASE KillServer
  BY <1>0, <1>3 DEF KillServer, GoesOn, TypeOK
<1>4. CASE KillHolder
  <2>1. child' \in [Children -> ChildPhases]
    BY <1>4, HolderIsOne DEF KillHolder, TypeOK, ChildPhases, Over
  <2> QED  BY <1>0, <1>4, <2>1 DEF KillHolder, TypeOK, ChildPhases
<1>5. CASE StartServer
  BY <1>0, <1>5 DEF StartServer, GoesOn, TypeOK
<1>6. CASE Counts
  BY <1>0, <1>6 DEF Counts, TypeOK
<1>7. CASE CrashFails \/ OtherStep
  BY <1>0, <1>7 DEF CrashFails, OtherStep, Leaves, Fails, TypeOK
<1> QED  BY <1>1, <1>2, <1>3, <1>4, <1>5, <1>6, <1>7

(* The children keep the types.                                            *)
LEMMA ChildTyped ==
  ASSUME TInv, NEW c \in Children, Child(c)
  PROVE  TypeOK' /\ DayGot' /\ AtStep'
<1> USE DEF runVars, TInv
<1>1. UNCHANGED <<runVars, server, pc, code, got, left, round, interrupted, excuse, verdict>>
  BY DEF Child, ChildRaises, ChildLoops, ChildReports, ChildEnds, LoopEnds, HelperEnds, HolderInserts,
         HolderReady, HolderWakes, ChildOf
<1>2. AtStep' /\ DayGot'
  BY <1>1 DEF AtStep, DayGot, Step
<1>3. /\ child' \in [Children -> ChildPhases] /\ queue' \subseteq Children
      /\ event' \in BOOLEAN /\ open' \in BOOLEAN
  BY HolderIsOne
  DEF Child, ChildRaises, ChildLoops, ChildReports, ChildEnds, LoopEnds, HelperEnds, HolderInserts,
         HolderReady, HolderWakes, Goes,
      TypeOK, ChildPhases, Over
<1> QED  BY <1>1, <1>2, <1>3 DEF TypeOK, ChildPhases

(* Every step of the system keeps TInv.                                    *)
LEMMA NextTyped == TInv /\ [Next]_vars => TInv'
<1> SUFFICES ASSUME TInv, [Next]_vars PROVE TInv'
  OBVIOUS
<1>1. HInv'
  BY NextHang DEF TInv
<1>2. CASE UNCHANGED vars
  BY <1>1, <1>2 DEF vars, stepVars, crashVars, runVars, TInv, TypeOK, DayGot, AtStep, Step
<1>3. CASE Parent
  BY <1>1, <1>3, DayTyped, BenchTyped, CrashTyped, CompatTyped DEF Parent, TInv
<1>4. CASE RunAll
  BY <1>1, <1>4, RunAllTyped DEF TInv
<1>5. ASSUME NEW c \in Children, Child(c) PROVE TInv'
  BY <1>1, <1>5, ChildTyped DEF TInv
<1> QED  BY <1>2, <1>3, <1>4, <1>5 DEF Next, Ended

(* The sequence, the step that runs and its children keep their types: the  *)
(* parent of a crew never takes out more reports than it has children, and  *)
(* run_all comes to no step beyond the last.                                *)
THEOREM HarnessTyped == Spec => []TypeOK
<1>1. TInv => TypeOK
  BY DEF TInv
<1> QED  BY <1>1, InitTyped, NextTyped, PTL DEF Spec
=============================================================================
