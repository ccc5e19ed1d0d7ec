------------------------- MODULE ReviewLocksProofs -------------------------
(***************************************************************************)
(* What holds of the decisions on review items for all sets of items, any  *)
(* number of runs, kills and lost connections, on either product.          *)
(*                                                                         *)
(* LocksHold, about the rows and their locks, is enough for what may never *)
(* happen to a row.  Named adds what the sessions note, so that a check    *)
(* that passes has named the winner.  Runs adds where two undisturbed      *)
(* sessions can be relative to each other, so that their check passes.     *)
(***************************************************************************)
EXTENDS ReviewLocks, TLAPS, WellFoundedInduction, FiniteSetTheorems

(* A set of natural numbers that has a member has a least one.             *)
LEMMA LeastMember ==
  ASSUME NEW S, S \subseteq Nat, S # {}
  PROVE  Min(S) \in S
<1> DEFINE Less == {pair \in Nat \X Nat : pair[1] < pair[2]}
<1>1. PICK x \in S : \A y \in S : <<y, x>> \notin Less
  <2> HIDE DEF Less
  <2>1. IsWellFoundedOn(Less, Nat)
    BY NatLessThanWellFounded DEF Less, OpToRel
  <2> QED  BY <2>1, WFMin
<1>2. \A y \in S : <<y, x>> \in Nat \X Nat
  OBVIOUS
<1>3. \A y \in S : ~(y < x)
  BY <1>1, <1>2
<1>4. \A y \in S : x <= y
  BY <1>3
<1> QED  BY <1>4 DEF Min

(* A transaction that has decided its target holds the row, which nobody   *)
(* else has decided.                                                       *)
Holds(s) ==
  /\ pc[s] = "commit"
  /\ target[s] \in Items
  /\ owner[target[s]] = s
  /\ items[target[s]].version = 0

(* An item is pending until it is decided, and its version counts the      *)
(* decisions.                                                              *)
ItemsCount ==
  \A i \in Items :
    /\ items[i].version \in {0, 1}
    /\ items[i].state = "decided" <=> items[i].version = 1
    /\ items[i].state = "pending" <=> items[i].version = 0

(* The inductive invariant of the rows and the locks on them.              *)
LocksHold ==
  /\ items \in [Items -> [state : {"pending", "decided"}, by : Sessions \cup {NoOne},
                          version : {0, 1}]]
  /\ owner \in [Items -> Sessions \cup {NoOne}]
  /\ pc \in [Sessions -> PCs]
  /\ ItemsCount
  /\ check = "contention" => target \in [Sessions -> Items]
  /\ wrote \subseteq Sessions
  /\ \A s \in wrote : Holds(s)

(* Nothing is locked or decided.                                           *)
LEMMA InitHolds == Init => LocksHold
  BY DEF Init, LocksHold, ItemsCount, PCs

(* A new check decides nothing and locks nothing; the contention check is  *)
(* given an item.                                                          *)
LEMMA BeginHolds ==
  LocksHold /\ (BeginContention \/ BeginDeadlock) => LocksHold'
<1> SUFFICES ASSUME LocksHold, BeginContention \/ BeginDeadlock PROVE LocksHold'
  OBVIOUS
<1>1. /\ items' = items /\ owner' = owner /\ wrote' = {}
      /\ pc' \in [Sessions -> PCs]
  BY DEF BeginContention, BeginDeadlock, StartSessions, rowVars, PCs
<1>2. check' = "contention" => target' \in [Sessions -> Items]
  <2>1. CASE BeginContention
    <3>1. Pending \subseteq Nat /\ Pending # {} /\ Pending \subseteq Items
      BY <2>1, ReviewAssumption DEF BeginContention, Pending
    <3>2. Min(Pending) \in Items
      BY <3>1, LeastMember
    <3> QED  BY <2>1, <3>2 DEF BeginContention
  <2>2. CASE BeginDeadlock
    BY <2>2 DEF BeginDeadlock
  <2> QED  BY <2>1, <2>2
<1> QED  BY <1>1, <1>2 DEF LocksHold, ItemsCount

(* Another session's rows stay locked when the rows of s are released.     *)
LEMMA ReleaseHolds ==
  ASSUME LocksHold, NEW s \in Sessions, NEW t \in wrote, t # s
  PROVE  Released(s)[target[t]] = t
  BY DEF LocksHold, Holds, Released

(* A transaction ends, and of the rows only the one it had decided may     *)
(* change.                                                                 *)
LEMMA EndHolds ==
  ASSUME LocksHold, NEW s \in Sessions, NEW p \in PCs,
         items' \in {items, Decided(s)},
         owner' = Released(s), wrote' = wrote \ {s},
         pc' = [pc EXCEPT ![s] = p],
         check' = check, target' = target
  PROVE  LocksHold'
<1>1. /\ items' \in [Items -> [state : {"pending", "decided"},
                              by : Sessions \cup {NoOne}, version : {0, 1}]]
      /\ ItemsCount'
  <2>1. CASE s \in wrote
    <3>1. Holds(s)
      BY <2>1 DEF LocksHold
    <3>2. items[target[s]].version + 1 = 1
      BY <3>1 DEF Holds
    <3> QED  BY <2>1, <3>1, <3>2 DEF LocksHold, ItemsCount, Decided, Holds
  <2>2. CASE s \notin wrote
    BY <2>2 DEF LocksHold, ItemsCount, Decided
  <2> QED  BY <2>1, <2>2
<1>2. owner' \in [Items -> Sessions \cup {NoOne}]
  BY DEF LocksHold, Released
<1>3. \A t \in wrote' : Holds(t)'
  <2> SUFFICES ASSUME NEW t \in wrote' PROVE Holds(t)'
    OBVIOUS
  <2>1. t \in wrote /\ t # s /\ t \in Sessions /\ Holds(t)
    BY DEF LocksHold
  <2>2. owner'[target[t]] = t
    BY <2>1, ReleaseHolds
  <2>3. pc'[t] = "commit"
    BY <2>1 DEF Holds, LocksHold
  <2>4. items'[target[t]] = items[target[t]]
    <3>1. s \in wrote => target[s] # target[t]
      BY <2>1 DEF LocksHold, Holds
    <3> QED  BY <2>1, <3>1 DEF Decided, Holds, LocksHold
  <2> QED  BY <2>1, <2>2, <2>3, <2>4 DEF Holds
<1> QED  BY <1>1, <1>2, <1>3 DEF LocksHold, PCs

(* An exception rolls back, or comes after the commit was durable.         *)
LEMMA RaiseHolds ==
  ASSUME LocksHold, NEW s \in Sessions, Raise(s), items' \in {items, Decided(s)}
  PROVE  LocksHold'
  BY EndHolds DEF Raise, planVars, PCs

(* A session locks a row that is free, and moves on.                       *)
LEMMA LockHolds ==
  ASSUME LocksHold, NEW s \in Sessions, NEW i \in Items, Free(s, i),
         pc[s] # "commit", NEW p \in PCs,
         owner' = [owner EXCEPT ![i] = s], pc' = [pc EXCEPT ![s] = p],
         UNCHANGED <<items, check, target>>,
         \/ wrote' = wrote
         \/ /\ wrote' = wrote \cup {s} /\ p = "commit" /\ i = target[s]
            /\ items[i].version = 0
  PROVE  LocksHold'
<1>1. \A t \in wrote : t # s /\ Holds(t)'
  <2> SUFFICES ASSUME NEW t \in wrote PROVE t # s /\ Holds(t)'
    OBVIOUS
  <2>1. Holds(t) /\ t # s /\ t \in Sessions /\ t # NoOne
    BY ReviewAssumption DEF LocksHold, Holds
  <2>2. target[t] # i
    BY <2>1 DEF Holds, Free
  <2> QED  BY <2>1, <2>2 DEF Holds, LocksHold
<1>2. s \in wrote' => Holds(s)'
  BY <1>1 DEF Holds, LocksHold
<1> QED  BY <1>1, <1>2 DEF LocksHold, ItemsCount

(* LocksHold is inductive.                                                 *)
LEMMA NextHolds == LocksHold /\ [Next]_vars => LocksHold'
<1> SUFFICES ASSUME LocksHold, [Next]_vars PROVE LocksHold'
  OBVIOUS
<1> USE DEF planVars, rowVars, sessionVars
<1>1. CASE BeginContention \/ BeginDeadlock
  BY <1>1, BeginHolds
<1>2. CASE Check
  <2>1. check' = "none" /\ UNCHANGED <<items, owner, pc, target, wrote>>
    BY <1>2 DEF Check, Judge, NoOutcome
  <2> QED  BY <2>1 DEF LocksHold, ItemsCount, Holds
<1>3. ASSUME NEW s \in Sessions, Session(s) \/ WaitTimeout(s) \/ LoseConnection(s) \/ Kill(s)
      PROVE  LocksHold'
  <2>1. CASE ReadVersion(s) \/ PassBarrier(s) \/ UpdateNothing(s)
    <3>1. pc[s] # "commit" /\ pc' \in [Sessions -> PCs]
          /\ \A t \in Sessions \ {s} : pc'[t] = pc[t]
      BY <2>1 DEF LocksHold, PCs, ReadVersion, PassBarrier, UpdateNothing, Superseded
    <3>2. UNCHANGED <<items, owner, check, target, wrote>>
      BY <2>1 DEF ReadVersion, PassBarrier, UpdateNothing
    <3> QED  BY <3>1, <3>2 DEF LocksHold, ItemsCount, Holds
  <2>2. CASE LockFirst(s)
    <3>1. CASE first[s] \in Items
      BY <2>2, <3>1, LockHolds DEF LockFirst, PCs
    <3>2. CASE first[s] \notin Items
      <4>1. owner' = owner
        BY <2>2, <3>2 DEF LockFirst, LocksHold
      <4> QED  BY <2>2, <4>1 DEF LockFirst, LocksHold, ItemsCount, Holds, PCs
    <3> QED  BY <3>1, <3>2
  <2>3. CASE LockSecond(s)
    <3>1. CASE target[s] \in Items
      BY <2>3, <3>1, LockHolds DEF LockSecond, PCs
    <3>2. CASE target[s] \notin Items
      <4>1. owner' = owner
        BY <2>3, <3>2 DEF LockSecond, LocksHold
      <4> QED  BY <2>3, <4>1 DEF LockSecond, LocksHold, ItemsCount, Holds, PCs
    <3> QED  BY <3>1, <3>2
  <2>4. CASE Decide(s)
    <3>1. target[s] \in Items /\ items[target[s]].version = 0
      BY <2>4 DEF Decide, LocksHold, ItemsCount
    <3> QED  BY <2>4, <3>1, LockHolds DEF Decide, PCs
  <2>5. CASE BarrierTimeout(s) \/ ChangedSinceRead(s) \/ Victim(s) \/ WaitTimeout(s)
             \/ LoseConnection(s)
    <3>1. Raise(s) /\ items' \in {items, Decided(s)}
      BY <2>5 DEF BarrierTimeout, ChangedSinceRead, Victim, WaitTimeout, LoseConnection
    <3> QED  BY <3>1, RaiseHolds
  <2>6. CASE Commit(s)
    BY <2>6, EndHolds DEF Commit, PCs
  <2>7. CASE Report(s)
    BY <2>7 DEF Report, LocksHold, ItemsCount, Holds, PCs
  <2>8. CASE Kill(s)
    BY <2>8, EndHolds DEF Kill, PCs
  <2> QED
    BY <1>3, <2>1, <2>2, <2>3, <2>4, <2>5, <2>6, <2>7, <2>8 DEF Session
<1>4. CASE UNCHANGED vars
  BY <1>4 DEF vars, LocksHold, ItemsCount, Holds
<1> QED  BY <1>1, <1>2, <1>3, <1>4 DEF Next

(* However two sessions decide, give up, die and are run again, no item is *)
(* decided twice (_review_decider).                                        *)
THEOREM ItemsDecidedOnce == Spec => []DecidedOnce
<1>1. LocksHold => DecidedOnce
  BY DEF LocksHold, ItemsCount, DecidedOnce
<1> QED  BY <1>1, InitHolds, NextHolds, PTL DEF Spec

(* A decision is final: the row of a decided item never changes again.     *)
DecisionsFinal ==
  \A i \in Items : items[i].state = "decided" => items'[i] = items[i]

(* The rows of s change only where its transaction decided a pending       *)
(* item.                                                                   *)
LEMMA DecidedKeeps ==
  ASSUME LocksHold, NEW s \in Sessions, items' \in {items, Decided(s)}
  PROVE  DecisionsFinal
  BY DEF DecisionsFinal, LocksHold, ItemsCount, Holds, Decided

(* No step of a session, of the harness or of a fault takes a decision     *)
(* back or hands it to somebody else (_review_decider).                    *)
THEOREM DecisionsStay == Spec => [][DecisionsFinal]_vars
<1>1. LocksHold /\ [Next]_vars => [DecisionsFinal]_vars
  <2> SUFFICES ASSUME LocksHold, Next PROVE DecisionsFinal
    BY DEF DecisionsFinal, vars
  <2>1. ASSUME NEW s \in Sessions, Commit(s) \/ LoseConnection(s)
        PROVE  DecisionsFinal
    BY <2>1, DecidedKeeps DEF Commit, LoseConnection
  <2>2. CASE items' = items
    BY <2>2 DEF DecisionsFinal
  <2>3. items' = items \/ \E s \in Sessions : Commit(s) \/ LoseConnection(s)
    BY DEF Next, Check, Session, BeginContention, BeginDeadlock, StartSessions, Judge,
           NoOutcome, ReadVersion, LockFirst, PassBarrier, BarrierTimeout, Decide,
           UpdateNothing, ChangedSinceRead, LockSecond, Victim, Report, WaitTimeout,
           Kill, rowVars
  <2> QED  BY <2>1, <2>2, <2>3
<1> QED  BY <1>1, InitHolds, NextHolds, PTL DEF Spec
----------------------------------------------------------------------------
(* Two items have the lowest ids.                                          *)
LEMMA TwoLowest ==
  ASSUME Cardinality(Items) >= 2
  PROVE  /\ Min(Items) \in Items
         /\ Min(Items \ {Min(Items)}) \in Items \ {Min(Items)}
<1>1. Items \subseteq Nat /\ IsFiniteSet(Items)
  BY ReviewAssumption
<1>2. Items # {}
  BY FS_EmptySet
<1>3. Min(Items) \in Items
  BY <1>1, <1>2, LeastMember
<1>4. Items \ {Min(Items)} # {}
  <2>1. Cardinality(Items \ {Min(Items)}) = Cardinality(Items) - 1
    BY <1>1, <1>3, FS_RemoveElement
  <2>2. Cardinality(Items) \in Nat
    BY <1>1, FS_CardinalityType
  <2> QED  BY <2>1, <2>2, FS_EmptySet
<1>5. Items \ {Min(Items)} \subseteq Nat
  BY <1>1
<1> QED  BY <1>3, <1>4, <1>5, LeastMember

(* No check has run.                                                       *)
LEMMA TypedInit == Init => TypeOK
<1> SUFFICES ASSUME Init PROVE TypeOK
  OBVIOUS
<1>1. runs \in 0 .. MaxRuns /\ faults \in 0 .. MaxFaults
  BY ReviewAssumption DEF Init
<1> QED  BY <1>1 DEF Init, TypeOK, PCs, NoOutcomeYet

(* A new check starts two sessions on items that exist.                    *)
LEMMA TypedBegin == TypeOK /\ (BeginContention \/ BeginDeadlock) => TypeOK'
<1> SUFFICES ASSUME TypeOK, BeginContention \/ BeginDeadlock PROVE TypeOK'
  OBVIOUS
<1>1. StartSessions
  BY DEF BeginContention, BeginDeadlock
<1>2. /\ first' \in [Sessions -> Items \cup {0}]
      /\ target' \in [Sessions -> Items \cup {0}]
      /\ check' \in Checks
  <2>1. CASE BeginContention
    <3>1. Pending \subseteq Nat /\ Pending # {} /\ Pending \subseteq Items
      BY <2>1, ReviewAssumption DEF BeginContention, Pending
    <3>2. Min(Pending) \in Items
      BY <3>1, LeastMember
    <3> QED  BY <2>1, <3>2 DEF BeginContention, TypeOK, Checks
  <2>2. CASE BeginDeadlock
    BY <2>2, TwoLowest DEF BeginDeadlock, Checks
  <2> QED  BY <2>1, <2>2
<1>3. runs' \in 0 .. MaxRuns
  <2>1. runs \in 0 .. MaxRuns /\ runs < MaxRuns /\ runs' = runs + 1
    BY <1>1 DEF StartSessions, TypeOK
  <2> QED  BY <2>1, ReviewAssumption
<1> QED  BY <1>1, <1>2, <1>3 DEF StartSessions, TypeOK, PCs, NoOutcomeYet, rowVars

(* An exception changes no more than the row locks, the outcome and the    *)
(* place of its session.                                                   *)
LEMMA RaiseTyped ==
  ASSUME TypeOK, NEW s \in Sessions, Raise(s)
  PROVE  /\ owner' \in [Items -> Sessions \cup {NoOne}]
         /\ wrote' \subseteq Sessions
         /\ outcome' \in [Sessions -> [rowcount : {0, 1}, error : BOOLEAN]]
         /\ pc' \in [Sessions -> PCs]
         /\ UNCHANGED <<engine, check, first, target, runs, seen, queue, verdict>>
  BY DEF TypeOK, Raise, Released, PCs, planVars

(* A decision is a row of review_item.                                     *)
LEMMA DecidedTyped ==
  ASSUME TypeOK, NEW s \in Sessions
  PROVE  Decided(s) \in [Items -> [state : {"pending", "decided"},
                                   by : Sessions \cup {NoOne}, version : Nat]]
<1> DEFINE Rows == [state : {"pending", "decided"}, by : Sessions \cup {NoOne}, version : Nat]
<1>1. items \in [Items -> Rows]
  BY DEF TypeOK
<1>2. CASE s \in wrote /\ target[s] \in Items
  <2>1. items[target[s]].version + 1 \in Nat
    BY <1>1, <1>2
  <2>2. [state |-> "decided", by |-> s, version |-> items[target[s]].version + 1] \in Rows
    BY <2>1
  <2>3. Decided(s) \in [Items -> Rows]
    <3> HIDE DEF Rows
    <3> QED  BY <1>1, <1>2, <2>2 DEF Decided
  <2> QED  BY <2>3
<1>3. CASE s \in wrote /\ target[s] \notin Items
  <2> HIDE DEF Rows
  <2>1. Decided(s) = items
    BY <1>1, <1>3 DEF Decided
  <2> QED  BY <1>1, <2>1 DEF Rows
<1>4. CASE s \notin wrote
  BY <1>1, <1>4 DEF Decided
<1> QED  BY <1>2, <1>3, <1>4

(* The types are kept by every step; what a session reads needs            *)
(* LocksHold, which says that it has been given an item.                   *)
LEMMA TypedNext == TypeOK /\ LocksHold /\ [Next]_vars => TypeOK'
<1> SUFFICES ASSUME TypeOK, LocksHold, [Next]_vars PROVE TypeOK'
  OBVIOUS
<1> USE DEF planVars, rowVars, sessionVars, barrierVars, judgeVars
<1>1. CASE BeginContention \/ BeginDeadlock
  BY <1>1, TypedBegin
<1>2. CASE Check
  BY <1>2 DEF Check, Judge, NoOutcome, TypeOK
<1>3. ASSUME NEW s \in Sessions, Session(s) \/ WaitTimeout(s) \/ LoseConnection(s) \/ Kill(s)
      PROVE  TypeOK'
  <2>1. CASE ReadVersion(s)
    <3>1. target[s] \in Items
      BY <2>1 DEF ReadVersion, LocksHold
    <3>2. items[target[s]].version \in Nat
      BY <3>1 DEF TypeOK
    <3>3. seen' \in [Sessions -> Nat]
      BY <2>1, <3>2 DEF ReadVersion, TypeOK
    <3> QED  BY <2>1, <3>3 DEF ReadVersion, TypeOK, PCs
  <2>2. CASE LockFirst(s)
    BY <2>2 DEF LockFirst, TypeOK, PCs
  <2>3. CASE PassBarrier(s) \/ UpdateNothing(s)
    BY <2>3 DEF PassBarrier, UpdateNothing, TypeOK, PCs
  <2>4. CASE Decide(s)
    BY <2>4 DEF Decide, TypeOK, PCs
  <2>5. CASE LockSecond(s)
    BY <2>5 DEF LockSecond, TypeOK, PCs
  <2>6. CASE BarrierTimeout(s)
    BY <2>6, RaiseTyped DEF BarrierTimeout, TypeOK
  <2>7. CASE ChangedSinceRead(s) \/ Victim(s)
    BY <2>7, RaiseTyped DEF ChangedSinceRead, Victim, TypeOK
  <2>8. CASE WaitTimeout(s)
    BY <2>8, RaiseTyped DEF WaitTimeout, TypeOK
  <2>9. CASE LoseConnection(s)
    <3>1. faults' \in 0 .. MaxFaults
      <4>1. faults \in 0 .. MaxFaults /\ faults < MaxFaults /\ faults' = faults + 1
        BY <2>9 DEF LoseConnection, TypeOK
      <4> QED  BY <4>1, ReviewAssumption
    <3>2. items' \in [Items -> [state : {"pending", "decided"}, by : Sessions \cup {NoOne},
                                version : Nat]]
      <4>1. items' = items \/ items' = Decided(s)
        BY <2>9 DEF LoseConnection
      <4>2. CASE items' = items
        BY <4>2 DEF TypeOK
      <4>3. CASE items' = Decided(s)
        BY <4>3, DecidedTyped
      <4> QED  BY <4>1, <4>2, <4>3
    <3> QED  BY <2>9, <3>1, <3>2, RaiseTyped DEF LoseConnection, TypeOK
  <2>10. CASE Commit(s)
    BY <2>10, DecidedTyped DEF Commit, TypeOK, PCs, Released
  <2>11. CASE Report(s)
    BY <2>11 DEF Report, TypeOK, PCs
  <2>12. CASE Kill(s)
    <3>1. faults' \in 0 .. MaxFaults
      <4>1. faults \in 0 .. MaxFaults /\ faults < MaxFaults /\ faults' = faults + 1
        BY <2>12 DEF Kill, TypeOK
      <4> QED  BY <4>1, ReviewAssumption
    <3> QED  BY <2>12, <3>1 DEF Kill, TypeOK, PCs, Released
  <2> QED
    BY <1>3, <2>1, <2>2, <2>3, <2>4, <2>5, <2>6, <2>7, <2>8, <2>9, <2>10, <2>11, <2>12
    DEF Session
<1>4. CASE UNCHANGED vars
  BY <1>4 DEF vars, TypeOK
<1> QED  BY <1>1, <1>2, <1>3, <1>4 DEF Next

(* The rows, the sessions and the harness keep to their types and to       *)
(* their bounds (schema.review_item, integrity.py).                        *)
THEOREM ReviewTyped == Spec => []TypeOK
  BY TypedInit, TypedNext, InitHolds, NextHolds, PTL DEF Spec
----------------------------------------------------------------------------
(* In a contention check both sessions want the same item, a transaction   *)
(* that has decided it has noted its row count, and so has the session     *)
(* that the decided row names.                                             *)
Named ==
  check = "contention" =>
    /\ target[A] = target[B]
    /\ \A s \in wrote : outcome[s].rowcount = 1
    /\ items[target[A]].state = "decided" =>
         /\ items[target[A]].by \in Sessions
         /\ outcome[items[target[A]].by].rowcount = 1

(* The item the sessions are given is pending.                             *)
LEMMA NamedBegin ==
  ASSUME LocksHold, BeginContention \/ BeginDeadlock
  PROVE  Named'
<1>1. CASE BeginContention
  <2>1. Pending \subseteq Nat /\ Pending # {} /\ Pending \subseteq Items
    BY <1>1, ReviewAssumption DEF BeginContention, Pending
  <2>2. Min(Pending) \in Pending
    BY <2>1, LeastMember
  <2>3. items'[target'[A]].state = "pending" /\ target'[A] = target'[B] /\ wrote' = {}
    BY <1>1, <2>2 DEF BeginContention, StartSessions, rowVars, Pending, Sessions
  <2> QED  BY <2>3 DEF Named
<1>2. CASE BeginDeadlock
  BY <1>2 DEF BeginDeadlock, Named
<1> QED  BY <1>1, <1>2

(* A session's transaction ends: the row it decided names it, and its row  *)
(* count is noted already.                                                 *)
LEMMA NamedEnd ==
  ASSUME TypeOK, LocksHold, Named, NEW s \in Sessions,
         items' = items \/ items' = Decided(s), wrote' = wrote \ {s},
         check' = check, target' = target,
         \A t \in Sessions : outcome'[t].rowcount = outcome[t].rowcount
  PROVE  Named'
<1> SUFFICES ASSUME check = "contention" PROVE Named'
  BY DEF Named
<1> DEFINE i == target[A]
<1>1. target[s] = i /\ i \in Items /\ target[A] = target[B]
  BY DEF Named, LocksHold, Sessions
<1>2. \A t \in wrote' : outcome'[t].rowcount = 1
  BY DEF Named, TypeOK
<1>3. CASE items' = items
  BY <1>1, <1>2, <1>3 DEF Named
<1>4. CASE items' = Decided(s)
  <2>1. CASE s \in wrote
    <3>1. items'[i].by = s
      BY <1>1, <1>4, <2>1 DEF Decided, TypeOK
    <3>2. outcome'[s].rowcount = 1
      BY <2>1 DEF Named
    <3> QED  BY <1>1, <1>2, <3>1, <3>2 DEF Named
  <2>2. CASE s \notin wrote
    BY <1>1, <1>2, <1>4, <2>2 DEF Named, Decided
  <2> QED  BY <2>1, <2>2
<1> QED  BY <1>3, <1>4

(* An exception does not take back the row count of an earlier statement.  *)
LEMMA RaiseKeepsCount ==
  ASSUME TypeOK, NEW s \in Sessions, Raise(s)
  PROVE  /\ wrote' = wrote \ {s} /\ check' = check /\ target' = target
         /\ \A t \in Sessions : outcome'[t].rowcount = outcome[t].rowcount
  BY DEF TypeOK, Raise, planVars

(* Named is inductive, whatever is killed.                                 *)
LEMMA NamedNext == TypeOK /\ LocksHold /\ Named /\ [Next]_vars => Named'
<1> SUFFICES ASSUME TypeOK, LocksHold, Named, [Next]_vars PROVE Named'
  OBVIOUS
<1> USE DEF planVars, rowVars, sessionVars
<1>1. CASE BeginContention \/ BeginDeadlock
  BY <1>1, NamedBegin
<1>2. CASE Check
  BY <1>2 DEF Check, Judge, NoOutcome, Named
<1>3. ASSUME NEW s \in Sessions, Session(s) \/ WaitTimeout(s) \/ LoseConnection(s) \/ Kill(s)
      PROVE  Named'
  <2>1. CASE ReadVersion(s) \/ LockFirst(s) \/ PassBarrier(s) \/ UpdateNothing(s)
             \/ LockSecond(s) \/ Report(s)
    <3>1. UNCHANGED <<items, check, target, wrote, outcome>>
      BY <2>1 DEF ReadVersion, LockFirst, PassBarrier, UpdateNothing, LockSecond, Report
    <3> QED  BY <3>1 DEF Named
  <2>2. CASE Decide(s)
    <3>1. /\ UNCHANGED <<items, check, target>> /\ wrote' = wrote \cup {s}
          /\ outcome' = [outcome EXCEPT ![s].rowcount = 1]
      BY <2>2 DEF Decide
    <3>2. \A t \in Sessions : outcome'[t].rowcount = IF t = s THEN 1 ELSE outcome[t].rowcount
      BY <3>1 DEF TypeOK
    <3>3. wrote \subseteq Sessions
      BY DEF TypeOK
    <3> QED  BY <3>1, <3>2, <3>3 DEF Named
  <2>3. CASE BarrierTimeout(s) \/ ChangedSinceRead(s) \/ Victim(s) \/ WaitTimeout(s)
             \/ LoseConnection(s)
    <3>1. Raise(s) /\ (items' = items \/ items' = Decided(s))
      BY <2>3 DEF BarrierTimeout, ChangedSinceRead, Victim, WaitTimeout, LoseConnection
    <3> QED  BY <3>1, RaiseKeepsCount, NamedEnd
  <2>4. CASE Commit(s) \/ Kill(s)
    <3>1. /\ items' = items \/ items' = Decided(s)
          /\ wrote' = wrote \ {s} /\ UNCHANGED <<check, target, outcome>>
      BY <2>4 DEF Commit, Kill
    <3> QED  BY <3>1, NamedEnd
  <2> QED  BY <1>3, <2>1, <2>2, <2>3, <2>4 DEF Session
<1>4. CASE UNCHANGED vars
  BY <1>4 DEF vars, Named
<1> QED  BY <1>1, <1>2, <1>3, <1>4 DEF Next

(* In a contention check that passes, the one session that reports a row   *)
(* count of 1 is the one that the row names, whatever was killed and       *)
(* whichever connection was lost (check_review_contention).                *)
THEOREM TheWinnerIsTold == Spec => []WinnerIsTold
<1>1. Init => Named
  BY DEF Init, Named
<1>2. TypeOK /\ LocksHold /\ Named => WinnerIsTold
  <2> SUFFICES ASSUME TypeOK, LocksHold, Named, check = "contention", queue = Sessions,
                      SingleWinner, NEW s \in Sessions
               PROVE  outcome[s].rowcount = 1 <=> items[target[s]].by = s
    BY DEF WinnerIsTold
  <2> DEFINE Told == {t \in queue : outcome[t].rowcount = 1}
  <2>1. PICK w \in Sessions : Told = {w}
    <3>1. IsFiniteSet(Sessions)
      <4>1. IsFiniteSet({A}) /\ Sessions = {A} \cup {B}
        BY FS_Singleton DEF Sessions
      <4> QED  BY <4>1, FS_AddElement
    <3>2. IsFiniteSet(Told)
      BY <3>1, FS_Subset
    <3>3. Cardinality(Told) = 1
      BY DEF SingleWinner
    <3>4. \E w : Told = {w}
      BY <3>2, <3>3, FS_Singleton
    <3> QED  BY <3>4
  <2>2. target[s] = target[A]
    BY DEF Named, Sessions
  <2>3. items[target[A]].by \in Told
    BY DEF Named, SingleWinner
  <2>4. outcome[s].rowcount = 1 <=> s = w
    BY <2>1
  <2> QED  BY <2>1, <2>2, <2>3, <2>4
<1> QED  BY <1>1, <1>2, TypedInit, TypedNext, InitHolds, NextHolds, NamedNext, PTL DEF Spec
----------------------------------------------------------------------------
(* The harness around two sessions that nothing disturbs: whoever is past  *)
(* the barrier knows that both have come to it, and nobody's outcome is    *)
(* lost.                                                                   *)
Course ==
  check # "none" /\ ~disturbed =>
    /\ ~broken
    /\ \A s \in Sessions :
         /\ s \in arrived <=> pc[s] # "open"
         /\ s \in queue <=> pc[s] = "gone"
         /\ pc[s] \notin {"open", "barrier"} => arrived = Sessions

(* Two sessions that decide the same item: both read it before either      *)
(* decided it, so the one that comes second finds it changed.              *)
ContentionRuns ==
  check = "contention" /\ ~disturbed =>
    /\ arrived # Sessions => items[target[A]].version = 0
    /\ \A s \in Sessions :
         /\ pc[s] # "open" => seen[s] = 0
         /\ pc[s] \in {"open", "barrier", "update"} => outcome[s].rowcount = 0
         /\ pc[s] = "commit" /\ outcome[s].rowcount = 1 => s \in wrote
         /\ pc[s] \in {"report", "gone"} /\ outcome[s].rowcount = 1 =>
              items[target[s]].version = 1 /\ items[target[s]].by = s
         /\ pc[s] \in {"commit", "report", "gone"} /\ outcome[s].rowcount = 0 =>
              items[target[s]].version = 1

(* Two sessions that lock crosswise: each holds its first row until its    *)
(* transaction ends, so one gets its second row only when the other has    *)
(* been the victim.                                                        *)
DeadlockRuns ==
  check = "deadlock" /\ ~disturbed =>
    \A s, t \in Sessions : s # t =>
      /\ first[s] \in Items /\ first[t] # first[s] /\ target[t] = first[s]
      /\ pc[s] \in {"barrier", "update", "commit"} => owner[first[s]] = s
      /\ outcome[s].error => pc[s] \in {"report", "gone"} /\ ~outcome[t].error
      /\ pc[s] \in {"commit", "report", "gone"} /\ ~outcome[s].error => outcome[t].error

(* The inductive invariant of the checks that nothing disturbs.            *)
Runs ==
  TypeOK /\ LocksHold /\ Named /\ Course /\ ContentionRuns /\ DeadlockRuns
    /\ UndisturbedChecksPass

(* No check has run.                                                       *)
LEMMA RunsInit == Init => Runs
<1> SUFFICES ASSUME Init PROVE Runs
  OBVIOUS
<1>1. check = "none" /\ runs = 0
  BY DEF Init
<1> QED
  BY <1>1, TypedInit, InitHolds
  DEF Runs, Named, Course, ContentionRuns, DeadlockRuns, UndisturbedChecksPass

(* Where every session is when a step of s takes it from pc[s] to p.       *)
LEMMA Moves ==
  ASSUME TypeOK, NEW s \in Sessions, NEW p \in PCs, pc' = [pc EXCEPT ![s] = p]
  PROVE  pc'[s] = p /\ \A t \in Sessions : t # s => pc'[t] = pc[t]
  BY DEF TypeOK

(* The barrier and the queue work as long as nothing disturbs the          *)
(* sessions.                                                               *)
LEMMA CourseNext == Runs /\ [Next]_vars => Course'
<1> SUFFICES ASSUME Runs, [Next]_vars, check' # "none", ~disturbed' PROVE Course'
  BY DEF Course
<1> USE DEF planVars, rowVars, sessionVars, barrierVars, judgeVars
<1>1. CASE BeginContention \/ BeginDeadlock
  <2>1. /\ pc' = [s \in Sessions |-> "open"] /\ queue' = {} /\ arrived' = {} /\ ~broken'
    BY <1>1 DEF BeginContention, BeginDeadlock, StartSessions
  <2> QED  BY <2>1 DEF Course
<1>2. CASE Check
  BY <1>2 DEF Check, Judge, NoOutcome
<1>3. ASSUME NEW s \in Sessions, Session(s) \/ WaitTimeout(s) \/ LoseConnection(s) \/ Kill(s)
      PROVE  Course'
  <2>0. check' = check /\ ~disturbed /\ Course /\ TypeOK /\ check # "none"
    BY <1>3 DEF Session, ReadVersion, LockFirst, PassBarrier, BarrierTimeout, Decide,
                UpdateNothing, ChangedSinceRead, LockSecond, Victim, Commit, Report,
                WaitTimeout, LoseConnection, Kill, Raise, Runs
  <2>1. CASE ReadVersion(s) \/ LockFirst(s)
    <3>1. /\ pc[s] = "open" /\ pc' = [pc EXCEPT ![s] = "barrier"]
          /\ arrived' = arrived \cup {s} /\ UNCHANGED <<queue, broken>>
      BY <2>1 DEF ReadVersion, LockFirst
    <3>2. pc'[s] = "barrier" /\ \A t \in Sessions : t # s => pc'[t] = pc[t]
      BY <2>0, <3>1, Moves DEF PCs
    <3>3. arrived \subseteq Sessions
      BY <2>0 DEF TypeOK
    <3> QED  BY <2>0, <3>1, <3>2, <3>3 DEF Course
  <2>2. CASE PassBarrier(s)
    <3>1. /\ arrived = Sessions /\ pc' = [pc EXCEPT ![s] = "update"]
          /\ pc[s] = "barrier" /\ UNCHANGED <<arrived, queue, broken>>
      BY <2>2 DEF PassBarrier
    <3>2. pc'[s] = "update" /\ \A t \in Sessions : t # s => pc'[t] = pc[t]
      BY <2>0, <3>1, Moves DEF PCs
    <3> QED  BY <2>0, <3>1, <3>2 DEF Course
  <2>3. CASE Decide(s) \/ UpdateNothing(s) \/ LockSecond(s)
    <3>1. /\ pc' = [pc EXCEPT ![s] = "commit"]
          /\ pc[s] = "update" /\ UNCHANGED <<arrived, queue, broken>>
      BY <2>3 DEF Decide, UpdateNothing, LockSecond, Superseded
    <3>2. pc'[s] = "commit" /\ \A t \in Sessions : t # s => pc'[t] = pc[t]
      BY <2>0, <3>1, Moves DEF PCs
    <3> QED  BY <2>0, <3>1, <3>2 DEF Course
  <2>4. CASE ChangedSinceRead(s) \/ Victim(s) \/ Commit(s)
    <3>1. /\ pc' = [pc EXCEPT ![s] = "report"]
          /\ pc[s] \in {"update", "commit"} /\ UNCHANGED <<arrived, queue, broken>>
      BY <2>4 DEF ChangedSinceRead, Victim, Commit, Raise, Superseded, Blocked
    <3>2. pc'[s] = "report" /\ \A t \in Sessions : t # s => pc'[t] = pc[t]
      BY <2>0, <3>1, Moves DEF PCs
    <3> QED  BY <2>0, <3>1, <3>2 DEF Course
  <2>5. CASE Report(s)
    <3>1. /\ pc' = [pc EXCEPT ![s] = "gone"] /\ queue' = queue \cup {s}
          /\ pc[s] = "report" /\ UNCHANGED <<arrived, broken>>
      BY <2>5 DEF Report
    <3>2. pc'[s] = "gone" /\ \A t \in Sessions : t # s => pc'[t] = pc[t]
      BY <2>0, <3>1, Moves DEF PCs
    <3> QED  BY <2>0, <3>1, <3>2 DEF Course
  <2>6. ~(BarrierTimeout(s) \/ WaitTimeout(s) \/ LoseConnection(s) \/ Kill(s))
    BY DEF BarrierTimeout, WaitTimeout, LoseConnection, Kill
  <2> QED  BY <1>3, <2>1, <2>2, <2>3, <2>4, <2>5, <2>6 DEF Session
<1>4. CASE UNCHANGED vars
  BY <1>4 DEF vars, Runs, Course
<1> QED  BY <1>1, <1>2, <1>3, <1>4 DEF Next

(* The row counts and the fault flags when a step changes one of them.     *)
LEMMA Counts ==
  ASSUME TypeOK, NEW s \in Sessions
  PROVE  /\ outcome' = [outcome EXCEPT ![s].rowcount = 1] =>
              \A t \in Sessions : /\ outcome'[t].rowcount = IF t = s THEN 1 ELSE outcome[t].rowcount
                                  /\ outcome'[t].error = outcome[t].error
         /\ outcome' = [outcome EXCEPT ![s].error = TRUE] =>
              \A t \in Sessions : /\ outcome'[t].rowcount = outcome[t].rowcount
                                  /\ outcome'[t].error = (t = s \/ outcome[t].error)
<1>0. outcome \in [Sessions -> [rowcount : {0, 1}, error : BOOLEAN]]
  BY DEF TypeOK
<1>1. ASSUME outcome' = [outcome EXCEPT ![s].rowcount = 1], NEW t \in Sessions
      PROVE  /\ outcome'[t].rowcount = IF t = s THEN 1 ELSE outcome[t].rowcount
             /\ outcome'[t].error = outcome[t].error
  BY <1>0, <1>1
<1>2. ASSUME outcome' = [outcome EXCEPT ![s].error = TRUE], NEW t \in Sessions
      PROVE  /\ outcome'[t].rowcount = outcome[t].rowcount
             /\ outcome'[t].error = (t = s \/ outcome[t].error)
  <2>1. CASE t = s
    BY <1>0, <1>2, <2>1
  <2>2. CASE t # s
    BY <1>0, <1>2, <2>2
  <2> QED  BY <2>1, <2>2
<1> QED  BY <1>1, <1>2

(* One action at a time: what the two sessions of the contention check     *)
(* have read, noted and committed.                                         *)
LEMMA ContentionNext == Runs /\ [Next]_vars => ContentionRuns'
<1> SUFFICES ASSUME Runs, [Next]_vars, check' = "contention", ~disturbed' PROVE ContentionRuns'
  BY DEF ContentionRuns
<1> USE DEF planVars, rowVars, sessionVars, barrierVars, judgeVars
<1>1. CASE BeginContention
  <2>1. Pending \subseteq Nat /\ Pending # {} /\ Pending \subseteq Items
    BY <1>1, ReviewAssumption DEF BeginContention, Pending
  <2>2. Min(Pending) \in Pending
    BY <2>1, LeastMember
  <2>3. items'[target'[A]].version = 0
    <3>1. LocksHold /\ UNCHANGED items /\ target'[A] = Min(Pending)
      BY <1>1 DEF BeginContention, StartSessions, Runs, Sessions
    <3> QED  BY <2>2, <3>1 DEF LocksHold, ItemsCount, Pending
  <2>4. /\ pc' = [s \in Sessions |-> "open"]
        /\ outcome' = [s \in Sessions |-> NoOutcomeYet]
    BY <1>1 DEF BeginContention, StartSessions
  <2> QED  BY <2>3, <2>4 DEF ContentionRuns, NoOutcomeYet
<1>2. CASE BeginDeadlock \/ Check
  BY <1>2 DEF BeginDeadlock, Check, Judge, NoOutcome
<1>3. ASSUME NEW s \in Sessions, Session(s) \/ WaitTimeout(s) \/ LoseConnection(s) \/ Kill(s)
      PROVE  ContentionRuns'
  <2>0. /\ check' = check /\ target' = target /\ ~disturbed
    BY <1>3 DEF Session, ReadVersion, LockFirst, PassBarrier, BarrierTimeout, Decide,
                UpdateNothing, ChangedSinceRead, LockSecond, Victim, Commit, Report,
                WaitTimeout, LoseConnection, Kill, Raise
  <2>1. /\ check = "contention" /\ TypeOK /\ LocksHold /\ Named
        /\ Course /\ ContentionRuns /\ check # "none"
    BY <2>0 DEF Runs
  <2>2. target \in [Sessions -> Items] /\ \A t \in Sessions : target[t] = target[A]
    BY <2>1 DEF LocksHold, Named, Sessions
  <2>3. CASE ReadVersion(s)
    <3>1. /\ pc[s] = "open" /\ pc' = [pc EXCEPT ![s] = "barrier"]
          /\ seen' = [seen EXCEPT ![s] = items[target[s]].version]
          /\ arrived' = arrived \cup {s}
          /\ UNCHANGED <<items, wrote, outcome>>
      BY <2>3 DEF ReadVersion
    <3>2. pc'[s] = "barrier" /\ \A t \in Sessions : t # s => pc'[t] = pc[t]
      BY <2>1, <3>1, Moves DEF PCs
    <3>3. s \notin arrived
      BY <2>0, <2>1, <3>1 DEF Course
    <3>4. items[target[s]].version = 0
      BY <2>0, <2>1, <2>2, <3>3 DEF ContentionRuns
    <3>5. seen'[s] = 0 /\ \A t \in Sessions : t # s => seen'[t] = seen[t]
      BY <2>1, <3>1, <3>4 DEF TypeOK
    <3>6. items'[target'[A]].version = 0
      BY <2>0, <2>2, <3>1, <3>4
    <3> QED  BY <2>0, <2>1, <3>1, <3>2, <3>5, <3>6 DEF ContentionRuns
  <2>4. CASE PassBarrier(s)
    <3>1. /\ pc[s] = "barrier" /\ pc' = [pc EXCEPT ![s] = "update"]
          /\ UNCHANGED <<items, seen, arrived, wrote, outcome>>
      BY <2>4 DEF PassBarrier
    <3>2. pc'[s] = "update" /\ \A t \in Sessions : t # s => pc'[t] = pc[t]
      BY <2>1, <3>1, Moves DEF PCs
    <3> QED  BY <2>0, <2>1, <3>1, <3>2 DEF ContentionRuns
  <2>5. CASE Decide(s)
    <3>1. /\ pc[s] = "update" /\ pc' = [pc EXCEPT ![s] = "commit"]
          /\ wrote' = wrote \cup {s} /\ UNCHANGED <<items, seen, arrived>>
          /\ outcome' = [outcome EXCEPT ![s].rowcount = 1]
      BY <2>5 DEF Decide
    <3>2. pc'[s] = "commit" /\ \A t \in Sessions : t # s => pc'[t] = pc[t]
      BY <2>1, <3>1, Moves DEF PCs
    <3>3. \A t \in Sessions : outcome'[t].rowcount = IF t = s THEN 1 ELSE outcome[t].rowcount
      BY <2>1, <3>1, Counts
    <3> QED  BY <2>0, <2>1, <3>1, <3>2, <3>3 DEF ContentionRuns
  <2>6. CASE UpdateNothing(s) \/ ChangedSinceRead(s)
    <3>1. /\ pc[s] = "update" /\ pc'\in {[pc EXCEPT ![s] = "commit"], [pc EXCEPT ![s] = "report"]}
          /\ Superseded(s) /\ UNCHANGED <<items, seen, arrived>>
      BY <2>6 DEF UpdateNothing, ChangedSinceRead, Superseded, Raise
    <3>2. pc'[s] \in {"commit", "report"} /\ \A t \in Sessions : t # s => pc'[t] = pc[t]
      BY <2>1, <3>1, Moves DEF PCs
    <3>3. \A t \in Sessions : outcome'[t].rowcount = outcome[t].rowcount
      BY <2>1, <2>6, RaiseKeepsCount DEF UpdateNothing, ChangedSinceRead
    <3>4. s \notin wrote
      BY <2>1, <3>1 DEF LocksHold, Holds
    <3>5. wrote' = wrote
      BY <2>6, <3>4 DEF UpdateNothing, ChangedSinceRead, Raise
    <3>6. items[target[s]].version = 1
      <4>1. seen[s] = 0
        BY <2>0, <2>1, <3>1 DEF ContentionRuns
      <4>2. target[s] \in Items
        BY <2>2
      <4> QED  BY <2>1, <3>1, <4>1, <4>2 DEF Superseded, LocksHold, ItemsCount
    <3> QED  BY <2>0, <2>1, <3>1, <3>2, <3>3, <3>5, <3>6 DEF ContentionRuns
  <2>7. CASE Commit(s)
    <3>1. /\ pc[s] = "commit" /\ pc' = [pc EXCEPT ![s] = "report"]
          /\ items' = Decided(s) /\ wrote' = wrote \ {s}
          /\ UNCHANGED <<seen, arrived, outcome>>
      BY <2>7 DEF Commit
    <3>2. pc'[s] = "report" /\ \A t \in Sessions : t # s => pc'[t] = pc[t]
      BY <2>1, <3>1, Moves DEF PCs
    <3>3. arrived' = Sessions
      BY <2>0, <2>1, <3>1 DEF Course
    <3>4. CASE s \in wrote
      <4>1. /\ outcome[s].rowcount = 1 /\ items[target[s]].version = 0
            /\ owner[target[s]] = s
        BY <2>1, <3>4 DEF Named, LocksHold, Holds
      <4>2. items'[target[s]].version = 1 /\ items'[target[s]].by = s
        <5>1. items[target[s]].version + 1 = 1
          BY <4>1
        <5>2. items' = [items EXCEPT ![target[s]] =
                         [state |-> "decided", by |-> s, version |-> items[target[s]].version + 1]]
          BY <3>1, <3>4 DEF Decided
        <5> QED  BY <2>1, <2>2, <5>1, <5>2 DEF LocksHold
      <4>3. \A t \in Sessions : t # s => t \notin wrote
        BY <2>1, <2>2, <4>1 DEF LocksHold, Holds
      <4>4. \A t \in Sessions : t # s =>
              pc[t] \notin {"report", "gone"} /\ ~(pc[t] = "commit" /\ outcome[t].rowcount = 1)
        <5>1. items[target[A]].version = 0
          BY <2>2, <4>1
        <5>2. \A t \in Sessions : items[target[t]].version = 0
          BY <2>2, <5>1
        <5>3. \A t \in Sessions : outcome[t].rowcount \in {0, 1}
          BY <2>1 DEF TypeOK
        <5> QED  BY <2>0, <2>1, <4>3, <5>2, <5>3 DEF ContentionRuns
      <4> QED
        BY <2>0, <2>1, <2>2, <3>1, <3>2, <3>3, <4>1, <4>2, <4>4 DEF ContentionRuns
    <3>5. CASE s \notin wrote
      <4>1. items' = items /\ wrote' = wrote
        BY <3>1, <3>5 DEF Decided
      <4>2. outcome[s].rowcount = 0
        <5>1. outcome[s].rowcount \in {0, 1}
          BY <2>1 DEF TypeOK
        <5> QED  BY <2>0, <2>1, <3>1, <3>5, <5>1 DEF ContentionRuns
      <4> QED  BY <2>0, <2>1, <3>1, <3>2, <4>1, <4>2 DEF ContentionRuns
    <3> QED  BY <3>4, <3>5
  <2>8. CASE Report(s)
    <3>1. /\ pc[s] = "report" /\ pc' = [pc EXCEPT ![s] = "gone"]
          /\ UNCHANGED <<items, seen, arrived, wrote, outcome>>
      BY <2>8 DEF Report
    <3>2. pc'[s] = "gone" /\ \A t \in Sessions : t # s => pc'[t] = pc[t]
      BY <2>1, <3>1, Moves DEF PCs
    <3> QED  BY <2>0, <2>1, <3>1, <3>2 DEF ContentionRuns
  <2>9. ~Victim(s)
    BY <2>2 DEF Victim, Blocked
  <2>10. ~(LockFirst(s) \/ LockSecond(s))
    BY <2>1 DEF LockFirst, LockSecond
  <2>11. ~(BarrierTimeout(s) \/ WaitTimeout(s) \/ LoseConnection(s) \/ Kill(s))
    BY DEF BarrierTimeout, WaitTimeout, LoseConnection, Kill
  <2> QED
    BY <1>3, <2>3, <2>4, <2>5, <2>6, <2>7, <2>8, <2>9, <2>10, <2>11 DEF Session
<1>4. CASE UNCHANGED vars
  BY <1>4 DEF vars, Runs, ContentionRuns
<1> QED  BY <1>1, <1>2, <1>3, <1>4 DEF Next

(* One action at a time: what the two sessions of the deadlock check       *)
(* hold, and which of them was the victim.                                 *)
LEMMA DeadlockNext == Runs /\ [Next]_vars => DeadlockRuns'
<1> SUFFICES ASSUME Runs, [Next]_vars, check' = "deadlock", ~disturbed' PROVE DeadlockRuns'
  BY DEF DeadlockRuns
<1> USE DEF planVars, rowVars, sessionVars, barrierVars, judgeVars
<1>1. CASE BeginDeadlock
  <2> DEFINE low == Min(Items)
             next == Min(Items \ {low})
  <2>1. low \in Items /\ next \in Items /\ next # low
    BY <1>1, TwoLowest DEF BeginDeadlock
  <2>2. /\ first' = [s \in Sessions |-> IF s = A THEN low ELSE next]
        /\ target' = [s \in Sessions |-> IF s = A THEN next ELSE low]
        /\ pc' = [s \in Sessions |-> "open"]
        /\ outcome' = [s \in Sessions |-> NoOutcomeYet]
    BY <1>1 DEF BeginDeadlock, StartSessions
  <2> HIDE DEF low, next
  <2> QED  BY <2>1, <2>2 DEF DeadlockRuns, Sessions, NoOutcomeYet
<1>2. CASE BeginContention \/ Check
  BY <1>2 DEF BeginContention, Check, Judge, NoOutcome
<1>3. ASSUME NEW s \in Sessions, Session(s) \/ WaitTimeout(s) \/ LoseConnection(s) \/ Kill(s)
      PROVE  DeadlockRuns'
  <2>0. /\ check' = check /\ target' = target /\ first' = first /\ ~disturbed
    BY <1>3 DEF Session, ReadVersion, LockFirst, PassBarrier, BarrierTimeout, Decide,
                UpdateNothing, ChangedSinceRead, LockSecond, Victim, Commit, Report,
                WaitTimeout, LoseConnection, Kill, Raise
  <2>1. /\ check = "deadlock" /\ TypeOK /\ Course /\ DeadlockRuns /\ check # "none"
    BY <2>0 DEF Runs
  <2>2. owner \in [Items -> Sessions \cup {NoOne}] /\ A # B /\ NoOne \notin Sessions
    BY <2>1, ReviewAssumption DEF TypeOK
  <2>3. CASE LockFirst(s)
    <3>1. /\ pc[s] = "open" /\ pc' = [pc EXCEPT ![s] = "barrier"]
          /\ owner' = [owner EXCEPT ![first[s]] = s] /\ outcome' = outcome
      BY <2>3 DEF LockFirst
    <3>2. pc'[s] = "barrier" /\ \A t \in Sessions : t # s => pc'[t] = pc[t]
      BY <2>1, <3>1, Moves DEF PCs
    <3>3. PICK t \in Sessions : t # s
      BY <2>2 DEF Sessions
    <3>4. first[s] \in Items /\ first[t] \in Items /\ first[t] # first[s]
      BY <2>0, <2>1, <3>3 DEF DeadlockRuns
    <3>5. owner'[first[s]] = s /\ owner'[first[t]] = owner[first[t]]
      BY <2>2, <3>1, <3>4
    <3>6. \A u \in Sessions : u = s \/ u = t
      BY <3>3 DEF Sessions
    <3> QED  BY <2>0, <2>1, <3>1, <3>2, <3>3, <3>5, <3>6 DEF DeadlockRuns
  <2>4. CASE PassBarrier(s)
    <3>1. /\ pc[s] = "barrier" /\ pc' = [pc EXCEPT ![s] = "update"]
          /\ UNCHANGED <<owner, outcome>>
      BY <2>4 DEF PassBarrier
    <3>2. pc'[s] = "update" /\ \A t \in Sessions : t # s => pc'[t] = pc[t]
      BY <2>1, <3>1, Moves DEF PCs
    <3> QED  BY <2>0, <2>1, <3>1, <3>2 DEF DeadlockRuns
  <2>5. CASE LockSecond(s)
    <3>1. /\ pc[s] = "update" /\ pc' = [pc EXCEPT ![s] = "commit"]
          /\ owner' = [owner EXCEPT ![target[s]] = s] /\ outcome' = outcome
          /\ owner[target[s]] \in {NoOne, s}
      BY <2>5 DEF LockSecond, Free
    <3>2. pc'[s] = "commit" /\ \A t \in Sessions : t # s => pc'[t] = pc[t]
      BY <2>1, <3>1, Moves DEF PCs
    <3>3. PICK t \in Sessions : t # s
      BY <2>2 DEF Sessions
    <3>4. /\ first[s] \in Items /\ first[t] \in Items /\ first[t] # first[s]
          /\ target[s] = first[t]
      BY <2>0, <2>1, <3>3 DEF DeadlockRuns
    <3>5. t \in arrived
      BY <2>0, <2>1, <3>1 DEF Course
    <3>6. pc[t] \in {"report", "gone"}
      <4>1. pc[t] # "open" /\ pc[t] \in PCs
        BY <2>0, <2>1, <3>5 DEF Course, TypeOK
      <4>2. pc[t] \notin {"barrier", "update", "commit"}
        BY <2>0, <2>1, <2>2, <3>1, <3>3, <3>4 DEF DeadlockRuns
      <4> QED  BY <4>1, <4>2 DEF PCs
    <3>7. ~outcome[s].error /\ outcome[t].error
      BY <2>0, <2>1, <3>1, <3>3, <3>6 DEF DeadlockRuns
    <3>8. owner'[first[s]] = owner[first[s]]
      BY <2>2, <3>1, <3>4
    <3>9. \A u \in Sessions : u = s \/ u = t
      BY <3>3 DEF Sessions
    <3> QED
      BY <2>0, <2>1, <3>1, <3>2, <3>3, <3>6, <3>7, <3>8, <3>9 DEF DeadlockRuns
  <2>6. CASE Victim(s)
    <3>1. /\ pc' = [pc EXCEPT ![s] = "report"] /\ owner' = Released(s)
          /\ outcome' = [outcome EXCEPT ![s].error = TRUE]
      BY <2>6 DEF Victim, Raise
    <3>2. pc'[s] = "report" /\ \A t \in Sessions : t # s => pc'[t] = pc[t]
      BY <2>1, <3>1, Moves DEF PCs
    <3>3. PICK t \in Sessions : t # s /\ pc[s] = "update" /\ pc[t] = "update"
      BY <2>6 DEF Victim, Blocked
    <3>4. \A u \in Sessions : u = s \/ u = t
      BY <3>3 DEF Sessions
    <3>5. \A u \in Sessions : outcome'[u].error = (u = s \/ outcome[u].error)
      BY <2>1, <3>1, Counts
    <3>6. ~outcome[s].error /\ ~outcome[t].error
      BY <2>0, <2>1, <3>3 DEF DeadlockRuns
    <3>7. outcome'[s].error /\ ~outcome'[t].error
      BY <3>3, <3>5, <3>6
    <3>8. owner'[first[t]] = t
      <4>1. first[t] \in Items /\ owner[first[t]] = t
        BY <2>0, <2>1, <3>3 DEF DeadlockRuns
      <4> QED  BY <3>1, <3>3, <4>1 DEF Released
    <3> QED  BY <2>0, <2>1, <3>2, <3>3, <3>4, <3>7, <3>8 DEF DeadlockRuns
  <2>7. CASE Commit(s)
    <3>1. /\ pc[s] = "commit" /\ pc' = [pc EXCEPT ![s] = "report"] /\ owner' = Released(s)
          /\ outcome' = outcome
      BY <2>7 DEF Commit
    <3>2. pc'[s] = "report" /\ \A t \in Sessions : t # s => pc'[t] = pc[t]
      BY <2>1, <3>1, Moves DEF PCs
    <3>3. \A t \in Sessions : t # s /\ first[t] \in Items /\ owner[first[t]] = t =>
            owner'[first[t]] = t
      BY <3>1 DEF Released
    <3> QED  BY <2>0, <2>1, <3>1, <3>2, <3>3 DEF DeadlockRuns
  <2>8. CASE Report(s)
    <3>1. /\ pc[s] = "report" /\ pc' = [pc EXCEPT ![s] = "gone"]
          /\ UNCHANGED <<owner, outcome>>
      BY <2>8 DEF Report
    <3>2. pc'[s] = "gone" /\ \A t \in Sessions : t # s => pc'[t] = pc[t]
      BY <2>1, <3>1, Moves DEF PCs
    <3> QED  BY <2>0, <2>1, <3>1, <3>2 DEF DeadlockRuns
  <2>9. ~(ReadVersion(s) \/ Decide(s) \/ UpdateNothing(s) \/ ChangedSinceRead(s))
    BY <2>1 DEF ReadVersion, Decide, UpdateNothing, ChangedSinceRead, Superseded
  <2>10. ~(BarrierTimeout(s) \/ WaitTimeout(s) \/ LoseConnection(s) \/ Kill(s))
    BY DEF BarrierTimeout, WaitTimeout, LoseConnection, Kill
  <2> QED
    BY <1>3, <2>3, <2>4, <2>5, <2>6, <2>7, <2>8, <2>9, <2>10 DEF Session
<1>4. CASE UNCHANGED vars
  BY <1>4 DEF vars, Runs, DeadlockRuns
<1> QED  BY <1>1, <1>2, <1>3, <1>4 DEF Next

(* What the check makes of two sessions that nothing disturbed.            *)
LEMMA JudgedPass ==
  ASSUME Runs, Judge, ~disturbed
  PROVE  verdict' = "pass"
<1>1. /\ TypeOK /\ LocksHold /\ Named /\ Course /\ ContentionRuns /\ DeadlockRuns
      /\ check # "none" /\ queue = Sessions /\ check \in Checks
  BY DEF Runs, Judge, TypeOK
<1>2. \A s \in Sessions : pc[s] = "gone"
  BY <1>1 DEF Course
<1>3. CASE check = "contention"
  <2>1. target[A] \in Items /\ target[B] = target[A] /\ A \in Sessions /\ B \in Sessions
    BY <1>1, <1>3 DEF LocksHold, Named, Sessions
  <2>2. items[target[A]].version = 1
    <3>1. outcome[A].rowcount \in {0, 1}
      BY <1>1, <2>1 DEF TypeOK
    <3> QED  BY <1>1, <1>2, <1>3, <2>1, <3>1 DEF ContentionRuns
  <2>3. items[target[A]].state = "decided"
    BY <1>1, <2>1, <2>2 DEF LocksHold, ItemsCount
  <2> DEFINE w == items[target[A]].by
  <2>4. w \in Sessions /\ outcome[w].rowcount = 1
    BY <1>1, <1>3, <2>3 DEF Named
  <2>5. \A s \in Sessions : outcome[s].rowcount = 1 => s = w
    <3>1. \A s \in Sessions : target[s] = target[A]
      BY <2>1 DEF Sessions
    <3> QED  BY <1>1, <1>2, <1>3, <3>1 DEF ContentionRuns
  <2>6. {s \in queue : outcome[s].rowcount = 1} = {w}
    BY <1>1, <2>4, <2>5
  <2>7. Cardinality({s \in queue : outcome[s].rowcount = 1}) = 1
    BY <2>6, FS_Singleton
  <2> QED  BY <1>3, <2>2, <2>3, <2>7 DEF Judge, SingleWinner
<1>4. CASE check = "deadlock"
  <2>1. A # B /\ A \in Sessions /\ B \in Sessions
    BY ReviewAssumption DEF Sessions
  <2>2. \A s, t \in Sessions : s # t =>
          /\ outcome[s].error => ~outcome[t].error
          /\ ~outcome[s].error => outcome[t].error
    BY <1>1, <1>2, <1>4 DEF DeadlockRuns
  <2>3. OneOfEach
    BY <1>1, <2>1, <2>2 DEF OneOfEach
  <2> QED  BY <1>4, <2>3 DEF Judge
<1> QED  BY <1>1, <1>3, <1>4 DEF Checks

(* A check ends with the outcomes of both sessions, and they are what it   *)
(* asks for.                                                               *)
LEMMA PassNext == Runs /\ [Next]_vars => UndisturbedChecksPass'
<1> SUFFICES ASSUME Runs, [Next]_vars, check' = "none", runs' > 0, ~disturbed'
             PROVE  verdict' = "pass"
  BY DEF UndisturbedChecksPass
<1> USE DEF planVars, rowVars, sessionVars, barrierVars, judgeVars
<1>0. UndisturbedChecksPass /\ Course
  BY DEF Runs
<1>1. CASE Judge
  BY <1>1, JudgedPass DEF Judge
<1>2. CASE NoOutcome
  <2>1. ~disturbed /\ check # "none" /\ queue # Sessions /\ \A s \in Sessions : pc[s] = "gone"
    BY <1>2 DEF NoOutcome
  <2>2. queue \subseteq Sessions
    BY DEF Runs, TypeOK
  <2> QED  BY <1>0, <2>1, <2>2 DEF Course
<1>3. CASE UNCHANGED <<check, runs, disturbed, verdict>>
  BY <1>0, <1>3 DEF UndisturbedChecksPass
<1>4. ASSUME NEW s \in Sessions, Session(s) \/ WaitTimeout(s) \/ LoseConnection(s) \/ Kill(s)
      PROVE  UNCHANGED <<check, runs, disturbed, verdict>>
  BY <1>4 DEF Session, ReadVersion, LockFirst, PassBarrier, BarrierTimeout, Decide,
              UpdateNothing, ChangedSinceRead, LockSecond, Victim, Commit, Report,
              WaitTimeout, LoseConnection, Kill, Raise
<1>5. ~(BeginContention \/ BeginDeadlock)
  BY DEF BeginContention, BeginDeadlock
<1>6. CASE UNCHANGED vars
  BY <1>3, <1>6 DEF vars
<1> QED  BY <1>1, <1>2, <1>3, <1>4, <1>5, <1>6 DEF Next, Check

(* Runs is inductive.                                                      *)
LEMMA RunsNext == Runs /\ [Next]_vars => Runs'
  BY TypedNext, NextHolds, NamedNext, CourseNext, ContentionNext, DeadlockNext, PassNext DEF Runs

(* Whatever the order of the two sessions' steps, a check that no fault    *)
(* and no time limit disturbed passes on either product                    *)
(* (check_review_contention, check_deadlock).                              *)
THEOREM UndisturbedPass == Spec => []UndisturbedChecksPass
<1>1. Runs => UndisturbedChecksPass
  BY DEF Runs
<1> QED  BY <1>1, RunsInit, RunsNext, PTL DEF Spec
=============================================================================
