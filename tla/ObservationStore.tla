-------------------------- MODULE ObservationStore --------------------------
(***************************************************************************)
(* What the collection side promises about the observation store, whatever *)
(* writers, crashes and retries are behind it: it only grows, an           *)
(* idempotency key is confirmed once, an observation points at a confirmed *)
(* artifact, and a confirmed artifact has its body on disk.                *)
(***************************************************************************)
EXTENDS Naturals

VARIABLES
  observations,   \* confirmed observations: [id, key, artifact]
  artifacts,      \* ids of the artifacts whose metadata is committed
  bodies          \* ids of the artifacts whose body is stored completely

storeVars == <<observations, artifacts, bodies>>

(* One confirmed observation for each idempotency key. *)
KeysConfirmedOnce ==
  \A o1, o2 \in observations : o1.key = o2.key => o1 = o2

(* Observations point at confirmed artifacts, and those have a body. *)
ObservationsTraceable ==
  /\ \A o \in observations : o.artifact \in artifacts
  /\ artifacts \subseteq bodies

Init == KeysConfirmedOnce /\ ObservationsTraceable

(* A transaction confirms some artifacts, whose bodies are stored already, *)
(* and some observations, of these or earlier ones, with keys of their own. *)
Confirm ==
  /\ observations \subseteq observations'
  /\ artifacts \subseteq artifacts'
  /\ artifacts' \subseteq bodies
  /\ \A o \in observations' \ observations :
       /\ o.artifact \in artifacts'
       /\ \A other \in observations' : other.key = o.key => other = o
  /\ UNCHANGED bodies

StoreBody ==
  /\ bodies \subseteq bodies'
  /\ UNCHANGED <<observations, artifacts>>

(* A body nothing points at yet may be written again from the start. *)
RewriteBody ==
  /\ bodies' \subseteq bodies
  /\ artifacts \subseteq bodies'
  /\ UNCHANGED <<observations, artifacts>>

Next == Confirm \/ StoreBody \/ RewriteBody

Spec == Init /\ [][Next]_storeVars
=============================================================================
