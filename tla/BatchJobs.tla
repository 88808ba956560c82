----------------------------- MODULE BatchJobs -----------------------------
(***************************************************************************)
(* The decisions JobReconciler takes on a listing of the batch Jobs of one *)
(* Job: what the next batch Job looks like, whether it may be created,     *)
(* which finished ones expire and which are deleted.  A listing is a set   *)
(* of batch Jobs; where the code walks it in creation order, batch Jobs    *)
(* created in the same second come in any order, because                   *)
(* CreationTimestamp counts whole seconds and slices.SortFunc is not       *)
(* stable.  ListingLoops checks these rules against the loops themselves.  *)
(*                                                                         *)
(* A pod template, a set of job parameters, a name and a hash are opaque   *)
(* values: the code only compares them.                                    *)
(***************************************************************************)
EXTENDS Integers, FiniteSets, FiniteSetsExt

CONSTANTS
  Templates,     \* pod templates (a PodProfile's template with the patches applied)
  Params,        \* values of spec.profile.jobParams that end up in the batch spec
  TTLs,          \* values of ttlSecondsAfterFinished, NoTTL among them or not
  NoTTL,         \* ttlSecondsAfterFinished left unset
  Limits,        \* values of jobsHistoryLimit
  Names,         \* names of batch Jobs
  MaxCollisions, \* stands for the int32 range of status.collisionCount
  NameOf,        \* <<template, collisionCount>> -> the name with its hash suffix
  SpecHash,      \* batch spec -> value of the job-spec-hash label
  Slack          \* seconds added to a TTL requeue, 3 in the code

BatchSpec == [params : Params, template : Templates]

ASSUME CollisionsAssumption == MaxCollisions \in Nat
ASSUME TTLAssumption == TTLs \subseteq Int \cup {NoTTL} /\ NoTTL \notin Int
ASSUME LimitAssumption == Limits \subseteq Int
ASSUME NameAssumption == NameOf \in [Templates \X (0 .. MaxCollisions) -> Names]
ASSUME SlackAssumption == Slack \in Nat

(***************************************************************************)
(* A batch Job: done says that a Complete or Failed condition is true,     *)
(* finishedAt is that condition's LastTransitionTime (0 is Go's zero time; *)
(* the clock of the model starts at 1), deleting that DeletionTimestamp is *)
(* set, expired that the ttl-expired annotation is "true".                 *)
(***************************************************************************)
BatchJob ==
  [uid : Nat, owner : Nat, name : Names, spec : BatchSpec, ttl : TTLs,
   created : Nat, done : BOOLEAN, finishedAt : Nat, deleting : BOOLEAN, expired : BOOLEAN]

(* The spec BatchJobSpec makes of the Job's parameters and the template.   *)
BatchJobSpec(j, template) == [params |-> j.params, template |-> template]

(* The batch Job construct.BatchJob makes of Job j: named after the hash   *)
(* of its pod template alone and the collision count, not of its spec.     *)
(* The API server fills in the uid and the creation time.                  *)
NextBatchJob(j, template) ==
  [uid |-> 0, owner |-> j.uid, name |-> NameOf[<<template, j.collisions>>],
   spec |-> BatchJobSpec(j, template), ttl |-> j.ttl, created |-> 0,
   done |-> FALSE, finishedAt |-> 0, deleting |-> FALSE, expired |-> FALSE]

(* The first and last elements a walk in creation order may meet.          *)
NewestOf(L) == {b \in L : \A c \in L : c.created <= b.created}
OldestOf(L) == {b \in L : \A c \in L : b.created <= c.created}

(* Reconcile's latestJob: the newest one that is not being deleted.        *)
Latest(L) == NewestOf({b \in L : ~b.deleting})

(* Mutant: a changed spec is not held back while the latest one is active. *)
SpecDiffers(latest, spec) == SpecHash[latest.spec] # SpecHash[spec]

(* shouldCreateBatchJob, for a latest batch Job that exists.               *)
SpecChanged(latest, spec) ==
  /\ latest.done
  /\ SpecHash[latest.spec] # SpecHash[spec]

(***************************************************************************)
(* TTL: batchJobExpireAt and the two passes of processBatchJobsTTL.        *)
(***************************************************************************)
HasExpireTime(b) == b.done /\ b.finishedAt # 0 /\ ~b.deleting /\ b.ttl # NoTTL

(* Mutant: the TTL counts from the creation.                               *)
ExpireAtFromCreation(b) == b.created + b.ttl

ExpireAt(b) == b.finishedAt + b.ttl

Pending(L) == {b \in L : ~b.expired /\ HasExpireTime(b)}

(* Mutant: batch Jobs whose TTL still runs are skipped.                    *)
DelaysSkipped(L, time) == {}

(* To be annotated now; to be looked at again later.                       *)
ToExpire(L, time) == {b \in Pending(L) : ExpireAt(b) <= time}
Delays(L, time) == {ExpireAt(b) - time + Slack : b \in Pending(L) \ ToExpire(L, time)}

(* Mutant: none is kept.                                                   *)
TTLVictimsKeepNone(L) == {{b \in L : b.expired}}

(* Annotated batch Jobs are deleted oldest first while fewer have been     *)
(* deleted than the listing holds minus one: every one of them, unless     *)
(* they are the whole listing, which keeps a newest one.                   *)
TTLVictims(L) ==
  LET E == {b \in L : b.expired}
  IN  IF E = L /\ L # {} THEN {L \ {b} : b \in NewestOf(L)} ELSE {E}

(***************************************************************************)
(* History: deleteOldBatchJobs keeps the `limit` newest of the finished    *)
(* batch Jobs that are not being deleted.                                  *)
(***************************************************************************)
Finished(L) == {b \in L : b.done /\ ~b.deleting}

HistoryVictims(L, limit) ==
  LET F == Finished(L)
      kept == Max({0, Min({limit, Cardinality(F)})})
  IN  {D \in SUBSET F :
         /\ Cardinality(F \ D) = kept
         /\ \A d \in D, k \in F \ D : d.created <= k.created}
=============================================================================
