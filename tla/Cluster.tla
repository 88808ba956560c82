------------------------------ MODULE Cluster ------------------------------
(***************************************************************************)
(* What surrounds the controller: the API server's store, the watches that *)
(* carry its changes to the controller, the users, the batch Job           *)
(* controller and the garbage collector of Kubernetes, and the clock.      *)
(* None of it is code of this repository; it is modelled from how          *)
(* JobReconciler uses it.                                                  *)
(*                                                                         *)
(* There is one Job.  Jobs do not interact: a listing selects by the Job's *)
(* name, a generated name is the Job's name, a dash and a hash without     *)
(* dashes, so two Jobs never list or name the same batch Job.              *)
(***************************************************************************)
EXTENDS BatchJobs, Sequences

CONSTANTS
  NoJob, NoProfile,  \* the object does not exist
  MinRuntime,        \* seconds a batch Job runs at least
  MaxUid,            \* bound: objects created
  MaxTime,           \* bound: the clock
  MaxLag,            \* bound: events of one watch not yet delivered
  Edits,             \* bound: user edits and (re)creations of the Job and the PodProfile
  Removals           \* bound: user deletions of the Job, the PodProfile, batch Jobs

ASSUME BoundAssumption ==
  /\ MinRuntime \in Nat
  /\ MaxUid \in Nat /\ MaxTime \in Nat /\ MaxLag \in Nat
  /\ Edits \in Nat /\ Removals \in Nat

VARIABLES
  job,           \* the Job in the store, or NoJob
  profile,       \* the template of the PodProfile it refers to, or NoProfile
  batch,         \* the batch Jobs in the store
  jobEvents, profileEvents, batchEvents,  \* changes the watches have yet to deliver
  now,           \* the clock, in seconds
  nextUid,       \* the uid of the next object
  edits, removals                         \* what is left of the bounds

storeVars == <<job, profile, batch, jobEvents, profileEvents, batchEvents, nextUid>>
clusterVars == <<storeVars, now, edits, removals>>

(***************************************************************************)
(* A Job: cond abbreviates its Available and Degraded conditions, since is *)
(* their LastTransitionTime, rv its resourceVersion.                       *)
(***************************************************************************)
Job ==
  [uid : Nat, params : Params, ttl : TTLs, limit : Limits,
   collisions : 0 .. MaxCollisions, cond : {"unknown", "ok", "failed"},
   since : Nat, rv : Nat, deleting : BOOLEAN]

BatchEvent == [gone : BOOLEAN, obj : BatchJob]

ASSUME AbsentAssumption == NoJob \notin Job /\ NoProfile \notin Templates

ClusterTypeOK ==
  /\ job \in Job \cup {NoJob}
  /\ profile \in Templates \cup {NoProfile}
  /\ batch \subseteq BatchJob
  /\ jobEvents \in Seq(Job \cup {NoJob})
  /\ profileEvents \in Seq(Templates \cup {NoProfile})
  /\ batchEvents \in Seq(BatchEvent)
  /\ now \in Nat
  /\ nextUid \in Nat
  /\ edits \in Nat /\ removals \in Nat

(***************************************************************************)
(* Writes to the store: each is one event of its watch, delivered in       *)
(* order.  An update of the Job takes a new resourceVersion.               *)
(***************************************************************************)
PutJob(j) ==
  /\ Len(jobEvents) < MaxLag
  /\ job' = j
  /\ jobEvents' = Append(jobEvents, j)

UpdateJob(j) == PutJob([j EXCEPT !.rv = @ + 1])

PutProfile(p) ==
  /\ Len(profileEvents) < MaxLag
  /\ profile' = p
  /\ profileEvents' = Append(profileEvents, p)

ChangeBatch(old, new, event) ==
  /\ Len(batchEvents) < MaxLag
  /\ batch' = (batch \ old) \cup new
  /\ batchEvents' = Append(batchEvents, event)

AddBatch(b) == ChangeBatch({}, {b}, [gone |-> FALSE, obj |-> b])
PutBatch(old, new) == ChangeBatch({old}, {new}, [gone |-> FALSE, obj |-> new])
DropBatch(b) == ChangeBatch({b}, {}, [gone |-> TRUE, obj |-> b])

JobUnchanged == UNCHANGED <<job, jobEvents>>
ProfileUnchanged == UNCHANGED <<profile, profileEvents>>
BatchUnchanged == UNCHANGED <<batch, batchEvents>>

(***************************************************************************)
(* Users.                                                                  *)
(***************************************************************************)
NewJob(p, t, l) ==
  [uid |-> nextUid, params |-> p, ttl |-> t, limit |-> l, collisions |-> 0,
   cond |-> "unknown", since |-> 0, rv |-> 1, deleting |-> FALSE]

Edit == edits > 0 /\ edits' = edits - 1 /\ UNCHANGED <<now, removals>>
Remove == removals > 0 /\ removals' = removals - 1 /\ UNCHANGED <<now, edits>>

CreateJob ==
  /\ job = NoJob /\ nextUid <= MaxUid
  /\ Edit
  /\ \E p \in Params, t \in TTLs, l \in Limits : PutJob(NewJob(p, t, l))
  /\ nextUid' = nextUid + 1
  /\ ProfileUnchanged /\ BatchUnchanged

EditJob ==
  /\ job # NoJob
  /\ Edit
  /\ \E p \in Params, t \in TTLs, l \in Limits :
       LET edited == [job EXCEPT !.params = p, !.ttl = t, !.limit = l]
       IN  edited # job /\ UpdateJob(edited)
  /\ ProfileUnchanged /\ BatchUnchanged /\ UNCHANGED nextUid

(* In the background the Job is gone at once and its batch Jobs follow;    *)
(* in the foreground it waits for them with a deletionTimestamp.           *)
DeleteJob ==
  /\ job # NoJob
  /\ Remove
  /\ \/ PutJob(NoJob)
     \/ ~job.deleting /\ UpdateJob([job EXCEPT !.deleting = TRUE])
  /\ ProfileUnchanged /\ BatchUnchanged /\ UNCHANGED nextUid

EditProfile ==
  /\ \/ Edit /\ \E p \in Templates \ {profile} : PutProfile(p)
     \/ Remove /\ profile # NoProfile /\ PutProfile(NoProfile)
  /\ JobUnchanged /\ BatchUnchanged /\ UNCHANGED nextUid

DeleteBatch(b) ==
  /\ Remove
  /\ \/ DropBatch(b)
     \/ ~b.deleting /\ PutBatch(b, [b EXCEPT !.deleting = TRUE])
  /\ JobUnchanged /\ ProfileUnchanged /\ UNCHANGED nextUid

Users ==
  \/ CreateJob
  \/ EditJob
  \/ DeleteJob
  \/ EditProfile
  \/ \E b \in batch : DeleteBatch(b)

(***************************************************************************)
(* Kubernetes: batch Jobs finish, objects without an owner or with a       *)
(* finished foreground deletion go away.                                   *)
(***************************************************************************)
FinishBatch(b) ==
  /\ ~b.done
  /\ now >= b.created + MinRuntime
  /\ PutBatch(b, [b EXCEPT !.done = TRUE, !.finishedAt = now])
  /\ JobUnchanged

Orphan(b) == job # NoJob => job.uid # b.owner

CollectGarbage(b) ==
  /\ \/ b.deleting /\ DropBatch(b)
     \/ Orphan(b) /\ DropBatch(b)
     \/ ~Orphan(b) /\ job.deleting /\ ~b.deleting
          /\ PutBatch(b, [b EXCEPT !.deleting = TRUE])
  /\ JobUnchanged

FinalizeJob ==
  /\ job # NoJob /\ job.deleting
  /\ \A b \in batch : Orphan(b)
  /\ PutJob(NoJob)
  /\ BatchUnchanged

Kubernetes ==
  /\ \/ \E b \in batch : FinishBatch(b)
     \/ \E b \in batch : CollectGarbage(b)
     \/ FinalizeJob
  /\ ProfileUnchanged
  /\ UNCHANGED <<nextUid, now, edits, removals>>

Tick ==
  /\ now < MaxTime
  /\ now' = now + 1
  /\ UNCHANGED <<storeVars, edits, removals>>

(***************************************************************************)
(* The controller has just been installed beside an existing Job.          *)
(***************************************************************************)
ClusterInit ==
  /\ job \in {[uid |-> 1, params |-> p, ttl |-> t, limit |-> l, collisions |-> 0,
               cond |-> "unknown", since |-> 0, rv |-> 1, deleting |-> FALSE] :
                p \in Params, t \in TTLs, l \in Limits}
  /\ profile \in Templates \cup {NoProfile}
  /\ batch = {}
  /\ jobEvents = <<>> /\ profileEvents = <<>> /\ batchEvents = <<>>
  /\ now = 1
  /\ nextUid = 2
  /\ edits = Edits /\ removals = Removals

ClusterNext ==
  \/ Users
  \/ Kubernetes
  \/ Tick
=============================================================================
