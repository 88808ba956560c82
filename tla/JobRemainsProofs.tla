-------------------------- MODULE JobRemainsProofs --------------------------
(* With reads from the store, nobody deleting anything and a positive      *)
(* history limit, the controller's cleaning up never deletes the last      *)
(* batch Job; if batch Jobs moreover take time and their TTL, if any, is   *)
(* never changed, the controller implements JobPromise as long as batch    *)
(* Jobs are annotated in the order they expire in.                         *)
EXTENDS JobCopiesProofs, FiniteSetTheorems

(* The history pass keeps a finished batch Job if its limit is positive.   *)
LEMMA HistoryKeepsOne ==
  ASSUME NEW L, IsFiniteSet(L), L # {}, NEW limit \in Int, limit >= 1,
         NEW V \in HistoryVictims(L, limit)
  PROVE  V # L /\ V \subseteq L
<1> DEFINE F == Finished(L)
           kept == Max({0, Min({limit, Cardinality(F)})})
<1>1. F \subseteq L
  BY DEF Finished
<1>2. IsFiniteSet(F) /\ Cardinality(F) \in Nat
  BY <1>1, FS_Subset, FS_CardinalityType
<1>3. V \subseteq F /\ Cardinality(F \ V) = kept
  BY DEF HistoryVictims
<1>4. CASE F = {}
  BY <1>3, <1>4
<1>5. CASE F # {}
  <2>1. Cardinality(F) >= 1
    BY <1>2, <1>5, FS_EmptySet
  <2>2. kept >= 1
    <3> HIDE DEF F
    <3> QED BY <1>2, <2>1, MinOfTwo, MaxOfZero
  <2>3. F \ V # {}
    BY <1>3, <2>2, FS_EmptySet
  <2> QED BY <1>1, <1>3, <2>3
<1> QED BY <1>4, <1>5

(***************************************************************************)
(* Nobody deletes anything: one Job, and all batch Jobs are its own.       *)
(***************************************************************************)
Undisturbed ==
  /\ removals = 0
  /\ job # NoJob /\ job.uid = 1 /\ ~job.deleting
  /\ snap # NoJob => snap.uid = 1
  /\ \A b \in batch : b.owner = 1 /\ ~b.deleting

(* A batch Job is left that the pass does not delete.                      *)
LeavesOne == generated # NoRun => \E b \in batch : \A t \in todo : t.uid # b.uid

RemainsInv ==
  /\ Undisturbed
  /\ IsFiniteSet(batch)
  /\ LeavesOne

LEMMA FiniteSteps ==
  ASSUME TypeOK, [Next]_vars, IsFiniteSet(batch)
  PROVE  IsFiniteSet(batch')
<1>1. ASSUME NEW b, NEW c, Replaced(b, c) PROVE IsFiniteSet(batch')
  BY <1>1, FS_RemoveElement, FS_AddElement DEF Replaced
<1>2. CASE Removes
  BY <1>2, FS_Subset DEF Removes
<1>3. CASE Creates
  BY <1>3, FS_AddElement DEF Creates
<1> QED BY <1>1, <1>2, <1>3, BatchSteps DEF StartsDeletion, Finishes, Annotates

LEMMA StatusKeepsIdentity ==
  ASSUME TypeOK, NEW c \in Job, UpdateStatus(c)
  PROVE  job' # NoJob /\ job'.uid = job.uid /\ job'.deleting = job.deleting
<1> DEFINE updated == [job EXCEPT !.collisions = c.collisions,
                                  !.cond = c.cond, !.since = c.since]
           new == [updated EXCEPT !.rv = @ + 1]
<1>1. job \in Job
  BY DEF UpdateStatus, Current, TypeOK, ClusterTypeOK
<1>2. new.uid = job.uid /\ new.deleting = job.deleting
  BY <1>1 DEF Job
<1>3. job' = job \/ job' = new
  BY DEF UpdateStatus, JobUnchanged, UpdateJob, PutJob
<1>4. job' # NoJob
  BY UpdateStatusType, AbsentAssumption
<1> HIDE DEF new
<1> QED BY <1>2, <1>3, <1>4

(* The Job stays, under its uid, and so does the uid of a pass's copy.     *)
Mine(j) == j # NoJob /\ j.uid = 1 /\ ~j.deleting

LEMMA JobStays ==
  ASSUME Mine(ReadJob), TypeOK, TypeOK', Undisturbed, [Next]_vars
  PROVE  /\ removals' = 0
         /\ job' # NoJob /\ job'.uid = 1 /\ ~job'.deleting
         /\ snap' # NoJob => snap'.uid = 1
<1> USE DEF Undisturbed, vars, clusterVars, storeVars, ctlVars, passVars, cacheVars, boundVars
<1>0. job \in Job /\ now \in Nat
  BY DEF TypeOK, ClusterTypeOK
<1>1. CASE Reconcile
  <2>1. CASE StartReconcile
    <3>1. job' = job /\ removals' = 0 /\ snap' = MarkAvailable(ReadJob)
      BY <2>1 DEF StartReconcile
    <3>2. ReadJob \in Job
      BY DEF ReadJob, Mine, TypeOK, ClusterTypeOK
    <3>3. snap'.uid = 1
      BY <1>0, <3>1, <3>2 DEF MarkAvailable, Job, Mine
    <3> QED BY <3>1, <3>3
  <2>2. CASE BumpCollision
    <3> DEFINE bumped == [snap EXCEPT !.collisions = @ + 1]
    <3>1. snap \in Job /\ removals' = 0 /\ snap.uid = 1
      BY <2>2, AbsentAssumption DEF BumpCollision, TypeOK
    <3>2. snap.collisions \in 0 .. MaxCollisions /\ snap.collisions < MaxCollisions
      BY <2>2, <3>1 DEF BumpCollision, Job
    <3>3. bumped \in Job /\ bumped.uid = 1
      BY <3>1, <3>2, CollisionsAssumption DEF Job
    <3>4. \/ UpdateStatus(bumped) /\ snap' = job'
          \/ JobUnchanged /\ snap' = bumped
      BY <2>2 DEF BumpCollision
    <3> HIDE DEF bumped
    <3> QED BY <3>1, <3>3, <3>4, StatusKeepsIdentity DEF JobUnchanged
  <2>3. CASE ReportFailure
    <3> DEFINE failed == [snap EXCEPT !.cond = "failed", !.since = now]
    <3>1. snap \in Job /\ removals' = 0 /\ snap' = NoJob
      BY <2>3 DEF ReportFailure, EndPass, TypeOK
    <3>2. failed \in Job
      BY <1>0, <3>1 DEF Job
    <3>3. UpdateStatus(failed) \/ JobUnchanged
      BY <2>3 DEF ReportFailure
    <3> HIDE DEF failed
    <3> QED BY <3>1, <3>2, <3>3, StatusKeepsIdentity DEF JobUnchanged
  <2>4. CASE ReportSuccess
    <3>1. snap \in Job /\ removals' = 0 /\ snap' = NoJob
      BY <2>4 DEF ReportSuccess, EndPass, TypeOK
    <3>2. UpdateStatus(snap) \/ JobUnchanged
      BY <2>4 DEF ReportSuccess
    <3> QED BY <3>1, <3>2, StatusKeepsIdentity DEF JobUnchanged
  <2>5. CASE \/ SkipReconcile \/ ConstructBatchJob \/ ListForTTL \/ MarkExpired
             \/ DeleteExpired \/ ListHistory \/ DeleteOld \/ ListExisting \/ CreateBatchJob
    <3>1. job' = job /\ removals' = removals /\ snap' = snap
      BY <2>5 DEF SkipReconcile, ConstructBatchJob, ListForTTL, MarkExpired, DeleteExpired,
        ListHistory, DeleteOld, DeleteStep, ListExisting, CreateBatchJob, JobUnchanged
    <3> QED BY <3>1
  <2> QED BY <1>1, <2>1, <2>2, <2>3, <2>4, <2>5 DEF Reconcile
<1>2. CASE ClusterNext /\ UNCHANGED ctlVars
  <2>1. snap' = snap
    BY <1>2
  <2>2. CASE EditJob
    <3>1. PICK p \in Params, t \in TTLs, l \in Limits :
            UpdateJob([job EXCEPT !.params = p, !.ttl = t, !.limit = l])
      BY <2>2 DEF EditJob
    <3>2. job'.uid = job.uid /\ job'.deleting = job.deleting
      BY <1>0, <3>1 DEF UpdateJob, PutJob, Job
    <3>3. job' # NoJob
      <4> DEFINE edited == [job EXCEPT !.params = p, !.ttl = t, !.limit = l]
      <4>1. edited \in Job /\ UpdateJob(edited)
        BY <1>0, <3>1 DEF Job
      <4> HIDE DEF edited
      <4> QED BY <4>1, UpdateJobType, AbsentAssumption
    <3>4. removals' = 0
      BY <2>2 DEF EditJob, Edit
    <3> QED BY <2>1, <3>2, <3>3, <3>4
  <2>3. CASE EditProfile
    <3>1. job' = job /\ removals' = removals
      BY <2>3 DEF EditProfile, Edit, Remove, JobUnchanged
    <3> QED BY <2>1, <3>1
  <2>5. CASE Kubernetes
    <3>1. ~FinalizeJob /\ removals' = removals
      BY <2>5 DEF Kubernetes, FinalizeJob
    <3>2. job' = job
      BY <2>5, <3>1 DEF Kubernetes, FinishBatch, CollectGarbage, JobUnchanged
    <3> QED BY <2>1, <3>1, <3>2
  <2>6. CASE Tick
    BY <2>1, <2>6 DEF Tick
  <2>4. ~CreateJob /\ ~DeleteJob /\ \A b \in batch : ~DeleteBatch(b)
    BY DEF CreateJob, DeleteJob, DeleteBatch, Remove
  <2> QED BY <1>2, <2>2, <2>3, <2>4, <2>5, <2>6 DEF ClusterNext, Users
<1>3. CASE Deliver \/ Resync \/ UNCHANGED vars
  <2>1. job' = job /\ removals' = removals /\ snap' = snap
    BY <1>3 DEF Deliver, DeliverJob, DeliverProfile, DeliverBatch, Resync
  <2> QED BY <2>1
<1>4. CASE CrashRestart
  BY <1>4 DEF CrashRestart
<1> QED BY <1>1, <1>2, <1>3, <1>4 DEF Next

(* What is left of BatchSteps when nothing is being deleted or orphaned.   *)
PassDeletes == pc \in {"sweep", "pruning"} /\ \E c \in todo : DeleteStep(c)

LEMMA QuietSteps ==
  ASSUME TypeOK, Undisturbed, [Next]_vars
  PROVE  \/ PassDeletes \/ UNCHANGED batch \/ Finishes
         \/ Annotates /\ MarkExpired
         \/ Creates /\ CreateBatchJob
<1> USE DEF BatchUnchanged, ChangeBatch, PutBatch, DropBatch, Replaced
<1>1. CASE Users
  <2>1. \A b \in batch : ~DeleteBatch(b)
    BY DEF DeleteBatch, Remove, Undisturbed
  <2> QED BY <1>1, <2>1 DEF Users, CreateJob, EditJob, DeleteJob, EditProfile
<1>2. CASE Kubernetes
  <2>1. \A b \in batch : ~CollectGarbage(b)
    BY DEF CollectGarbage, Orphan, Undisturbed
  <2>2. CASE \E b \in batch : FinishBatch(b)
    BY <2>2 DEF FinishBatch, Finishes
  <2>3. CASE FinalizeJob
    BY <2>3 DEF FinalizeJob
  <2> QED BY <1>2, <2>1, <2>2, <2>3 DEF Kubernetes
<1>3. CASE MarkExpired
  <2>1. PICK b \in mark : AddTTLExpiredAnnotation(b)
    BY <1>3 DEF MarkExpired, NewestOf
  <2>2. CASE b \in batch /\ PutBatch(b, [b EXCEPT !.expired = TRUE])
    BY <1>3, <2>2 DEF MarkExpired, Annotates
  <2> QED BY <2>1, <2>2 DEF AddTTLExpiredAnnotation
<1>4. CASE DeleteExpired \/ DeleteOld
  BY <1>4 DEF DeleteExpired, DeleteOld, OldestOf, NewestOf, PassDeletes
<1>5. CASE CreateBatchJob
  <2>1. CASE StoreBatchJob(NextBatchJob(snap, template))
    BY <1>5, <2>1 DEF CreateBatchJob, StoreBatchJob, AddBatch, Creates, NewBatchJob
  <2>2. CASE BatchUnchanged
    BY <2>2
  <2> QED BY <1>5, <2>1, <2>2 DEF CreateBatchJob
<1>6. CASE SkipReconcile \/ StartReconcile \/ ConstructBatchJob \/ ListForTTL \/ ListHistory
           \/ ListExisting
  BY <1>6 DEF SkipReconcile, StartReconcile, ConstructBatchJob, ListForTTL, ListHistory,
              ListExisting, clusterVars, storeVars
<1>7. CASE BumpCollision \/ ReportFailure \/ ReportSuccess
  BY <1>7 DEF BumpCollision, ReportFailure, ReportSuccess, EndPass
<1>8. CASE Deliver \/ Resync \/ CrashRestart \/ Tick \/ UNCHANGED vars
  BY <1>8 DEF Deliver, Resync, CrashRestart, Tick, vars, clusterVars, storeVars
<1> QED BY <1>1, <1>2, <1>3, <1>4, <1>5, <1>6, <1>7, <1>8 DEF Next, Reconcile, ClusterNext

LEMMA DeletesOne ==
  ASSUME TypeOK, NEW c \in todo, DeleteStep(c)
  PROVE  /\ generated' = generated /\ todo' = todo \ {c}
         /\ batch' = batch \/ \E x \in batch : x.uid = c.uid /\ batch' = batch \ {x}
BY DEF DeleteStep, Delete, SameObject, DropBatch, ChangeBatch, BatchUnchanged

(* A replaced batch Job keeps its uid, its owner and, here, its deleting.  *)
LEMMA ReplacedKeeps ==
  ASSUME TypeOK, Finishes \/ Annotates
  PROVE  /\ \A b \in batch : \E y \in batch' : y.uid = b.uid
         /\ \A y \in batch' : \E b \in batch : y.owner = b.owner /\ y.deleting = b.deleting
<1>0. batch \subseteq BatchJob
  BY DEF TypeOK, ClusterTypeOK
<1>1. ASSUME NEW b \in batch, NEW c, Replaced(b, c), c.uid = b.uid, c.owner = b.owner,
             c.deleting = b.deleting
      PROVE  /\ \A x \in batch : \E y \in batch' : y.uid = x.uid
             /\ \A y \in batch' : \E x \in batch : y.owner = x.owner /\ y.deleting = x.deleting
  BY <1>1 DEF Replaced
<1>2. CASE Finishes
  <2>1. PICK b : Replaced(b, [b EXCEPT !.done = TRUE, !.finishedAt = now])
    BY <1>2 DEF Finishes
  <2> DEFINE c == [b EXCEPT !.done = TRUE, !.finishedAt = now]
  <2>2. b \in batch /\ b \in BatchJob
    BY <1>0, <2>1 DEF Replaced
  <2>3. Replaced(b, c) /\ c.uid = b.uid /\ c.owner = b.owner /\ c.deleting = b.deleting
    BY <2>1, <2>2 DEF BatchJob
  <2> HIDE DEF c
  <2> QED BY <1>1, <2>2, <2>3
<1>3. CASE Annotates
  <2>1. PICK b : Replaced(b, [b EXCEPT !.expired = TRUE])
    BY <1>3 DEF Annotates
  <2> DEFINE c == [b EXCEPT !.expired = TRUE]
  <2>2. b \in batch /\ b \in BatchJob
    BY <1>0, <2>1 DEF Replaced
  <2>3. Replaced(b, c) /\ c.uid = b.uid /\ c.owner = b.owner /\ c.deleting = b.deleting
    BY <2>1, <2>2 DEF BatchJob
  <2> HIDE DEF c
  <2> QED BY <1>1, <2>2, <2>3
<1> QED BY <1>2, <1>3

LEMMA CreatesOwn ==
  ASSUME TypeOK, Undisturbed, Creates
  PROVE  NewBatchJob.uid = nextUid /\ NewBatchJob.owner = 1 /\ ~NewBatchJob.deleting
<1>1. snap \in Job /\ template \in Templates /\ snap # NoJob
  BY AbsentAssumption DEF Creates, TypeOK, Steps
<1>2. NextBatchJob(snap, template) \in BatchJob /\ ~NextBatchJob(snap, template).deleting
  BY <1>1, NextBatchJobType DEF Job
<1>3. NextBatchJob(snap, template).owner = 1
  BY <1>1 DEF NextBatchJob, Undisturbed
<1> QED BY <1>2, <1>3 DEF NewBatchJob, BatchJob

LEMMA UndisturbedStep ==
  ASSUME Mine(ReadJob), TypeOK, TypeOK', Undisturbed, [Next]_vars
  PROVE  Undisturbed'
<1>1. \A b \in batch' : b.owner = 1 /\ ~b.deleting
  <2>1. CASE PassDeletes
    BY <2>1, DeletesOne DEF PassDeletes, Undisturbed
  <2>2. CASE UNCHANGED batch
    BY <2>2 DEF Undisturbed
  <2>3. CASE Finishes \/ Annotates
    BY <2>3, ReplacedKeeps DEF Undisturbed
  <2>4. CASE Creates
    BY <2>4, CreatesOwn DEF Creates, Undisturbed
  <2> QED BY <2>1, <2>2, <2>3, <2>4, QuietSteps
<1> QED BY <1>1, JobStays DEF Undisturbed

LEMMA OtherSteps ==
  ASSUME TypeOK, [Next]_vars, ~ListForTTL, ~ListHistory, ~PassDeletes
  PROVE  /\ todo' = todo \/ todo' = {}
         /\ ~CreateBatchJob => generated' = generated
<1>1. ~DeleteExpired /\ ~DeleteOld
  BY DEF DeleteExpired, DeleteOld, OldestOf, NewestOf, PassDeletes
<1>2. CASE Reconcile
  BY <1>1, <1>2 DEF Reconcile, SkipReconcile, StartReconcile, ConstructBatchJob, MarkExpired,
    ListExisting, CreateBatchJob, BumpCollision, ReportFailure, ReportSuccess, EndPass, passVars
<1>3. CASE ~Reconcile
  BY <1>3 DEF Next, Deliver, Resync, CrashRestart, vars, ctlVars, passVars
<1> QED BY <1>2, <1>3

(* A listing of the store, and what a pass deletes of it.                  *)
LEMMA ListedLeavesOne ==
  ASSUME UniqueUids, NEW V \in SUBSET batch, V # batch
  PROVE  \E b \in batch : \A t \in V : t.uid # b.uid
BY DEF UniqueUids

LEMMA LeavesOneStep ==
  ASSUME ~CachedReads, \A l \in Limits : l >= 1,
         TypeOK, RemainsInv, DoneInv, [Next]_vars
  PROVE  LeavesOne'
<1> USE DEF RemainsInv
<1>1. CASE PassDeletes
  <2>1. PICK c \in todo : DeleteStep(c)
    BY <1>1 DEF PassDeletes
  <2> QED BY <2>1, DeletesOne DEF LeavesOne
<1>2. CASE Creates /\ CreateBatchJob
  <2>1. NewBatchJob \in batch' /\ NewBatchJob.uid = nextUid
    BY <1>2, CreatesOwn DEF Creates
  <2>2. todo' = todo
    BY <1>2 DEF CreateBatchJob, passVars
  <2>3. \A t \in todo : t.uid # nextUid
    <3>1. \A t \in todo : t.uid \in Nat /\ t.uid < nextUid /\ nextUid \in Nat
      BY DEF DoneInv, Known, TypeOK, ClusterTypeOK, BatchJob
    <3> QED BY <3>1
  <2> QED BY <2>1, <2>2, <2>3 DEF LeavesOne
<1>3. CASE ListForTTL
  <2>1. batch' = batch /\ generated' = generated
    BY <1>3 DEF ListForTTL, clusterVars, storeVars
  <2>2. CASE todo' \in TTLVictims(batch)
    BY <2>1, <2>2, TTLKeepsOne, ListedLeavesOne DEF LeavesOne, DoneInv
  <2>3. CASE todo' = todo
    BY <2>1, <2>3 DEF LeavesOne
  <2> QED BY <1>3, <2>2, <2>3 DEF ListForTTL, ReadBatch
<1>4. CASE ListHistory
  <2>1. batch' = batch /\ generated' = generated
    BY <1>4 DEF ListHistory, clusterVars, storeVars
  <2>2. snap.limit \in Int /\ snap.limit >= 1
    <3>1. snap \in Job
      BY <1>4 DEF ListHistory, TypeOK
    <3> QED BY <3>1, LimitAssumption DEF Job
  <2>3. CASE todo' \in HistoryVictims(batch, snap.limit)
    BY <2>1, <2>2, <2>3, HistoryKeepsOne, ListedLeavesOne DEF LeavesOne, DoneInv
  <2>4. CASE todo' = {}
    BY <2>1, <2>4 DEF LeavesOne
  <2> QED BY <1>4, <2>3, <2>4 DEF ListHistory, ReadBatch
<1>5. CASE ~ListForTTL /\ ~ListHistory /\ ~PassDeletes /\ ~(Creates /\ CreateBatchJob)
  <2>1. todo' = todo \/ todo' = {}
    BY <1>5, OtherSteps
  <2>2. \A b \in batch : \E y \in batch' : y.uid = b.uid
    BY <1>5, QuietSteps, ReplacedKeeps
  <2>3. generated' # NoRun => generated # NoRun
    <3>1. CASE CreateBatchJob
      <4>1. ~StoreBatchJob(NextBatchJob(snap, template))
        BY <1>5, <3>1 DEF CreateBatchJob, StoreBatchJob, AddBatch, ChangeBatch, Creates,
          NewBatchJob
      <4> QED BY <3>1, <4>1 DEF CreateBatchJob
    <3>2. CASE ~CreateBatchJob
      BY <1>5, <3>2, OtherSteps
    <3> QED BY <3>1, <3>2
  <2> QED BY <2>1, <2>2, <2>3 DEF LeavesOne
<1> QED BY <1>1, <1>2, <1>3, <1>4, <1>5

LEMMA InitRemains ==
  ASSUME Removals = 0
  PROVE  Init => TypeOK /\ ExpiryInv /\ DoneInv /\ RemainsInv
<1> SUFFICES ASSUME Init PROVE TypeOK /\ ExpiryInv /\ DoneInv /\ RemainsInv
  OBVIOUS
<1>1. TypeOK
  BY InitTypeOK
<1>2. ExpiryInv /\ DoneInv
  BY DEF Init, ClusterInit, ExpiryInv, ExpiryJustified, DoneInv, UniqueUids
<1>3. job.uid = 1 /\ ~job.deleting /\ removals = 0 /\ snap = NoJob /\ batch = {}
      /\ generated = NoRun
  BY DEF Init, ClusterInit
<1>4. job # NoJob
  <2>1. 0 \in 0 .. MaxCollisions
    BY CollisionsAssumption
  <2>2. PICK p \in Params, t \in TTLs, l \in Limits :
          job = [uid |-> 1, params |-> p, ttl |-> t, limit |-> l, collisions |-> 0,
                 cond |-> "unknown", since |-> 0, rv |-> 1, deleting |-> FALSE]
    BY DEF Init, ClusterInit
  <2>3. job \in Job
    BY <2>1, <2>2 DEF Job
  <2> QED BY <2>3, AbsentAssumption
<1>5. IsFiniteSet(batch)
  BY <1>3, FS_EmptySet
<1> QED BY <1>1, <1>2, <1>3, <1>4, <1>5 DEF RemainsInv, Undisturbed, LeavesOne

LEMMA NextRemains ==
  ASSUME ~CachedReads, \A l \in Limits : l >= 1
  PROVE  TypeOK /\ ExpiryInv /\ DoneInv /\ RemainsInv /\ [Next]_vars
           => (TypeOK /\ ExpiryInv /\ DoneInv /\ RemainsInv)'
<1> SUFFICES ASSUME TypeOK, ExpiryInv, DoneInv, RemainsInv, [Next]_vars
             PROVE  (TypeOK /\ ExpiryInv /\ DoneInv /\ RemainsInv)'
  OBVIOUS
<1>1. TypeOK' /\ ExpiryInv'
  BY NextTypeOK, ExpiryStep
<1>2. DoneInv'
  BY <1>1, NextDone
<1>3. Undisturbed' /\ IsFiniteSet(batch') /\ LeavesOne'
  <2>1. Mine(ReadJob)
    BY DEF Mine, ReadJob, RemainsInv, Undisturbed
  <2> QED BY <1>1, <2>1, UndisturbedStep, FiniteSteps, LeavesOneStep DEF RemainsInv
<1> QED BY <1>1, <1>2, <1>3 DEF RemainsInv

(* When the reads are fresh, nobody deletes the Job, its PodProfile or a   *)
(* batch Job, and every history limit is positive: once a batch Job has    *)
(* been generated there is always one, whatever fails and whenever the     *)
(* manager restarts.  The TTL pass keeps one of the batch Jobs it lists,   *)
(* the history pass too, and neither deletes what it did not list.         *)
THEOREM OneAlwaysRemains ==
  ASSUME ~CachedReads, Removals = 0, \A l \in Limits : l >= 1
  PROVE  Spec => []OneRemains
<1>1. RemainsInv => OneRemains
  BY DEF RemainsInv, LeavesOne, OneRemains
<1> QED BY <1>1, InitRemains, NextRemains, PTL DEF Spec

(***************************************************************************)
(* JobPromise.  Beyond the assumptions above, batch Jobs run for a second  *)
(* and expire in the order of their creation.  Then the one generated last *)
(* is strictly the newest in the store and no pass means to delete it.     *)
(***************************************************************************)
IsLast(b) ==
  /\ b.spec = generated.spec
  /\ \A c \in batch : c # b => c.created < b.created
  /\ \A t \in todo : t.uid # b.uid

(* A pass about to create has compared hashes with it.                     *)
Decided ==
  pc = "create" /\ generated # NoRun =>
    SpecHash[generated.spec] # SpecHash[BatchJobSpec(snap, template)]

LastInv ==
  /\ generated = NoRun => batch = {}
  /\ generated # NoRun => \E b \in batch : IsLast(b)
  /\ Decided

LEMMA SpecWanted ==
  ASSUME TypeOK, pc = "create"
  PROVE  /\ [owner |-> NextBatchJob(snap, template).owner,
             spec |-> NextBatchJob(snap, template).spec] \in Run
         /\ NewBatchJob.spec = BatchJobSpec(snap, template)
         /\ NewBatchJob.created = now /\ NewBatchJob.uid = nextUid
         /\ ~NewBatchJob.done /\ ~NewBatchJob.expired
<1>1. snap \in Job /\ template \in Templates /\ snap # NoJob
  BY AbsentAssumption DEF TypeOK, Steps
<1>2. NextBatchJob(snap, template) \in BatchJob
  BY <1>1, NextBatchJobType DEF Job
<1>3. /\ NextBatchJob(snap, template).spec = BatchJobSpec(snap, template)
      /\ ~NextBatchJob(snap, template).done /\ ~NextBatchJob(snap, template).expired
  BY DEF NextBatchJob
<1> QED BY <1>2, <1>3 DEF NewBatchJob, BatchJob, Run

(* The history changes with the creation of a batch Job and only then.     *)
LEMMA CreationIsGenerated ==
  ASSUME TypeOK, Creates, CreateBatchJob
  PROVE  generated' # NoRun /\ generated'.spec = BatchJobSpec(snap, template)
<1>1. nextUid' # nextUid
  BY DEF Creates, TypeOK, ClusterTypeOK
<1>2. generated' = [owner |-> NextBatchJob(snap, template).owner,
                    spec |-> NextBatchJob(snap, template).spec]
  BY <1>1 DEF CreateBatchJob, StoreBatchJob
<1>3. pc = "create"
  BY DEF Creates
<1>4. NextBatchJob(snap, template).spec = BatchJobSpec(snap, template)
  BY DEF NextBatchJob
<1> QED BY <1>2, <1>3, <1>4, SpecWanted, NoRunAssumption

LEMMA OnlyCreationIsGenerated ==
  ASSUME TypeOK, [Next]_vars, ~(Creates /\ CreateBatchJob)
  PROVE  generated' = generated
<1>1. CASE CreateBatchJob
  <2>1. ~StoreBatchJob(NextBatchJob(snap, template))
    BY <1>1 DEF CreateBatchJob, StoreBatchJob, AddBatch, ChangeBatch, Creates, NewBatchJob
  <2> QED BY <1>1, <2>1 DEF CreateBatchJob
<1>2. CASE Reconcile /\ ~CreateBatchJob
  BY <1>2 DEF Reconcile, SkipReconcile, StartReconcile, ConstructBatchJob, ListForTTL,
    MarkExpired, DeleteExpired, ListHistory, DeleteOld, DeleteStep, ListExisting,
    BumpCollision, ReportFailure, ReportSuccess, EndPass
<1>3. CASE ~Reconcile
  BY <1>3 DEF Next, Deliver, Resync, CrashRestart, vars, ctlVars
<1> QED BY <1>1, <1>2, <1>3

(* What a pass is about to create does not change under it.                *)
LEMMA DecisionStays ==
  ASSUME TypeOK, [Next]_vars, pc' = "create"
  PROVE  UNCHANGED <<snap, template, generated>>
<1>1. CASE Reconcile
  BY <1>1 DEF Reconcile, SkipReconcile, StartReconcile, ConstructBatchJob, ListForTTL,
    MarkExpired, DeleteExpired, AfterTTL, ListHistory, DeleteOld, AfterPrune, ListExisting,
    CreateBatchJob, BumpCollision, ReportFailure, ReportSuccess, EndPass, passVars
<1>2. CASE ~Reconcile
  BY <1>2 DEF Next, Deliver, Resync, CrashRestart, vars, ctlVars, passVars
<1> QED BY <1>1, <1>2

(* The latest batch Job of a fresh listing is the one generated last.      *)
LEMMA CreatesOnlyChanged ==
  ASSUME TypeOK, Undisturbed, LastInv, ShouldCreate(batch), generated # NoRun
  PROVE  SpecHash[generated.spec] # SpecHash[BatchJobSpec(snap, template)]
<1>1. PICK b \in batch : IsLast(b)
  BY DEF LastInv
<1>2. \A c \in batch : c.created \in Nat /\ ~c.deleting
  BY DEF TypeOK, ClusterTypeOK, BatchJob, Undisturbed
<1>3. b \in Latest(batch)
  BY <1>1, <1>2 DEF Latest, NewestOf, IsLast
<1>4. PICK c \in Latest(batch) : SpecChanged(c, BatchJobSpec(snap, template))
  BY <1>3 DEF ShouldCreate
<1>5. c = b
  BY <1>1, <1>2, <1>4 DEF Latest, NewestOf, IsLast
<1> QED BY <1>1, <1>4, <1>5 DEF SpecChanged, IsLast

LEMMA DecidedStep ==
  ASSUME ~CachedReads, TypeOK, Undisturbed, LastInv, [Next]_vars
  PROVE  Decided'
<1> SUFFICES ASSUME pc' = "create", generated' # NoRun
             PROVE  SpecHash[generated'.spec] # SpecHash[BatchJobSpec(snap', template')]
  BY DEF Decided
<1>1. UNCHANGED <<snap, template, generated>>
  BY DecisionStays
<1>2. pc = "create" \/ ShouldCreate(batch)
  BY CreateSteps DEF ReadBatch
<1> QED BY <1>1, <1>2, CreatesOnlyChanged DEF LastInv, Decided

(* The history pass spares it.                                             *)
LEMMA HistorySparesLast ==
  ASSUME TypeOK, RemainsInv, UniqueUids, NEW limit \in Int, limit >= 1,
         NEW V \in HistoryVictims(batch, limit),
         NEW b \in batch, IsLast(b)
  PROVE  \A t \in V : t.uid # b.uid
<1> DEFINE F == Finished(batch)
           kept == Max({0, Min({limit, Cardinality(F)})})
<1>1. /\ V \subseteq F /\ Cardinality(F \ V) = kept
      /\ \A d \in V, k \in F \ V : d.created <= k.created
  BY DEF HistoryVictims
<1>2. F \subseteq batch /\ \A c \in batch : c.created \in Nat
  BY DEF Finished, TypeOK, ClusterTypeOK, BatchJob
<1>3. b \notin V
  <2> SUFFICES ASSUME b \in V PROVE FALSE
    OBVIOUS
  <2>1. IsFiniteSet(F) /\ Cardinality(F) \in Nat
    BY <1>2, FS_Subset, FS_CardinalityType DEF RemainsInv
  <2>2. Cardinality(F) >= 1
    BY <1>1, <2>1, FS_EmptySet
  <2>3. kept >= 1
    <3> HIDE DEF F
    <3> QED BY <2>1, <2>2, MinOfTwo, MaxOfZero
  <2>4. PICK k \in F \ V : TRUE
    BY <1>1, <2>3, FS_EmptySet
  <2>5. b.created <= k.created /\ k # b /\ k \in batch
    BY <1>1, <1>2, <2>4
  <2> QED BY <1>2, <2>5 DEF IsLast
<1> HIDE DEF F
<1> QED BY <1>1, <1>2, <1>3 DEF UniqueUids

(***************************************************************************)
(* Expiry, when all TTLs are the same: the batch Jobs of a Job follow one  *)
(* another, so an older one expires first.                                 *)
(***************************************************************************)
AgeInv ==
  /\ now >= 1
  /\ \A b \in batch : b.created <= now
  /\ \A b \in batch : b.done => 0 < b.finishedAt /\ b.created <= b.finishedAt /\ b.finishedAt <= now
  /\ \A b, c \in batch : c.created < b.created => c.done /\ c.finishedAt <= b.created

MarkInv ==
  /\ mark # {} => pc = "mark"
  /\ mark \subseteq batch
  /\ \A b \in mark : b.done /\ ~b.expired

Expires(b) == b.expired \/ b \in mark

OldestFirst == \A b, c \in batch : c.created < b.created /\ Expires(b) => Expires(c)

(* No annotation fails, and the manager does not stop before it, after a   *)
(* newer batch Job has got its own.                                        *)
NoneLeftBehind ==
  \A b \in mark \ mark' :
    b \in batch' => ~\E c \in batch' : c.expired /\ c.created > b.created

LEMMA ReplacedAge ==
  ASSUME TypeOK, AgeInv, now' \in Nat, now <= now',
         NEW b \in batch, NEW c \in BatchJob, Replaced(b, c), c.created = b.created,
         \/ c.done /\ ~b.done /\ c.finishedAt = now
         \/ c.done = b.done /\ c.finishedAt = b.finishedAt
  PROVE  AgeInv'
<1>1. now \in Nat /\ \A x \in batch : x.created \in Nat /\ x.finishedAt \in Nat
  BY DEF TypeOK, ClusterTypeOK, BatchJob
<1>2. \A y \in batch' : y.created <= now'
  BY <1>1 DEF AgeInv, Replaced
<1>3. \A y \in batch' :
        y.done => 0 < y.finishedAt /\ y.created <= y.finishedAt /\ y.finishedAt <= now'
  BY <1>1 DEF AgeInv, Replaced
<1>4. ASSUME NEW x \in batch', NEW y \in batch', y.created < x.created
      PROVE  y.done /\ y.finishedAt <= x.created
  <2>1. PICK z \in batch : z.created = x.created
    BY DEF Replaced
  <2>2. CASE y \in batch
    BY <1>4, <2>1, <2>2 DEF AgeInv
  <2>3. CASE y \notin batch
    <3>1. y = c
      BY <2>3 DEF Replaced
    <3>2. b.done /\ b.finishedAt <= z.created
      BY <1>4, <2>1, <3>1 DEF AgeInv
    <3> QED BY <2>1, <3>1, <3>2
  <2> QED BY <2>2, <2>3
<1> QED BY <1>1, <1>2, <1>3, <1>4 DEF AgeInv

LEMMA AgeStep ==
  ASSUME TypeOK, Undisturbed, RunsInv, AgeInv, [Next]_vars
  PROVE  AgeInv'
<1>0. batch \subseteq BatchJob /\ now \in Nat /\ now' \in Nat /\ now <= now'
  BY TimePasses DEF TypeOK, ClusterTypeOK
<1>1. CASE batch' \subseteq batch
  <2>1. \A b \in batch : b.created \in Nat /\ b.finishedAt \in Nat
    BY <1>0 DEF BatchJob
  <2> QED BY <1>0, <1>1, <2>1 DEF AgeInv
<1>2. CASE Finishes
  <2>1. PICK b : /\ Replaced(b, [b EXCEPT !.done = TRUE, !.finishedAt = now])
                 /\ ~b.done
    BY <1>2 DEF Finishes
  <2> DEFINE c == [b EXCEPT !.done = TRUE, !.finishedAt = now]
  <2>2. b \in batch /\ b \in BatchJob
    BY <1>0, <2>1 DEF Replaced
  <2>3. c \in BatchJob /\ c.created = b.created /\ c.done /\ c.finishedAt = now /\ Replaced(b, c)
    BY <1>0, <2>1, <2>2 DEF BatchJob
  <2> HIDE DEF c
  <2> QED BY <1>0, <2>1, <2>2, <2>3, ReplacedAge
<1>3. CASE Annotates
  <2>1. PICK b : Replaced(b, [b EXCEPT !.expired = TRUE])
    BY <1>3 DEF Annotates
  <2> DEFINE c == [b EXCEPT !.expired = TRUE]
  <2>2. b \in batch /\ b \in BatchJob
    BY <1>0, <2>1 DEF Replaced
  <2>3. /\ c \in BatchJob /\ c.created = b.created /\ c.done = b.done
        /\ c.finishedAt = b.finishedAt /\ Replaced(b, c)
    BY <2>1, <2>2 DEF BatchJob
  <2> HIDE DEF c
  <2> QED BY <1>0, <2>2, <2>3, ReplacedAge
<1>4. CASE Creates
  <2>0. PICK n : n = NewBatchJob
    OBVIOUS
  <2>1. batch' = batch \cup {n} /\ n.created = now /\ ~n.done
    BY <1>4, <2>0, SpecWanted DEF Creates
  <2>2. \A b \in batch : b.done
    BY <1>4 DEF Creates, RunsInv, Running, Undisturbed
  <2>3. \A b \in batch : b.created \in Nat /\ b.finishedAt \in Nat
    BY <1>0 DEF BatchJob
  <2>4. \A b \in batch' : b.created <= now'
    BY <1>0, <2>1, <2>3 DEF AgeInv
  <2>5. \A b \in batch' : b.done =>
          0 < b.finishedAt /\ b.created <= b.finishedAt /\ b.finishedAt <= now'
    BY <1>0, <2>1, <2>3 DEF AgeInv
  <2>6. \A b, c \in batch' : c.created < b.created => c.done /\ c.finishedAt <= b.created
    BY <1>0, <2>1, <2>2, <2>3 DEF AgeInv
  <2> QED BY <1>0, <2>4, <2>5, <2>6 DEF AgeInv
<1>5. CASE PassDeletes
  BY <1>1, <1>5, DeletesOne DEF PassDeletes
<1> QED BY <1>1, <1>2, <1>3, <1>4, <1>5, QuietSteps

LEMMA MarkChanges ==
  ASSUME TypeOK, [Next]_vars, ~ListForTTL, ~MarkExpired
  PROVE  mark' = {} \/ (mark' = mark /\ (pc = "mark" => pc' = "mark"))
<1>1. CASE Reconcile
  BY <1>1 DEF Reconcile, SkipReconcile, StartReconcile, ConstructBatchJob, DeleteExpired,
    ListHistory, DeleteOld, DeleteStep, ListExisting, CreateBatchJob, BumpCollision,
    ReportFailure, ReportSuccess, EndPass, passVars, TakeRequest, Ready
<1>2. CASE ~Reconcile
  BY <1>2 DEF Next, Deliver, Resync, CrashRestart, vars, ctlVars, passVars
<1> QED BY <1>1, <1>2

LEMMA MarkStep ==
  ASSUME ~CachedReads, TypeOK, Undisturbed, MarkInv, [Next]_vars
  PROVE  MarkInv'
<1>1. CASE ListForTTL
  <2>1. batch' = batch
    BY <1>1 DEF ListForTTL, clusterVars, storeVars
  <2>2. CASE mark' = ToExpire(batch, now) /\ pc' = AfterTTL(mark', todo')
    BY <2>1, <2>2 DEF MarkInv, ToExpire, Pending, HasExpireTime, AfterTTL
  <2>3. CASE mark' = mark
    BY <1>1, <2>1, <2>3 DEF MarkInv, ListForTTL
  <2> QED BY <1>1, <2>2, <2>3 DEF ListForTTL, ReadBatch
<1>2. CASE MarkExpired
  <2>1. PICK b \in mark : AddTTLExpiredAnnotation(b) /\ mark' = mark \ {b}
    BY <1>2 DEF MarkExpired, NewestOf
  <2>2. batch \ {b} \subseteq batch'
    BY <2>1 DEF AddTTLExpiredAnnotation, PutBatch, ChangeBatch, BatchUnchanged
  <2>3. pc' = AfterTTL(mark', todo')
    BY <1>2 DEF MarkExpired
  <2> QED BY <2>1, <2>2, <2>3 DEF MarkInv, AfterTTL
<1>3. CASE ~ListForTTL /\ ~MarkExpired
  <2>1. CASE mark' = {}
    BY <2>1 DEF MarkInv
  <2>2. CASE mark # {} /\ mark' = mark /\ pc' = "mark"
    <3>1. pc = "mark"
      BY <2>2 DEF MarkInv
    <3>2. UNCHANGED batch \/ Finishes
      BY <1>3, <3>1, QuietSteps DEF PassDeletes, Creates
    <3>3. mark \subseteq batch'
      BY <3>2 DEF MarkInv, Finishes, Replaced
    <3> QED BY <2>2, <3>3 DEF MarkInv
  <2> QED BY <1>3, <2>1, <2>2, MarkChanges DEF MarkInv
<1> QED BY <1>1, <1>2, <1>3

(* Apart from annotations: what is in the store afterwards was there       *)
(* before, if it had finished exactly as it is, or has just been created.  *)
LEMMA WasThere ==
  ASSUME TypeOK, Undisturbed, [Next]_vars, ~MarkExpired, NEW y \in batch'
  PROVE  \/ \E z \in batch : /\ z.created = y.created /\ z.expired = y.expired
                             /\ z.done => z = y
         \/ pc = "create" /\ y.created = now /\ ~y.expired
<1>0. batch \subseteq BatchJob
  BY DEF TypeOK, ClusterTypeOK
<1>1. CASE batch' \subseteq batch
  BY <1>1
<1>2. CASE Finishes
  <2>1. PICK b : /\ Replaced(b, [b EXCEPT !.done = TRUE, !.finishedAt = now])
                 /\ ~b.done
    BY <1>2 DEF Finishes
  <2> DEFINE c == [b EXCEPT !.done = TRUE, !.finishedAt = now]
  <2>2. b \in batch /\ b \in BatchJob
    BY <1>0, <2>1 DEF Replaced
  <2>3. c.created = b.created /\ c.expired = b.expired /\ Replaced(b, c)
    BY <2>1, <2>2 DEF BatchJob
  <2> HIDE DEF c
  <2> QED BY <2>1, <2>2, <2>3 DEF Replaced
<1>3. CASE Creates
  <2>0. PICK n : n = NewBatchJob
    OBVIOUS
  <2>1. batch' = batch \cup {n} /\ n.created = now /\ ~n.expired /\ pc = "create"
    BY <1>3, <2>0, SpecWanted DEF Creates
  <2> QED BY <2>1
<1>4. CASE PassDeletes
  BY <1>1, <1>4, DeletesOne DEF PassDeletes
<1> QED BY <1>1, <1>2, <1>3, <1>4, QuietSteps

(* What a listing finds expired includes whatever is older.                *)
LEMMA OlderExpires ==
  ASSUME \A s, t \in TTLs : s = t, TypeOK, Undisturbed, AgeInv,
         NEW b \in batch, NEW c \in batch, c.created < b.created, b \in ToExpire(batch, now)
  PROVE  c.expired \/ c \in ToExpire(batch, now)
<1>1. c.done /\ c.finishedAt <= b.created /\ 0 < c.finishedAt /\ b.created <= b.finishedAt
  BY DEF AgeInv, ToExpire, Pending, HasExpireTime
<1>2. b.ttl = c.ttl /\ b.ttl \in Int /\ c.finishedAt \in Nat /\ b.finishedAt \in Nat
      /\ b.created \in Nat /\ now \in Nat
  BY TTLAssumption DEF TypeOK, ClusterTypeOK, BatchJob, ToExpire, Pending, HasExpireTime
<1>3. c.finishedAt + c.ttl <= now
  BY <1>1, <1>2 DEF ToExpire, ExpireAt
<1>4. HasExpireTime(c)
  BY <1>1, <1>2, TTLAssumption DEF HasExpireTime, Undisturbed, ToExpire, Pending
<1> QED BY <1>3, <1>4 DEF ToExpire, Pending, ExpireAt

(* Annotating newest first keeps the order, unless one is left behind.     *)
LEMMA AnnotationKeepsOrder ==
  ASSUME TypeOK, MarkInv, OldestFirst, MarkExpired, NoneLeftBehind
  PROVE  OldestFirst'
<1>0. batch \subseteq BatchJob
  BY DEF TypeOK, ClusterTypeOK
<1>1. PICK b \in NewestOf(mark) : AddTTLExpiredAnnotation(b) /\ mark' = mark \ {b}
  BY DEF MarkExpired
<1>2. b \in mark /\ b \in batch /\ \A c \in mark : c.created <= b.created
  BY <1>1 DEF NewestOf, MarkInv
<1>3. \A x \in batch : x.created \in Nat
  BY <1>0 DEF BatchJob
<1>4. CASE batch' = batch
  <2>1. ~\E c \in batch : c.expired /\ c.created > b.created
    BY <1>1, <1>2, <1>4 DEF NoneLeftBehind
  <2> SUFFICES ASSUME NEW x \in batch, NEW y \in batch, y.created < x.created,
                      x.expired \/ x \in mark \ {b}
               PROVE  y.expired \/ y \in mark \ {b}
    BY <1>1, <1>4 DEF OldestFirst, Expires
  <2>2. y.expired \/ y \in mark
    BY DEF OldestFirst, Expires
  <2>3. y # b
    BY <1>2, <1>3, <2>1
  <2> QED BY <2>2, <2>3
<1>5. CASE PutBatch(b, [b EXCEPT !.expired = TRUE])
  <2> DEFINE c == [b EXCEPT !.expired = TRUE]
  <2>1. c.created = b.created /\ c.expired
    BY <1>0, <1>2 DEF BatchJob
  <2>2. batch' = (batch \ {b}) \cup {c}
    BY <1>5 DEF PutBatch, ChangeBatch
  <2> HIDE DEF c
  <2> SUFFICES ASSUME NEW x \in batch', NEW y \in batch', y.created < x.created,
                      x.expired \/ x \in mark \ {b}
               PROVE  y.expired \/ y \in mark \ {b}
    BY <1>1 DEF OldestFirst, Expires
  <2>3. CASE y = c
    BY <2>1, <2>3
  <2>4. CASE y # c
    <3>1. y \in batch /\ y # b
      BY <2>2, <2>4
    <3>2. PICK z \in batch : z.created = x.created /\ Expires(z)
      <4>1. CASE x = c
        BY <1>2, <2>1, <4>1 DEF Expires
      <4>2. CASE x # c
        BY <2>2, <4>2 DEF Expires
      <4> QED BY <4>1, <4>2
    <3> QED BY <3>1, <3>2 DEF OldestFirst, Expires
  <2> QED BY <2>3, <2>4
<1> QED BY <1>1, <1>4, <1>5 DEF AddTTLExpiredAnnotation, BatchUnchanged

LEMMA OldestFirstStep ==
  ASSUME ~CachedReads, \A s, t \in TTLs : s = t,
         TypeOK, Undisturbed, AgeInv, MarkInv, OldestFirst, [Next]_vars, NoneLeftBehind
  PROVE  OldestFirst'
<1>0. now \in Nat /\ \A b \in batch : b.created \in Nat
  BY DEF TypeOK, ClusterTypeOK, BatchJob
<1>1. CASE ListForTTL
  <2>1. batch' = batch /\ mark = {}
    BY <1>1 DEF ListForTTL, clusterVars, storeVars, MarkInv
  <2>2. mark' = ToExpire(batch, now) \/ mark' = mark
    BY <1>1 DEF ListForTTL, ReadBatch
  <2> QED BY <2>1, <2>2, OlderExpires DEF OldestFirst, Expires
<1>2. CASE MarkExpired
  BY <1>2, AnnotationKeepsOrder
<1>3. CASE ~ListForTTL /\ ~MarkExpired
  <2>1. mark' = {} \/ mark' = mark
    BY <1>3, MarkChanges
  <2> SUFFICES ASSUME NEW x \in batch', NEW y \in batch', y.created < x.created,
                      x.expired \/ x \in mark'
               PROVE  y.expired \/ y \in mark'
    BY DEF OldestFirst, Expires
  <2>2. PICK z \in batch : z.created = x.created /\ Expires(z)
    <3>1. CASE x \in mark'
      BY <2>1, <3>1 DEF MarkInv, Expires
    <3>2. CASE x.expired
      BY <1>3, <3>2, WasThere DEF Expires
    <3> QED BY <3>1, <3>2
  <2>3. PICK w \in batch : w.created = y.created /\ w.expired = y.expired /\ (w.done => w = y)
    BY <1>0, <1>3, <2>2, WasThere DEF AgeInv
  <2>4. w = y /\ Expires(y)
    BY <2>2, <2>3 DEF AgeInv, OldestFirst, Expires
  <2>5. CASE mark' = mark
    BY <2>4, <2>5 DEF Expires
  <2>6. CASE mark' = {}
    BY <1>0, <2>2, <2>3, <2>4, <2>6 DEF Expires, NoneLeftBehind
  <2> QED BY <2>1, <2>5, <2>6
<1> QED BY <1>1, <1>2, <1>3

(* The TTL pass spares it: if it has expired, so have all the others.      *)
LEMMA ExpirySparesLast ==
  ASSUME TypeOK, UniqueUids, OldestFirst, mark = {},
         NEW V \in TTLVictims(batch), NEW b \in batch, IsLast(b)
  PROVE  \A t \in V : t.uid # b.uid
<1> DEFINE E == {c \in batch : c.expired}
<1>1. NewestOf(batch) = {b}
  <2>1. \A c \in batch : c.created \in Nat
    BY DEF TypeOK, ClusterTypeOK, BatchJob
  <2> QED BY <2>1 DEF NewestOf, IsLast
<1>2. V = IF E = batch THEN batch \ {b} ELSE E
  BY <1>1 DEF TTLVictims
<1>3. b.expired => E = batch
  BY DEF OldestFirst, Expires, IsLast
<1> QED BY <1>2, <1>3 DEF UniqueUids

(* A step that leaves the batch Jobs alone does not come to mean it.       *)
LEMMA LastIsSpared ==
  ASSUME ~CachedReads, \A l \in Limits : l >= 1,
         TypeOK, DoneInv, RemainsInv, MarkInv, OldestFirst, [Next]_vars, ~PassDeletes,
         NEW b \in batch, IsLast(b)
  PROVE  \A t \in todo' : t.uid # b.uid
<1>1. CASE ListForTTL
  BY <1>1, ExpirySparesLast DEF ListForTTL, ReadBatch, IsLast, MarkInv, DoneInv
<1>2. CASE ListHistory
  <2>1. snap.limit \in Int /\ snap.limit >= 1
    <3>1. snap \in Job
      BY <1>2 DEF ListHistory, TypeOK
    <3> QED BY <3>1, LimitAssumption DEF Job
  <2> QED BY <1>2, <2>1, HistorySparesLast DEF ListHistory, ReadBatch, DoneInv
<1>3. CASE ~ListForTTL /\ ~ListHistory
  BY <1>3, OtherSteps DEF IsLast
<1> QED BY <1>1, <1>2, <1>3

(* A batch Job that finishes or is annotated keeps what the order and the  *)
(* promise go by.                                                          *)
SameRun(b, c) == b.uid = c.uid /\ b.spec = c.spec /\ b.created = c.created

LEMMA ReplacedIsSameRun ==
  ASSUME TypeOK, Finishes \/ Annotates
  PROVE  \E b, c : /\ Replaced(b, c) /\ SameRun(b, c)
                   /\ \/ ~b.done /\ c.done
                      \/ b.done = c.done
<1>0. batch \subseteq BatchJob
  BY DEF TypeOK, ClusterTypeOK
<1>1. CASE Finishes
  <2>1. PICK b : Replaced(b, [b EXCEPT !.done = TRUE, !.finishedAt = now]) /\ ~b.done
    BY <1>1 DEF Finishes
  <2> DEFINE c == [b EXCEPT !.done = TRUE, !.finishedAt = now]
  <2>2. b \in BatchJob
    BY <1>0, <2>1 DEF Replaced
  <2>3. Replaced(b, c) /\ SameRun(b, c) /\ c.done
    BY <2>1, <2>2 DEF BatchJob, SameRun
  <2> HIDE DEF c
  <2> QED BY <2>1, <2>3
<1>2. CASE Annotates
  <2>1. PICK b : Replaced(b, [b EXCEPT !.expired = TRUE])
    BY <1>2 DEF Annotates
  <2> DEFINE c == [b EXCEPT !.expired = TRUE]
  <2>2. b \in BatchJob
    BY <1>0, <2>1 DEF Replaced
  <2>3. Replaced(b, c) /\ SameRun(b, c) /\ b.done = c.done
    BY <2>1, <2>2 DEF BatchJob, SameRun
  <2> HIDE DEF c
  <2> QED BY <2>3
<1> QED BY <1>1, <1>2

LEMMA LastStep ==
  ASSUME ~CachedReads, \A l \in Limits : l >= 1,
         TypeOK, DoneInv, RunsInv, RemainsInv, MarkInv, OldestFirst, LastInv, [Next]_vars
  PROVE  LastInv'
<1> USE DEF RemainsInv
<1>1. Decided'
  BY DecidedStep
<1>2. CASE PassDeletes
  <2>1. PICK c \in todo : DeleteStep(c)
    BY <1>2 DEF PassDeletes
  <2>2. /\ generated' = generated /\ todo' = todo \ {c} /\ batch' \subseteq batch
        /\ \A b \in batch : b.uid # c.uid => b \in batch'
    BY <2>1, DeletesOne
  <2>3. \A b \in batch : IsLast(b) => b \in batch' /\ IsLast(b)'
    BY <2>2 DEF IsLast
  <2> QED BY <1>1, <2>2, <2>3 DEF LastInv
<1>3. CASE UNCHANGED batch /\ ~PassDeletes /\ ~(Creates /\ CreateBatchJob)
  <2>1. generated' = generated
    BY <1>3, OnlyCreationIsGenerated
  <2>2. \A b \in batch : IsLast(b) => b \in batch' /\ IsLast(b)'
    BY <1>3, <2>1, LastIsSpared DEF IsLast
  <2> QED BY <1>1, <1>3, <2>1, <2>2 DEF LastInv
<1>4. CASE (Finishes \/ Annotates) /\ ~PassDeletes /\ ~(Creates /\ CreateBatchJob)
  <2>1. generated' = generated
    BY <1>4, OnlyCreationIsGenerated
  <2>2. PICK x, y : Replaced(x, y) /\ SameRun(x, y)
    BY <1>4, ReplacedIsSameRun
  <2>3. CASE generated = NoRun
    BY <1>1, <2>1, <2>2, <2>3 DEF LastInv, Replaced
  <2>4. CASE generated # NoRun
    <3>1. PICK b \in batch : IsLast(b)
      BY <2>4 DEF LastInv
    <3>2. \A t \in todo' : t.uid # b.uid
      BY <1>4, <3>1, LastIsSpared
    <3>3. PICK z \in batch' : SameRun(b, z) /\ IF b = x THEN z = y ELSE z = b
      BY <2>2, <3>1 DEF Replaced, SameRun
    <3>4. \A c \in batch' : c # z => c.created < z.created
      BY <2>2, <3>1, <3>3 DEF Replaced, SameRun, IsLast
    <3>5. IsLast(z)'
      BY <2>1, <3>1, <3>2, <3>3, <3>4 DEF IsLast, SameRun
    <3> QED BY <1>1, <2>1, <2>4, <3>3, <3>5 DEF LastInv
  <2> QED BY <2>3, <2>4
<1>5. CASE Creates /\ CreateBatchJob
  <2>0. PICK n : n = NewBatchJob
    OBVIOUS
  <2>1. generated' # NoRun /\ generated'.spec = BatchJobSpec(snap, template)
    BY <1>5, CreationIsGenerated
  <2>2. /\ n.spec = BatchJobSpec(snap, template) /\ n.created = now /\ n.uid = nextUid
        /\ batch' = batch \cup {n}
    BY <1>5, <2>0, SpecWanted DEF Creates
  <2>3. \A b \in batch : b.created < now
    BY <1>5 DEF RunsInv, Running, Undisturbed, Creates
  <2>4. \A t \in todo' : t.uid # nextUid
    <3>1. todo' = todo
      BY <1>5 DEF CreateBatchJob, passVars
    <3>2. \A t \in todo : t.uid \in Nat /\ t.uid < nextUid /\ nextUid \in Nat
      BY DEF DoneInv, Known, TypeOK, ClusterTypeOK, BatchJob
    <3> QED BY <3>1, <3>2
  <2>5. n \in batch' /\ IsLast(n)'
    BY <2>1, <2>2, <2>3, <2>4 DEF IsLast
  <2> QED BY <1>1, <2>1, <2>5 DEF LastInv
<1> QED BY <1>2, <1>3, <1>4, <1>5, QuietSteps

(* Every step is a step of JobPromise or leaves its variables alone.       *)
LEMMA PromiseStep ==
  ASSUME TypeOK, DoneInv, RunsInv, RemainsInv, LastInv, [Next]_vars
  PROVE  [Promise!Next]_(Promise!vars)
<1> USE DEF RemainsInv
<1>1. CASE PassDeletes
  <2>1. PICK c \in todo : DeleteStep(c)
    BY <1>1 DEF PassDeletes
  <2>2. \A x \in batch : x.uid = c.uid => x.done
    BY DEF DoneInv, Known
  <2>3. generated' = generated /\ ((\E b \in batch : ~b.done) <=> \E b \in batch' : ~b.done)
    BY <2>1, <2>2, DeletesOne
  <2> QED BY <2>3 DEF Promise!vars
<1>2. CASE UNCHANGED batch /\ ~(Creates /\ CreateBatchJob)
  BY <1>2, OnlyCreationIsGenerated DEF Promise!vars
<1>3. CASE (Finishes \/ Annotates) /\ ~(Creates /\ CreateBatchJob)
  <2>1. generated' = generated
    BY <1>3, OnlyCreationIsGenerated
  <2>2. PICK x, y : Replaced(x, y) /\ ((~x.done /\ y.done) \/ x.done = y.done)
    BY <1>3, ReplacedIsSameRun
  <2>3. CASE x.done = y.done
    <3>1. (\E b \in batch : ~b.done) <=> \E b \in batch' : ~b.done
      BY <2>2, <2>3 DEF Replaced
    <3> QED BY <2>1, <3>1 DEF Promise!vars
  <2>4. CASE ~x.done /\ y.done
    <3>1. \A b \in batch : b # x => b.done
      BY <2>2, <2>4 DEF RunsInv, Running, Undisturbed, Replaced
    <3>2. (\E b \in batch : ~b.done) /\ ~\E b \in batch' : ~b.done
      BY <2>2, <2>4, <3>1 DEF Replaced
    <3> QED BY <2>1, <3>2 DEF Promise!Next, Promise!Complete
  <2> QED BY <2>2, <2>3, <2>4
<1>4. CASE Creates /\ CreateBatchJob
  <2>1. generated' # NoRun /\ generated'.spec = BatchJobSpec(snap, template)
    BY <1>4, CreationIsGenerated
  <2>2. ~\E b \in batch : ~b.done
    BY <1>4 DEF RunsInv, Running, Undisturbed, Creates
  <2>3. \E b \in batch' : ~b.done
    BY <1>4, SpecWanted DEF Creates
  <2>4. BatchJobSpec(snap, template) \in BatchSpec
    BY <1>4 DEF Creates, BatchJobSpec, BatchSpec, TypeOK, Steps, Job, AbsentAssumption
  <2>5. BatchJobSpec(snap, template) # NoRun
    BY <2>4, NoRunAssumption
  <2>6. generated # NoRun => generated.spec # BatchJobSpec(snap, template)
    BY <1>4 DEF LastInv, Decided, Creates
  <2> QED BY <2>1, <2>2, <2>3, <2>4, <2>5, <2>6 DEF Promise!Next, Promise!Generate
<1> QED BY <1>1, <1>2, <1>3, <1>4, QuietSteps

PromiseInv ==
  /\ TypeOK /\ ExpiryInv /\ DoneInv /\ RunsInv /\ RemainsInv
  /\ AgeInv /\ MarkInv /\ OldestFirst /\ LastInv

LEMMA InitPromise ==
  ASSUME Removals = 0
  PROVE  Init => PromiseInv /\ Promise!Init
<1>1. Init => TypeOK /\ ExpiryInv /\ DoneInv /\ RemainsInv
  BY InitRemains
<1>2. Init => RunsInv /\ LastInv /\ AgeInv /\ MarkInv /\ OldestFirst /\ Promise!Init
  BY DEF Init, ClusterInit, RunsInv, LastInv, Decided, AgeInv, MarkInv, OldestFirst,
         Promise!Init
<1> QED BY <1>1, <1>2 DEF PromiseInv

LEMMA NextPromise ==
  ASSUME ~CachedReads, \A l \in Limits : l >= 1, MinRuntime >= 1, \A s, t \in TTLs : s = t
  PROVE  PromiseInv /\ [Next]_vars /\ [NoneLeftBehind]_vars => PromiseInv'
<1> SUFFICES ASSUME PromiseInv, [Next]_vars, [NoneLeftBehind]_vars PROVE PromiseInv'
  OBVIOUS
<1> USE DEF PromiseInv
<1>1. (TypeOK /\ ExpiryInv /\ DoneInv /\ RemainsInv)'
  BY NextRemains
<1>2. RunsInv' /\ LastInv'
  BY RunsStep, LastStep
<1>3. AgeInv' /\ MarkInv'
  BY AgeStep, MarkStep DEF RemainsInv
<1>4. NoneLeftBehind
  BY DEF NoneLeftBehind, vars, ctlVars, passVars
<1>5. OldestFirst'
  BY <1>4, OldestFirstStep DEF RemainsInv
<1> QED BY <1>1, <1>2, <1>3, <1>5

LEMMA OnlyCreationTakesUid ==
  ASSUME TypeOK, Undisturbed, [Next]_vars, nextUid' # nextUid
  PROVE  CreateBatchJob
<1>1. CASE Reconcile
  BY <1>1 DEF Reconcile, SkipReconcile, StartReconcile, ConstructBatchJob, ListForTTL,
    MarkExpired, DeleteExpired, ListHistory, DeleteOld, DeleteStep, ListExisting,
    BumpCollision, ReportFailure, ReportSuccess, EndPass, clusterVars, storeVars
<1>2. CASE ClusterNext
  BY <1>2 DEF ClusterNext, Users, CreateJob, EditJob, DeleteJob, EditProfile, DeleteBatch,
    Kubernetes, Tick, storeVars, Undisturbed
<1>3. CASE Deliver \/ Resync \/ CrashRestart \/ UNCHANGED vars
  BY <1>3 DEF Deliver, Resync, CrashRestart, vars, clusterVars, storeVars
<1> QED BY <1>1, <1>2, <1>3 DEF Next

(* Where there is no TTL nothing is annotated.                             *)
LEMMA NothingMarked ==
  ASSUME TTLs \subseteq {NoTTL}
  PROVE  Spec => [](mark = {})
<1>1. Init => mark = {}
  BY DEF Init
<1>2. TypeOK /\ mark = {} /\ [Next]_vars => (mark = {})'
  <2> SUFFICES ASSUME TypeOK, mark = {}, [Next]_vars PROVE mark' = {}
    OBVIOUS
  <2>1. ReadBatch \subseteq BatchJob
    BY DEF ReadBatch, TypeOK, ClusterTypeOK
  <2>2. ToExpire(ReadBatch, now) = {}
    BY <2>1 DEF ToExpire, Pending, HasExpireTime, BatchJob
  <2> QED BY <2>2, MarkSteps
<1> QED BY <1>1, <1>2, TypeCorrect, PTL DEF Spec

(* The promise of Job's documentation (api/v1/job_types.go, 329-332): a    *)
(* batch Job the first time, then only with another spec, once the most    *)
(* recent one has completed.  It is kept through edits of the Job and the  *)
(* PodProfile, failing calls, lost answers and restarts, when the reads    *)
(* are fresh, nobody deletes anything, history limits are positive, batch  *)
(* Jobs run for a second at least, the TTL is never changed, and no        *)
(* annotation is given up once a newer batch Job has its own.  The run     *)
(* rerun_annotation shows that the last is needed; a TTL set later has the *)
(* same effect.                                                            *)
THEOREM KeepsPromiseWithTTL ==
  ASSUME ~CachedReads, Removals = 0, \A l \in Limits : l >= 1,
         MinRuntime >= 1, \A s, t \in TTLs : s = t
  PROVE  Spec /\ [][NoneLeftBehind]_vars => KeepsPromise
<1>1. Init => PromiseInv /\ Promise!Init
  BY InitPromise
<1>2. PromiseInv /\ [Next]_vars /\ [NoneLeftBehind]_vars => PromiseInv'
  BY NextPromise
<1>3. PromiseInv /\ [Next]_vars => [Promise!Next]_(Promise!vars)
  BY PromiseStep DEF PromiseInv
<1> QED BY <1>1, <1>2, <1>3, PTL DEF Spec, KeepsPromise, Promise!Spec

(* A run is not repeated because its batch Job was cleaned up: under the   *)
(* same assumptions, two batch Jobs generated in a row differ in the hash  *)
(* of their spec, which is what the code compares (lines 414-450).         *)
THEOREM NeverRunsAgain ==
  ASSUME ~CachedReads, Removals = 0, \A l \in Limits : l >= 1,
         MinRuntime >= 1, \A s, t \in TTLs : s = t
  PROVE  Spec /\ [][NoneLeftBehind]_vars => NoRerun
<1>1. Init => PromiseInv
  BY InitPromise
<1>2. PromiseInv /\ [Next]_vars /\ [NoneLeftBehind]_vars => PromiseInv'
  BY NextPromise
<1> DEFINE Changed ==
      nextUid' # nextUid /\ job' = job /\ generated # NoRun /\ generated.owner = generated'.owner
        => SpecHash[generated.spec] # SpecHash[generated'.spec]
<1>3. PromiseInv /\ [Next]_vars => Changed
  <2> SUFFICES ASSUME PromiseInv, [Next]_vars, nextUid' # nextUid, job' = job,
                      generated # NoRun
               PROVE  SpecHash[generated.spec] # SpecHash[generated'.spec]
    OBVIOUS
  <2>1. CreateBatchJob
    BY OnlyCreationTakesUid DEF PromiseInv, RemainsInv
  <2>2. pc = "create" /\ generated'.spec = NextBatchJob(snap, template).spec
    BY <2>1 DEF CreateBatchJob, StoreBatchJob
  <2>3. generated'.spec = BatchJobSpec(snap, template)
    BY <2>2 DEF NextBatchJob
  <2> QED BY <2>2, <2>3 DEF PromiseInv, LastInv, Decided
<1>4. NoRerun <=> [][Changed]_vars
  BY DEF NoRerun
<1> QED BY <1>1, <1>2, <1>3, <1>4, PTL DEF Spec

(* Without TTLs nothing is annotated, and the promise is kept whatever     *)
(* fails and whenever the manager stops.                                   *)
THEOREM ImplementsPromise ==
  ASSUME ~CachedReads, Removals = 0, \A l \in Limits : l >= 1,
         MinRuntime >= 1, TTLs \subseteq {NoTTL}
  PROVE  Spec => KeepsPromise
<1>1. mark = {} => NoneLeftBehind
  BY DEF NoneLeftBehind
<1>2. Spec => [][NoneLeftBehind]_vars
  BY <1>1, NothingMarked, PTL
<1>3. \A s, t \in TTLs : s = t
  OBVIOUS
<1> QED BY <1>2, <1>3, KeepsPromiseWithTTL

(***************************************************************************)
(* The first batch Job of a Job that nobody deletes, for caches of any     *)
(* age: until it is created there is nothing to find in the store, in the  *)
(* cache or in an event, a pass cannot succeed, and a failed one is        *)
(* followed by another.                                                    *)
(***************************************************************************)
Unstarted ==
  /\ batch = {} /\ cacheBatch = {} /\ batchEvents = <<>>
  /\ pc # "succeeded"
  /\ pc = "idle" => due # Never

FirstInv ==
  /\ Undisturbed
  /\ Mine(cacheJob) /\ \A i \in DOMAIN jobEvents : Mine(jobEvents[i])
  /\ generated # NoRun => generated.owner = 1
  /\ generated = NoRun => Unstarted

LEMMA FirstReads ==
  ASSUME FirstInv
  PROVE  Mine(ReadJob) /\ (generated = NoRun => ReadBatch = {})
BY DEF FirstInv, Undisturbed, Mine, ReadJob, ReadBatch, Unstarted

LEMMA CopiesAreMine ==
  ASSUME TypeOK, TypeOK', CopiesInv, FirstInv, Undisturbed', [Next]_vars
  PROVE  Mine(cacheJob') /\ \A i \in DOMAIN jobEvents' : Mine(jobEvents'[i])
<1>0. Mine(job') /\ jobEvents \in Seq(Job \cup {NoJob})
  BY DEF Undisturbed, Mine, TypeOK, ClusterTypeOK
<1>1. CASE Reconcile \/ (ClusterNext /\ UNCHANGED ctlVars)
  <2>1. Announced /\ cacheJob' = cacheJob
    BY <1>1, ReconcileSteps, ClusterSteps DEF ctlVars, cacheVars
  <2>2. jobEvents' = jobEvents \/ jobEvents' = Append(jobEvents, job')
    BY <2>1 DEF Announced, JobUnchanged
  <2>3. PICK j : j = job'
    OBVIOUS
  <2>4. j \in Job \cup {NoJob}
    BY <2>3 DEF TypeOK, ClusterTypeOK
  <2> QED BY <1>0, <2>1, <2>2, <2>3, <2>4 DEF FirstInv
<1>2. CASE DeliverJob
  <2>1. cacheJob' = jobEvents[1] /\ 1 \in DOMAIN jobEvents
    BY <1>0, <1>2 DEF DeliverJob
  <2>2. \A i \in DOMAIN jobEvents' :
          i + 1 \in DOMAIN jobEvents /\ jobEvents'[i] = jobEvents[i + 1]
    BY <1>0, <1>2 DEF DeliverJob
  <2> QED BY <2>1, <2>2 DEF FirstInv
<1>3. CASE CrashRestart
  BY <1>0, <1>3 DEF CrashRestart, FirstInv, Undisturbed, Mine
<1>4. CASE DeliverProfile \/ DeliverBatch \/ Resync \/ UNCHANGED vars
  BY <1>4 DEF DeliverProfile, DeliverBatch, Resync, FirstInv, vars, clusterVars, storeVars,
    ctlVars, cacheVars
<1> QED BY <1>1, <1>2, <1>3, <1>4 DEF Next, Deliver

(* Only the creation of a batch Job names an owner.                        *)
LEMMA OwnerIsMine ==
  ASSUME TypeOK, FirstInv, [Next]_vars, generated' # NoRun
  PROVE  generated'.owner = 1
<1>1. CASE Creates /\ CreateBatchJob
  <2>1. nextUid' # nextUid
    BY <1>1 DEF Creates, TypeOK, ClusterTypeOK
  <2>2. generated' = [owner |-> NextBatchJob(snap, template).owner,
                      spec |-> NextBatchJob(snap, template).spec]
    BY <1>1, <2>1 DEF CreateBatchJob, StoreBatchJob
  <2>3. snap # NoJob
    BY <1>1 DEF Creates, TypeOK
  <2> QED BY <2>2, <2>3 DEF NextBatchJob, FirstInv, Undisturbed
<1>2. CASE ~(Creates /\ CreateBatchJob)
  BY <1>2, OnlyCreationIsGenerated DEF FirstInv
<1> QED BY <1>1, <1>2

LEMMA StoreStaysEmpty ==
  ASSUME TypeOK, TypeOK', FirstInv, [Next]_vars, generated = NoRun, generated' = NoRun
  PROVE  batch' = {} /\ cacheBatch' = {} /\ batchEvents' = <<>>
<1>1. batch = {} /\ cacheBatch = {} /\ batchEvents = <<>>
  BY DEF FirstInv, Unstarted
<1>2. batch' = {}
  <2>1. ~Finishes /\ ~Annotates
    BY <1>1 DEF Finishes, Annotates, Replaced
  <2>2. ~(Creates /\ CreateBatchJob)
    BY CreationIsGenerated
  <2>3. PassDeletes => batch' \subseteq batch
    BY DeletesOne DEF PassDeletes
  <2> QED BY <1>1, <2>1, <2>2, <2>3, QuietSteps DEF FirstInv
<1>3. cacheBatch' = {}
  BY <1>1, CacheSteps
<1>4. DOMAIN batchEvents' = {}
  <2>1. DOMAIN batchEvents = {}
    BY <1>1
  <2>2. \A i \in DOMAIN batchEvents' : batchEvents'[i].obj \in batch \cup batch'
    BY <2>1, EventSteps DEF NewEvents, EventShows
  <2> QED BY <1>1, <1>2, <2>2
<1>5. batchEvents' = <<>>
  BY <1>4 DEF TypeOK, ClusterTypeOK
<1> QED BY <1>2, <1>3, <1>5

LEMMA WorkIsLeft ==
  ASSUME TypeOK, FirstInv, [Next]_vars, generated = NoRun, generated' = NoRun
  PROVE  pc' # "succeeded" /\ (pc' = "idle" => due' # Never)
<1>0. pc # "succeeded" /\ (pc = "idle" => due # Never) /\ ReadBatch = {} /\ Live(ReadJob)
      /\ batchEvents = <<>>
  BY FirstReads DEF FirstInv, Unstarted, Live, Mine
<1>1. CASE Reconcile
  <2>1. CASE SkipReconcile
    BY <1>0, <2>1 DEF SkipReconcile, Enqueue, Never
  <2>2. CASE ListExisting
    <3>1. ~ShouldSkip(ReadBatch)
      BY <1>0 DEF ShouldSkip, Latest, NewestOf
    <3> QED BY <2>2, <3>1 DEF ListExisting
  <2>3. CASE CreateBatchJob
    <3>1. ~StoreBatchJob(NextBatchJob(snap, template))
      <4>1. ~(Creates /\ CreateBatchJob)
        BY CreationIsGenerated
      <4> QED BY <2>3, <4>1 DEF CreateBatchJob, StoreBatchJob, AddBatch, ChangeBatch, Creates,
                                NewBatchJob
    <3> QED BY <2>3, <3>1 DEF CreateBatchJob
  <2>4. CASE ReportFailure
    BY <2>4 DEF ReportFailure, EndPass, Enqueue, Never
  <2>5. CASE ReportSuccess
    BY <1>0, <2>5 DEF ReportSuccess
  <2>6. CASE \/ StartReconcile \/ ConstructBatchJob \/ ListForTTL \/ MarkExpired \/ DeleteExpired
             \/ ListHistory \/ DeleteOld \/ BumpCollision
    BY <2>6 DEF StartReconcile, ConstructBatchJob, ListForTTL, MarkExpired, DeleteExpired,
      ListHistory, DeleteOld, BumpCollision, AfterTTL, AfterPrune
  <2> QED BY <1>1, <2>1, <2>2, <2>3, <2>4, <2>5, <2>6 DEF Reconcile
<1>2. CASE Deliver
  BY <1>0, <1>2 DEF Deliver, DeliverJob, DeliverProfile, DeliverBatch, Enqueue, Never
<1>3. CASE CrashRestart
  BY <1>3 DEF CrashRestart, FirstInv, Undisturbed, Never
<1>4. CASE Resync \/ UNCHANGED ctlVars \/ UNCHANGED vars
  BY <1>0, <1>4 DEF Resync, Enqueue, Never, vars, ctlVars
<1> QED BY <1>1, <1>2, <1>3, <1>4 DEF Next

(* "When it generates the jobs.v1.batch for the first time" (job_types.go, *)
(* 331): as long as users delete nothing, the controller never comes to    *)
(* rest before the Job has its first batch Job, however far the caches     *)
(* lag, whichever calls fail and events are dropped, whenever the manager  *)
(* restarts and however late the PodProfile is created.  The run           *)
(* recreated_job shows that deletions matter.                              *)
THEOREM FirstIsGenerated ==
  ASSUME Removals = 0
  PROVE  Spec => []GeneratesFirst
<1> DEFINE Inv == TypeOK /\ CopiesInv /\ FirstInv
<1>1. Init => Inv
  <2> SUFFICES ASSUME Init PROVE Inv
    OBVIOUS
  <2>1. TypeOK /\ CopiesInv /\ Undisturbed
    BY InitTypeOK, InitCopies, InitRemains DEF RemainsInv
  <2>2. cacheJob = job /\ jobEvents = <<>> /\ generated = NoRun /\ Unstarted
    BY DEF Init, ClusterInit, Unstarted, Never
  <2> QED BY <2>1, <2>2 DEF FirstInv, Undisturbed, Mine
<1>2. Inv /\ [Next]_vars => Inv'
  <2> SUFFICES ASSUME Inv, [Next]_vars PROVE Inv'
    OBVIOUS
  <2>1. TypeOK' /\ CopiesInv'
    BY NextTypeOK, NextCopies
  <2>2. Undisturbed'
    BY <2>1, FirstReads, UndisturbedStep DEF FirstInv
  <2>3. Mine(cacheJob') /\ \A i \in DOMAIN jobEvents' : Mine(jobEvents'[i])
    BY <2>1, <2>2, CopiesAreMine
  <2>4. generated' # NoRun => generated'.owner = 1
    BY OwnerIsMine
  <2>5. generated' = NoRun => generated = NoRun
    BY CreationIsGenerated, OnlyCreationIsGenerated
  <2>6. generated' = NoRun => Unstarted'
    BY <2>1, <2>5, StoreStaysEmpty, WorkIsLeft DEF Unstarted
  <2> QED BY <2>1, <2>2, <2>3, <2>4, <2>6 DEF FirstInv, Mine
<1>3. Inv => GeneratesFirst
  BY DEF FirstInv, Undisturbed, Unstarted, GeneratesFirst, Quiescent
<1> HIDE DEF Inv
<1> QED BY <1>1, <1>2, <1>3, PTL DEF Spec
=============================================================================
