------------------------ MODULE JobControllerProofs ------------------------
(***************************************************************************)
(* Invariants of JobController for every value of its constants.           *)
(***************************************************************************)
EXTENDS JobController, BatchJobsProofs

(***************************************************************************)
(* Type correctness.                                                       *)
(***************************************************************************)
LEMMA InitTypeOK == Init => TypeOK
<1> SUFFICES ASSUME Init PROVE TypeOK
  OBVIOUS
<1> USE DEF Init, ClusterInit
<1>1. job \in Job
  <2>1. PICK p \in Params, t \in TTLs, l \in Limits :
          job = [uid |-> 1, params |-> p, ttl |-> t, limit |-> l, collisions |-> 0,
                 cond |-> "unknown", since |-> 0, rv |-> 1, deleting |-> FALSE]
    OBVIOUS
  <2>2. 0 \in 0 .. MaxCollisions
    BY CollisionsAssumption
  <2> QED BY <2>1, <2>2 DEF Job
<1>2. ClusterTypeOK
  BY <1>1, BoundAssumption DEF ClusterTypeOK
<1>3. cacheJob = job /\ cacheProfile \in Templates \cup {NoProfile} /\ cacheBatch \subseteq BatchJob
  BY <1>1
<1> QED BY <1>1, <1>2, <1>3, FaultAssumption DEF TypeOK, Steps

(* The store's own operations write values of the right type.              *)
LEMMA PutJobType ==
  ASSUME TypeOK, NEW j \in Job \cup {NoJob}, PutJob(j)
  PROVE  job' \in Job \cup {NoJob} /\ jobEvents' \in Seq(Job \cup {NoJob})
BY DEF PutJob, TypeOK, ClusterTypeOK

LEMMA UpdateJobType ==
  ASSUME TypeOK, NEW j \in Job, UpdateJob(j)
  PROVE  job' \in Job /\ jobEvents' \in Seq(Job \cup {NoJob})
<1>1. [j EXCEPT !.rv = @ + 1] \in Job
  BY DEF Job
<1> QED BY <1>1, PutJobType DEF UpdateJob, PutJob

LEMMA ChangeBatchType ==
  ASSUME TypeOK, NEW old, NEW new \in SUBSET BatchJob, NEW e \in BatchEvent,
         ChangeBatch(old, new, e)
  PROVE  batch' \subseteq BatchJob /\ batchEvents' \in Seq(BatchEvent)
BY DEF ChangeBatch, TypeOK, ClusterTypeOK

LEMMA PutBatchType ==
  ASSUME TypeOK, NEW old, NEW new \in BatchJob, PutBatch(old, new)
  PROVE  batch' \subseteq BatchJob /\ batchEvents' \in Seq(BatchEvent)
<1>1. [gone |-> FALSE, obj |-> new] \in BatchEvent
  BY DEF BatchEvent
<1> QED BY <1>1, ChangeBatchType DEF PutBatch

LEMMA DropBatchType ==
  ASSUME TypeOK, NEW b \in BatchJob, DropBatch(b)
  PROVE  batch' \subseteq BatchJob /\ batchEvents' \in Seq(BatchEvent)
<1>1. [gone |-> TRUE, obj |-> b] \in BatchEvent
  BY DEF BatchEvent
<1> QED BY <1>1, ChangeBatchType DEF DropBatch

LEMMA UsersType ==
  ASSUME TypeOK, Users
  PROVE  ClusterTypeOK'
<1> USE DEF TypeOK, ClusterTypeOK, JobUnchanged, ProfileUnchanged, BatchUnchanged
<1>1. CASE CreateJob
  <2>1. PICK p \in Params, t \in TTLs, l \in Limits : PutJob(NewJob(p, t, l))
    BY <1>1 DEF CreateJob
  <2>2. NewJob(p, t, l) \in Job
    BY CollisionsAssumption DEF NewJob, Job
  <2> QED BY <1>1, <2>1, <2>2, PutJobType DEF CreateJob, Edit
<1>2. CASE EditJob
  <2>1. PICK p \in Params, t \in TTLs, l \in Limits :
          UpdateJob([job EXCEPT !.params = p, !.ttl = t, !.limit = l])
    BY <1>2 DEF EditJob
  <2>2. [job EXCEPT !.params = p, !.ttl = t, !.limit = l] \in Job
    BY <1>2 DEF EditJob, Job
  <2> QED BY <1>2, <2>1, <2>2, UpdateJobType DEF EditJob, Edit
<1>3. CASE DeleteJob
  <2>1. job \in Job /\ [job EXCEPT !.deleting = TRUE] \in Job
    BY <1>3 DEF DeleteJob, Job
  <2> QED BY <1>3, <2>1, PutJobType, UpdateJobType DEF DeleteJob, Remove
<1>4. CASE EditProfile
  <2>1. PICK p \in Templates \cup {NoProfile} : PutProfile(p)
    BY <1>4 DEF EditProfile
  <2>2. profile' \in Templates \cup {NoProfile}
         /\ profileEvents' \in Seq(Templates \cup {NoProfile})
    BY <2>1 DEF PutProfile
  <2> QED BY <1>4, <2>2 DEF EditProfile, Edit, Remove
<1>5. CASE \E b \in batch : DeleteBatch(b)
  <2>1. PICK b \in batch : DeleteBatch(b)
    BY <1>5
  <2>2. b \in BatchJob /\ [b EXCEPT !.deleting = TRUE] \in BatchJob
    BY DEF BatchJob
  <2> QED BY <2>1, <2>2, PutBatchType, DropBatchType DEF DeleteBatch, Remove
<1> QED BY <1>1, <1>2, <1>3, <1>4, <1>5 DEF Users

LEMMA KubernetesType ==
  ASSUME TypeOK, Kubernetes
  PROVE  ClusterTypeOK'
<1> USE DEF TypeOK, ClusterTypeOK, Kubernetes, JobUnchanged, ProfileUnchanged, BatchUnchanged
<1>1. CASE \E b \in batch : FinishBatch(b)
  <2>1. PICK b \in batch : FinishBatch(b)
    BY <1>1
  <2>2. b \in BatchJob /\ [b EXCEPT !.done = TRUE, !.finishedAt = now] \in BatchJob
    BY DEF BatchJob
  <2> QED BY <2>1, <2>2, PutBatchType DEF FinishBatch
<1>2. CASE \E b \in batch : CollectGarbage(b)
  <2>1. PICK b \in batch : CollectGarbage(b)
    BY <1>2
  <2>2. b \in BatchJob /\ [b EXCEPT !.deleting = TRUE] \in BatchJob
    BY DEF BatchJob
  <2> QED BY <2>1, <2>2, PutBatchType, DropBatchType DEF CollectGarbage
<1>3. CASE FinalizeJob
  BY <1>3, PutJobType DEF FinalizeJob
<1> QED BY <1>1, <1>2, <1>3 DEF Kubernetes

LEMMA UpdateStatusType ==
  ASSUME TypeOK, NEW copy \in Job, UpdateStatus(copy)
  PROVE  job' \in Job /\ jobEvents' \in Seq(Job \cup {NoJob})
<1> DEFINE updated == [job EXCEPT !.collisions = copy.collisions,
                                  !.cond = copy.cond, !.since = copy.since]
<1>1. job \in Job
  BY DEF UpdateStatus, Current, TypeOK, ClusterTypeOK
<1>2. updated \in Job
  BY <1>1 DEF Job
<1>3. JobUnchanged \/ UpdateJob(updated)
  BY DEF UpdateStatus
<1> HIDE DEF updated
<1>4. CASE JobUnchanged
  BY <1>1, <1>4 DEF JobUnchanged, TypeOK, ClusterTypeOK
<1>5. CASE UpdateJob(updated)
  BY <1>2, <1>5, UpdateJobType
<1> QED BY <1>3, <1>4, <1>5

LEMMA DeleteStepType ==
  ASSUME TypeOK, NEW b \in todo, DeleteStep(b), pc \in Steps, pc' \in Steps,
         pc # "idle" /\ template # NoProfile
  PROVE  TypeOK'
<1> USE DEF TypeOK, ClusterTypeOK, DeleteStep, cacheVars, JobUnchanged, ProfileUnchanged,
           BatchUnchanged
<1>1. batch' \subseteq BatchJob /\ batchEvents' \in Seq(BatchEvent)
  <2>1. CASE \E x \in batch : DropBatch(x)
    BY <2>1, DropBatchType
  <2>2. CASE BatchUnchanged
    BY <2>2
  <2> QED BY <2>1, <2>2 DEF Delete, Swallow
<1>2. dropped' \subseteq {"call", "event"}
  BY Zenon DEF Delete, Swallow
<1>3. faults' \in Nat
  BY DEF Delete, Swallow, Fault
<1> QED BY <1>1, <1>2, <1>3

LEMMA ReconcileType ==
  ASSUME TypeOK, Reconcile
  PROVE  TypeOK'
<1> USE DEF TypeOK, ClusterTypeOK, clusterVars, storeVars, cacheVars, passVars, boundVars,
            JobUnchanged, ProfileUnchanged, BatchUnchanged, Steps
<1>1. CASE SkipReconcile
  BY <1>1 DEF SkipReconcile, TakeRequest, Ready, Fault, Enqueue
<1>2. CASE StartReconcile
  <2>1. ReadJob \in Job
    BY <1>2 DEF StartReconcile, ReadJob, Live
  <2>2. MarkAvailable(ReadJob) \in Job
    BY <2>1 DEF MarkAvailable, Job
  <2> QED BY <1>2, <2>2, AbsentAssumption DEF StartReconcile, TakeRequest, Ready
<1>3. CASE ConstructBatchJob
  BY <1>3 DEF ConstructBatchJob, Constructible, ReadProfile, Fault
<1>4. CASE ListForTTL
  <2>1. ReadBatch \in SUBSET BatchJob
    BY DEF ReadBatch
  <2>2. CASE Swallow("call") /\ pc' = "prune" /\ UNCHANGED <<mark, todo, wait>>
    BY <1>4, <2>2 DEF ListForTTL, Swallow, Fault
  <2>3. CASE ~(Swallow("call") /\ pc' = "prune" /\ UNCHANGED <<mark, todo, wait>>)
    <3> DEFINE delays == Delays(ReadBatch, now)
    <3>1. /\ mark' = ToExpire(ReadBatch, now)
          /\ todo' \in TTLVictims(ReadBatch)
          /\ wait' = IF delays = {} THEN 0 ELSE Min(delays)
          /\ pc' = AfterTTL(mark', todo')
          /\ UNCHANGED <<faults, dropped>>
      BY <1>4, <2>3 DEF ListForTTL
    <3>2. mark' \subseteq BatchJob
      BY <3>1, <2>1, ToExpireJustified
    <3>3. todo' \subseteq BatchJob
      BY <3>1, <2>1, TTLKeepsOne
    <3>4. delays \subseteq Nat
      BY <2>1, DelaysNat
    <3>5. wait' \in Nat
      <4> HIDE DEF delays
      <4> QED BY <3>1, <3>4, MinNat
    <3>6. pc' \in {"mark", "sweep", "prune"}
      BY <3>1 DEF AfterTTL
    <3> QED BY <1>4, <3>1, <3>2, <3>3, <3>5, <3>6 DEF ListForTTL
  <2> QED BY <2>2, <2>3
<1>5. CASE MarkExpired
  <2>1. PICK b \in NewestOf(mark) : AddTTLExpiredAnnotation(b) /\ mark' = mark \ {b}
    BY <1>5 DEF MarkExpired
  <2>2. b \in BatchJob /\ [b EXCEPT !.expired = TRUE] \in BatchJob
    BY DEF NewestOf, BatchJob
  <2>3. batch' \subseteq BatchJob /\ batchEvents' \in Seq(BatchEvent)
    BY <2>1, <2>2, PutBatchType DEF AddTTLExpiredAnnotation
  <2>4. dropped' \subseteq {"call", "event"}
    BY <2>1, Zenon DEF AddTTLExpiredAnnotation, Swallow
  <2>6. faults' \in Nat
    BY <2>1 DEF AddTTLExpiredAnnotation, Swallow, Fault
  <2>5. pc' \in {"mark", "sweep", "prune"}
    BY <1>5 DEF MarkExpired, AfterTTL
  <2> QED BY <1>5, <2>1, <2>3, <2>4, <2>5, <2>6 DEF MarkExpired
<1>6. CASE DeleteExpired
  <2>1. PICK b \in todo : DeleteStep(b)
    BY <1>6 DEF DeleteExpired, OldestOf
  <2>2. pc' \in {"mark", "sweep", "prune"} /\ pc = "sweep"
    BY <1>6 DEF DeleteExpired, AfterTTL
  <2> QED BY <2>1, <2>2, DeleteStepType
<1>7. CASE ListHistory
  <2>1. ReadBatch \in SUBSET BatchJob
    BY DEF ReadBatch
  <2>2. todo' \subseteq BatchJob
    BY <1>7, <2>1, HistoryVictimsFinished DEF ListHistory
  <2>3. dropped' \subseteq {"call", "event"}
    BY <1>7, Zenon DEF ListHistory, Swallow
  <2>5. faults' \in Nat
    BY <1>7 DEF ListHistory, Swallow, Fault
  <2>4. pc' \in {"pruning", "list"}
    BY <1>7 DEF ListHistory, AfterPrune
  <2> QED BY <1>7, <2>2, <2>3, <2>4, <2>5 DEF ListHistory
<1>8. CASE DeleteOld
  <2>1. PICK b \in todo : DeleteStep(b)
    BY <1>8 DEF DeleteOld, NewestOf
  <2>2. pc' \in {"pruning", "list"} /\ pc = "pruning"
    BY <1>8 DEF DeleteOld, AfterPrune
  <2> QED BY <2>1, <2>2, DeleteStepType
<1>9. CASE ListExisting
  BY <1>9 DEF ListExisting, Fault
<1>10. CASE CreateBatchJob
  <2> DEFINE b == NextBatchJob(snap, template)
  <2>1. snap \in Job /\ template \in Templates
    BY <1>10 DEF CreateBatchJob
  <2>2. b \in BatchJob
    BY <2>1, NextBatchJobType DEF Job
  <2>3. ASSUME StoreBatchJob(b)
        PROVE  /\ batch' \subseteq BatchJob /\ batchEvents' \in Seq(BatchEvent)
               /\ nextUid' \in Nat
               /\ generated' \in Run
    <3> HIDE DEF b
    <3> DEFINE c == [b EXCEPT !.uid = nextUid, !.created = now]
    <3>1. c \in BatchJob
      BY <2>2 DEF BatchJob
    <3>2. [gone |-> FALSE, obj |-> c] \in BatchEvent
      BY <3>1 DEF BatchEvent
    <3>3. ChangeBatch({}, {c}, [gone |-> FALSE, obj |-> c])
      BY <2>3 DEF StoreBatchJob, AddBatch
    <3>4. batch' \subseteq BatchJob /\ batchEvents' \in Seq(BatchEvent)
      <4> HIDE DEF c
      <4> QED BY <3>1, <3>2, <3>3, ChangeBatchType
    <3>5. generated' \in Run
      BY <2>2, <2>3 DEF StoreBatchJob, BatchJob, Run
    <3> QED BY <2>3, <3>4, <3>5 DEF StoreBatchJob
  <2>4. StoreBatchJob(b) \/ (BatchUnchanged /\ UNCHANGED <<nextUid, generated>>)
    BY <1>10 DEF CreateBatchJob
  <2>5. /\ batch' \subseteq BatchJob /\ batchEvents' \in Seq(BatchEvent)
        /\ nextUid' \in Nat
        /\ generated' \in Run \cup {NoRun}
    <3> HIDE DEF b
    <3> QED BY <2>3, <2>4
  <2>6. faults' \in Nat /\ pc' \in {"succeeded", "bump", "failed"}
    BY <1>10 DEF CreateBatchJob, Fault
  <2> QED BY <1>10, <2>1, <2>5, <2>6 DEF CreateBatchJob
<1>11. CASE BumpCollision
  <2> DEFINE bumped == [snap EXCEPT !.collisions = @ + 1]
  <2>1. snap \in Job
    BY <1>11 DEF BumpCollision
  <2>2. bumped \in Job
    <3>1. snap.collisions + 1 \in 0 .. MaxCollisions
      BY <1>11, <2>1, CollisionsAssumption DEF BumpCollision, Job
    <3> QED BY <2>1, <3>1 DEF Job
  <2>3. \/ UpdateStatus(bumped) /\ snap' = job' /\ UNCHANGED faults
        \/ snap' = bumped /\ JobUnchanged /\ UNCHANGED faults
        \/ Fault /\ snap' = bumped /\ JobUnchanged
    BY <1>11 DEF BumpCollision
  <2>4. /\ job' \in Job \cup {NoJob} /\ jobEvents' \in Seq(Job \cup {NoJob})
        /\ snap' \in Job /\ faults' \in Nat
    <3> HIDE DEF bumped
    <3> QED BY <2>2, <2>3, UpdateStatusType DEF Fault
  <2> QED BY <1>11, <2>4, AbsentAssumption DEF BumpCollision
<1>12. CASE ReportFailure
  <2> DEFINE failed == [snap EXCEPT !.cond = "failed", !.since = now]
  <2>1. failed \in Job
    BY <1>12 DEF ReportFailure, Job
  <2>2. \/ UpdateStatus(failed) /\ UNCHANGED faults
        \/ JobUnchanged /\ UNCHANGED faults
        \/ Fault /\ JobUnchanged
    BY <1>12 DEF ReportFailure
  <2>3. job' \in Job \cup {NoJob} /\ jobEvents' \in Seq(Job \cup {NoJob}) /\ faults' \in Nat
    <3> HIDE DEF failed
    <3> QED BY <2>1, <2>2, UpdateStatusType DEF Fault
  <2> QED BY <1>12, <2>3 DEF ReportFailure, EndPass, Enqueue
<1>13. CASE ReportSuccess
  <2>1. snap \in Job
    BY <1>13 DEF ReportSuccess
  <2>2. \/ UpdateStatus(snap) /\ UNCHANGED faults
        \/ JobUnchanged /\ UNCHANGED faults
        \/ Fault /\ JobUnchanged
    BY <1>13 DEF ReportSuccess
  <2>3. job' \in Job \cup {NoJob} /\ jobEvents' \in Seq(Job \cup {NoJob}) /\ faults' \in Nat
    BY <2>1, <2>2, UpdateStatusType DEF Fault
  <2>4. due' \in Nat \cup {Never}
    BY <1>13 DEF ReportSuccess, Enqueue, Sooner
  <2> QED BY <1>13, <2>3, <2>4 DEF ReportSuccess, EndPass
<1> QED BY <1>1, <1>2, <1>3, <1>4, <1>5, <1>6, <1>7, <1>8, <1>9, <1>10, <1>11, <1>12, <1>13
        DEF Reconcile

LEMMA DeliverType ==
  ASSUME TypeOK, Deliver
  PROVE  TypeOK'
<1> USE DEF TypeOK, ClusterTypeOK, Deliver, passVars, boundVars
<1>1. CASE DeliverJob
  BY <1>1 DEF DeliverJob, Enqueue
<1>2. CASE DeliverProfile
  <2>1. dropped' \subseteq {"call", "event"}
    BY <1>2, Zenon DEF DeliverProfile, Swallow
  <2>2. faults' \in Nat /\ due' \in Nat \cup {Never}
    BY <1>2 DEF DeliverProfile, Swallow, Fault, Enqueue
  <2> QED BY <1>2, <2>1, <2>2 DEF DeliverProfile
<1>3. CASE DeliverBatch
  <2>1. Head(batchEvents).obj \in BatchJob
    <3>1. Head(batchEvents) \in BatchEvent
      BY <1>3 DEF DeliverBatch
    <3> QED BY <3>1 DEF BatchEvent
  <2>2. cacheBatch' \subseteq BatchJob
    BY <1>3, <2>1 DEF DeliverBatch
  <2>3. batchEvents' \in Seq(BatchEvent)
    BY <1>3 DEF DeliverBatch
  <2>4. due' \in Nat \cup {Never}
    BY <1>3 DEF DeliverBatch, Enqueue
  <2> QED BY <1>3, <2>2, <2>3, <2>4 DEF DeliverBatch
<1> QED BY <1>1, <1>2, <1>3 DEF Deliver

LEMMA NextTypeOK == TypeOK /\ [Next]_vars => TypeOK'
<1> SUFFICES ASSUME TypeOK, [Next]_vars PROVE TypeOK'
  OBVIOUS
<1> USE DEF vars, ctlVars, clusterVars, storeVars, cacheVars, passVars, boundVars
<1>1. CASE Reconcile
  BY <1>1, ReconcileType
<1>2. CASE Deliver
  BY <1>2, DeliverType
<1>3. CASE Resync
  BY <1>3 DEF Resync, Enqueue, TypeOK, ClusterTypeOK
<1>4. CASE CrashRestart
  <2>1. ClusterTypeOK'
    BY <1>4 DEF CrashRestart, TypeOK, ClusterTypeOK
  <2>2. /\ cacheJob' \in Job \cup {NoJob}
        /\ cacheProfile' \in Templates \cup {NoProfile}
        /\ cacheBatch' \subseteq BatchJob
        /\ due' \in Nat \cup {Never}
        /\ generated' \in Run \cup {NoRun}
        /\ faults' \in Nat /\ crashes' \in Nat
    BY <1>4 DEF CrashRestart, TypeOK, ClusterTypeOK
  <2> QED BY <1>4, <2>1, <2>2 DEF CrashRestart, TypeOK, Steps
<1>5. CASE ClusterNext /\ UNCHANGED ctlVars
  <2>1. ClusterTypeOK'
    <3>1. CASE Tick
      BY <3>1 DEF Tick, TypeOK, ClusterTypeOK
    <3> QED BY <1>5, <3>1, UsersType, KubernetesType DEF ClusterNext
  <2> QED BY <1>5, <2>1 DEF TypeOK
<1>6. CASE UNCHANGED vars
  BY <1>6 DEF TypeOK, ClusterTypeOK
<1> QED BY <1>1, <1>2, <1>3, <1>4, <1>5, <1>6 DEF Next

(* Every variable of the cluster and of the controller keeps its type: in  *)
(* particular the collision count stays in its range and a pass that needs *)
(* a Job or a template has one, although it takes them from copies.        *)
THEOREM TypeCorrect == Spec => []TypeOK
<1> QED BY InitTypeOK, NextTypeOK, PTL DEF Spec
-----------------------------------------------------------------------------
(***************************************************************************)
(* What a step may do to the batch Jobs in the store: remove one, set one  *)
(* of its three marks, or create one at the end of a pass.                 *)
(***************************************************************************)
Replaced(b, c) == b \in batch /\ batch' = (batch \ {b}) \cup {c}

Removes == batch' \subseteq batch
StartsDeletion == \E b : Replaced(b, [b EXCEPT !.deleting = TRUE])
Finishes == \E b : /\ Replaced(b, [b EXCEPT !.done = TRUE, !.finishedAt = now])
                   /\ ~b.done /\ now >= b.created + MinRuntime
Annotates == pc = "mark" /\ \E b \in mark : Replaced(b, [b EXCEPT !.expired = TRUE])

NewBatchJob == [NextBatchJob(snap, template) EXCEPT !.uid = nextUid, !.created = now]
Creates ==
  /\ pc = "create" /\ pc' # "create"
  /\ batch' = batch \cup {NewBatchJob}
  /\ nextUid' = nextUid + 1

LEMMA BatchSteps ==
  ASSUME TypeOK, [Next]_vars
  PROVE  Removes \/ StartsDeletion \/ Finishes \/ Annotates \/ Creates
<1> USE DEF BatchUnchanged, ChangeBatch, PutBatch, DropBatch, Replaced
<1>1. CASE UNCHANGED batch
  BY <1>1 DEF Removes
<1>2. CASE Users
  <2>1. CASE \E b \in batch : DeleteBatch(b)
    <3>1. PICK b \in batch : DeleteBatch(b)
      BY <2>1
    <3>2. CASE DropBatch(b)
      BY <3>2 DEF Removes
    <3>3. CASE PutBatch(b, [b EXCEPT !.deleting = TRUE])
      BY <3>3 DEF StartsDeletion
    <3> QED BY <3>1, <3>2, <3>3 DEF DeleteBatch
  <2>2. CASE CreateJob \/ EditJob \/ DeleteJob \/ EditProfile
    BY <2>2, <1>1 DEF CreateJob, EditJob, DeleteJob, EditProfile
  <2> QED BY <1>2, <2>1, <2>2 DEF Users
<1>3. CASE Kubernetes
  <2>1. CASE \E b \in batch : FinishBatch(b)
    BY <2>1 DEF FinishBatch, Finishes
  <2>2. CASE \E b \in batch : CollectGarbage(b)
    <3>1. PICK b \in batch : CollectGarbage(b)
      BY <2>2
    <3>2. CASE DropBatch(b)
      BY <3>2 DEF Removes
    <3>3. CASE PutBatch(b, [b EXCEPT !.deleting = TRUE])
      BY <3>3 DEF StartsDeletion
    <3> QED BY <3>1, <3>2, <3>3 DEF CollectGarbage
  <2>3. CASE FinalizeJob
    BY <2>3, <1>1 DEF FinalizeJob
  <2> QED BY <1>3, <2>1, <2>2, <2>3 DEF Kubernetes
<1>4. CASE MarkExpired
  <2>1. PICK b \in mark : AddTTLExpiredAnnotation(b)
    BY <1>4 DEF MarkExpired, NewestOf
  <2>2. CASE b \in batch /\ PutBatch(b, [b EXCEPT !.expired = TRUE])
    BY <1>4, <2>2 DEF MarkExpired, Annotates
  <2> QED BY <1>1, <2>1, <2>2 DEF AddTTLExpiredAnnotation
<1>5. CASE DeleteExpired \/ DeleteOld
  <2>1. PICK b \in todo : Delete(b)
    BY <1>5 DEF DeleteExpired, DeleteOld, DeleteStep, OldestOf, NewestOf
  <2>2. CASE \E x \in batch : DropBatch(x)
    BY <2>2 DEF Removes
  <2> QED BY <1>1, <2>1, <2>2 DEF Delete
<1>6. CASE CreateBatchJob
  <2>1. CASE StoreBatchJob(NextBatchJob(snap, template))
    BY <1>6, <2>1 DEF CreateBatchJob, StoreBatchJob, AddBatch, Creates, NewBatchJob
  <2>2. CASE BatchUnchanged
    BY <1>1, <2>2
  <2> QED BY <1>6, <2>1, <2>2 DEF CreateBatchJob
<1>7. CASE SkipReconcile \/ StartReconcile \/ ConstructBatchJob \/ ListForTTL \/ ListHistory
           \/ ListExisting
  BY <1>1, <1>7 DEF SkipReconcile, StartReconcile, ConstructBatchJob, ListForTTL, ListHistory,
                   ListExisting, clusterVars, storeVars
<1>8. CASE BumpCollision \/ ReportFailure \/ ReportSuccess
  BY <1>1, <1>8 DEF BumpCollision, ReportFailure, ReportSuccess, EndPass
<1>9. CASE Deliver \/ Resync \/ CrashRestart \/ Tick \/ UNCHANGED vars
  BY <1>1, <1>9 DEF Deliver, Resync, CrashRestart, Tick, vars, clusterVars, storeVars
<1> QED BY <1>2, <1>3, <1>4, <1>5, <1>6, <1>7, <1>8, <1>9 DEF Next, Reconcile, ClusterNext
LEMMA TimePasses == TypeOK /\ [Next]_vars => now' \in Nat /\ now <= now'
<1> SUFFICES ASSUME TypeOK, [Next]_vars PROVE now' \in Nat /\ now <= now'
  OBVIOUS
<1>1. now' = now \/ now' = now + 1
  <2>1. CASE Reconcile
    BY <2>1 DEF Reconcile, SkipReconcile, StartReconcile, ConstructBatchJob, ListForTTL,
      MarkExpired, DeleteExpired, ListHistory, DeleteOld, DeleteStep, ListExisting,
      CreateBatchJob, BumpCollision, ReportFailure, ReportSuccess, EndPass, clusterVars
  <2>2. CASE Users
    BY <2>2 DEF Users, CreateJob, EditJob, DeleteJob, EditProfile, DeleteBatch, Edit, Remove
  <2>3. CASE Deliver \/ Resync \/ CrashRestart \/ Kubernetes \/ Tick \/ UNCHANGED vars
    BY <2>3 DEF Deliver, Resync, CrashRestart, Kubernetes, Tick, vars, clusterVars
  <2> QED BY <2>1, <2>2, <2>3 DEF Next, ClusterNext
<1> QED BY <1>1 DEF TypeOK, ClusterTypeOK

(* mark is only filled by listing for the TTL.                             *)
LEMMA MarkSteps ==
  ASSUME TypeOK, [Next]_vars
  PROVE  mark' \subseteq mark \/ (mark' = ToExpire(ReadBatch, now) /\ UNCHANGED batch)
<1>1. CASE Reconcile
  <2>1. CASE ListForTTL
    BY <2>1 DEF ListForTTL, clusterVars, storeVars
  <2>2. CASE Reconcile /\ ~ListForTTL
    BY <2>2 DEF Reconcile, SkipReconcile, StartReconcile, ConstructBatchJob,
      MarkExpired, DeleteExpired, ListHistory, DeleteOld, DeleteStep, ListExisting,
      CreateBatchJob, BumpCollision, ReportFailure, ReportSuccess, EndPass, passVars
  <2> QED BY <1>1, <2>1, <2>2
<1>2. CASE Deliver \/ Resync \/ CrashRestart \/ UNCHANGED ctlVars \/ UNCHANGED vars
  BY <1>2 DEF Deliver, Resync, CrashRestart, vars, ctlVars, passVars
<1> QED BY <1>1, <1>2 DEF Next

-----------------------------------------------------------------------------
(***************************************************************************)
(* Expiry.  The batch Jobs still to be annotated have outlived their TTL   *)
(* too; a conflicting update leaves that to the next pass.                 *)
(***************************************************************************)
Outlived(b) == b.done /\ b.ttl # NoTTL /\ b.finishedAt + b.ttl <= now

ExpiryInv ==
  /\ ExpiryJustified
  /\ \A b \in mark : Outlived(b)

LEMMA OutlivedForGood ==
  ASSUME TypeOK, now' \in Nat, now <= now', NEW b \in BatchJob, Outlived(b)
  PROVE  Outlived(b)'
<1>1. b.finishedAt \in Nat /\ b.ttl \in Int /\ now \in Nat
  BY TTLAssumption DEF BatchJob, Outlived, TypeOK, ClusterTypeOK
<1> QED BY <1>1 DEF Outlived

LEMMA ExpiryStep == TypeOK /\ ExpiryInv /\ [Next]_vars => ExpiryInv'
<1> SUFFICES ASSUME TypeOK, ExpiryInv, [Next]_vars PROVE ExpiryInv'
  OBVIOUS
<1>1. now' \in Nat /\ now <= now'
  BY TimePasses
<1>2. batch \subseteq BatchJob /\ mark \subseteq BatchJob
  BY DEF TypeOK, ClusterTypeOK
<1>3. \A b \in BatchJob : Outlived(b) => Outlived(b)'
  BY <1>1, OutlivedForGood
<1>4. \A b \in batch : b.expired => Outlived(b)
  BY DEF ExpiryInv, ExpiryJustified, Outlived
<1>5. ASSUME NEW c \in batch', c.expired
      PROVE  Outlived(c)'
  <2>1. CASE c \in batch
    BY <1>2, <1>3, <1>4, <1>5, <2>1
  <2>2. CASE StartsDeletion
    <3>1. PICK b : Replaced(b, [b EXCEPT !.deleting = TRUE])
      BY <2>2 DEF StartsDeletion
    <3>2. b \in batch /\ b \in BatchJob
      BY <3>1, <1>2 DEF Replaced
    <3>3. CASE c = [b EXCEPT !.deleting = TRUE]
      <4>1. b.expired /\ c.done = b.done /\ c.ttl = b.ttl /\ c.finishedAt = b.finishedAt
        BY <1>5, <3>2, <3>3 DEF BatchJob
      <4> QED BY <1>3, <1>4, <3>2, <4>1 DEF Outlived
    <3> QED BY <2>1, <3>1, <3>3 DEF Replaced
  <2>3. CASE Finishes
    <3>1. PICK b : /\ Replaced(b, [b EXCEPT !.done = TRUE, !.finishedAt = now])
                   /\ ~b.done
      BY <2>3 DEF Finishes
    <3>2. b \in batch /\ b \in BatchJob
      BY <3>1, <1>2 DEF Replaced
    <3>3. ~b.expired
      BY <1>4, <3>1, <3>2 DEF Outlived
    <3>4. c # [b EXCEPT !.done = TRUE, !.finishedAt = now]
      BY <1>5, <3>2, <3>3 DEF BatchJob
    <3> QED BY <2>1, <3>1, <3>4 DEF Replaced
  <2>4. CASE Annotates
    <3>1. PICK b \in mark : Replaced(b, [b EXCEPT !.expired = TRUE])
      BY <2>4 DEF Annotates
    <3>2. Outlived(b) /\ b \in BatchJob
      BY <3>1, <1>2 DEF ExpiryInv
    <3>3. CASE c = [b EXCEPT !.expired = TRUE]
      <4>1. c.done = b.done /\ c.ttl = b.ttl /\ c.finishedAt = b.finishedAt
        BY <3>2, <3>3 DEF BatchJob
      <4> QED BY <1>3, <3>2, <4>1 DEF Outlived
    <3> QED BY <2>1, <3>1, <3>3 DEF Replaced
  <2>5. CASE Creates
    <3>1. snap \in Job /\ template \in Templates
      BY <2>5 DEF Creates, TypeOK, Steps
    <3>2. NextBatchJob(snap, template) \in BatchJob /\ ~NextBatchJob(snap, template).expired
      BY <3>1, NextBatchJobType DEF Job
    <3>3. ~NewBatchJob.expired
      BY <3>2 DEF NewBatchJob, BatchJob
    <3> QED BY <1>5, <2>1, <2>5, <3>3 DEF Creates
  <2>6. CASE Removes
    BY <2>1, <2>6 DEF Removes
  <2> QED BY <2>2, <2>3, <2>4, <2>5, <2>6, BatchSteps
<1>6. ASSUME NEW c \in mark'
      PROVE  Outlived(c)'
  <2>1. CASE c \in mark
    BY <1>2, <1>3, <2>1 DEF ExpiryInv
  <2>2. CASE c \in ToExpire(ReadBatch, now)
    <3>1. c \in ReadBatch /\ Outlived(c)
      BY <2>2, ToExpireJustified DEF Outlived
    <3>2. c \in BatchJob
      BY <3>1 DEF ReadBatch, TypeOK, ClusterTypeOK
    <3> QED BY <1>3, <3>1, <3>2
  <2> QED BY <2>1, <2>2, MarkSteps
<1> QED BY <1>5, <1>6 DEF ExpiryInv, ExpiryJustified, Outlived

(* The annotation is only ever found on a batch Job that has outlived its  *)
(* TTL, whatever copies the pass that wrote it worked from: with caches of *)
(* any age, any number of failing calls and any number of restarts.        *)
THEOREM ExpiryIsJustified == Spec => []ExpiryJustified
<1>1. Init => ExpiryInv
  BY DEF Init, ClusterInit, ExpiryInv, ExpiryJustified
<1>2. ExpiryInv => ExpiryJustified
  BY DEF ExpiryInv
<1> QED BY <1>1, <1>2, ExpiryStep, TypeCorrect, PTL DEF Spec
-----------------------------------------------------------------------------
(***************************************************************************)
(* No two runs at a time, when reads see the store.  A running batch Job   *)
(* has to be the strictly newest one, or the decision that looks only at a *)
(* newest one could miss it; that takes a second between the creation and  *)
(* the end of a batch Job, because creation times are whole seconds.       *)
(***************************************************************************)
Running(b) == ~b.done /\ ~b.deleting

RunsInv ==
  /\ \A b \in batch : b.done => b.created < now
  /\ \A b \in batch, c \in batch :
       Running(b) /\ ~c.deleting /\ b # c => c.done /\ c.created < b.created
  /\ pc = "create" => \A b \in batch : ~Running(b)

(* A batch Job may only be created when none is running (lines 161-172).   *)
LEMMA ShouldCreateNoneRuns ==
  ASSUME TypeOK, RunsInv, ShouldCreate(batch)
  PROVE  \A b \in batch : ~Running(b)
<1> SUFFICES ASSUME NEW b \in batch, Running(b) PROVE FALSE
  OBVIOUS
<1>1. \A c \in batch : c.created \in Nat
  BY DEF TypeOK, ClusterTypeOK, BatchJob
<1>2. \A c \in batch : ~c.deleting /\ c # b => c.done /\ c.created < b.created
  BY DEF RunsInv
<1>3. b \in Latest(batch)
  BY <1>1, <1>2 DEF Latest, NewestOf, Running
<1>4. PICK c \in Latest(batch) : c.done
  BY <1>3 DEF ShouldCreate, SpecChanged
<1>5. c \in batch /\ ~c.deleting /\ b.created <= c.created
  BY <1>4 DEF Latest, NewestOf, Running
<1> QED BY <1>1, <1>2, <1>4, <1>5 DEF Running

(* Reconcile reaches the create only from its own listing.                 *)
LEMMA CreateSteps ==
  ASSUME TypeOK, [Next]_vars, pc' = "create"
  PROVE  pc = "create" \/ (ShouldCreate(ReadBatch) /\ UNCHANGED batch)
<1>1. CASE Reconcile
  BY <1>1 DEF Reconcile, SkipReconcile, StartReconcile, ConstructBatchJob, ListForTTL,
     MarkExpired, DeleteExpired, ListHistory, DeleteOld, ListExisting, AfterTTL, AfterPrune,
     CreateBatchJob, BumpCollision, ReportFailure, ReportSuccess, EndPass, clusterVars, storeVars
<1>2. CASE Deliver \/ Resync \/ CrashRestart \/ UNCHANGED ctlVars \/ UNCHANGED vars
  BY <1>2 DEF Deliver, Resync, CrashRestart, vars, ctlVars
<1> QED BY <1>1, <1>2 DEF Next

(* One batch Job takes the place of another and is no more running.        *)
LEMMA ReplaceKeepsRuns ==
  ASSUME TypeOK, RunsInv, now' \in Nat, now <= now',
         NEW b \in batch, NEW c \in BatchJob, Replaced(b, c),
         c.created = b.created, b.done => c.done, b.deleting => c.deleting,
         c.done => b.done \/ b.created < now,
         pc' = "create" => pc = "create"
  PROVE  RunsInv'
<1>1. \A x \in batch : x.created \in Nat
  BY DEF TypeOK, ClusterTypeOK, BatchJob
<1>2. now \in Nat
  BY DEF TypeOK, ClusterTypeOK
<1>3. \A x \in batch' : x.done => x.created < now'
  BY <1>1, <1>2 DEF RunsInv, Replaced
<1>4. ASSUME NEW x \in batch', NEW y \in batch', Running(x), ~y.deleting, x # y
      PROVE  y.done /\ y.created < x.created
  <2>1. PICK u \in batch : /\ Running(u) /\ u.created = x.created
                          /\ IF x = c THEN u = b ELSE u = x /\ u # b
    BY <1>4 DEF Replaced, Running
  <2>2. PICK v \in batch : /\ ~v.deleting /\ v.created = y.created /\ (v.done => y.done)
                          /\ IF y = c THEN v = b ELSE v = y /\ v # b
    BY <1>4 DEF Replaced
  <2>3. u # v
    BY <1>4, <2>1, <2>2
  <2> QED BY <2>1, <2>2, <2>3 DEF RunsInv
<1>5. pc' = "create" => \A x \in batch' : ~Running(x)
  BY DEF RunsInv, Replaced, Running
<1> QED BY <1>3, <1>4, <1>5 DEF RunsInv

LEMMA RunsStep ==
  ASSUME ~CachedReads, MinRuntime >= 1, TypeOK, RunsInv, [Next]_vars
  PROVE  RunsInv'
<1>1. now' \in Nat /\ now <= now' /\ now \in Nat
  BY TimePasses DEF TypeOK, ClusterTypeOK
<1>2. batch \subseteq BatchJob
  BY DEF TypeOK, ClusterTypeOK
<1>3. CASE UNCHANGED batch /\ pc' = "create" /\ pc # "create"
  <2>1. \A b \in batch : ~Running(b)
    BY <1>3, CreateSteps, ShouldCreateNoneRuns DEF ReadBatch
  <2> QED BY <1>1, <1>2, <1>3, <2>1 DEF RunsInv, Running, BatchJob
<1>4. CASE pc' = "create" => pc = "create"
  <2>1. CASE Removes
    <3>1. \A b \in batch : b.created \in Nat
      BY <1>2 DEF BatchJob
    <3>2. \A b \in batch' : b.done => b.created < now'
      BY <1>1, <2>1, <3>1 DEF Removes, RunsInv
    <3> QED BY <1>4, <2>1, <3>2 DEF Removes, RunsInv, Running
  <2>2. CASE StartsDeletion
    <3>1. PICK b : Replaced(b, [b EXCEPT !.deleting = TRUE])
      BY <2>2 DEF StartsDeletion
    <3> DEFINE c == [b EXCEPT !.deleting = TRUE]
    <3>2. b \in batch /\ c \in BatchJob /\ c.created = b.created /\ c.done = b.done /\ c.deleting
      BY <3>1, <1>2 DEF Replaced, BatchJob
    <3>3. Replaced(b, c)
      BY <3>1
    <3> HIDE DEF c
    <3> QED BY <1>1, <1>4, <3>2, <3>3, ReplaceKeepsRuns
  <2>3. CASE Finishes
    <3>1. PICK b : /\ Replaced(b, [b EXCEPT !.done = TRUE, !.finishedAt = now])
                   /\ now >= b.created + MinRuntime
      BY <2>3 DEF Finishes
    <3> DEFINE c == [b EXCEPT !.done = TRUE, !.finishedAt = now]
    <3>2. /\ b \in batch /\ c \in BatchJob /\ c.created = b.created /\ c.done
          /\ c.deleting = b.deleting
      BY <3>1, <1>1, <1>2 DEF Replaced, BatchJob
    <3>3. b.created < now
      BY <1>1, <1>2, <3>1, <3>2, BoundAssumption DEF BatchJob
    <3>4. Replaced(b, c)
      BY <3>1
    <3> HIDE DEF c
    <3> QED BY <1>1, <1>4, <3>2, <3>3, <3>4, ReplaceKeepsRuns
  <2>4. CASE Annotates
    <3>1. PICK b : Replaced(b, [b EXCEPT !.expired = TRUE])
      BY <2>4 DEF Annotates
    <3> DEFINE c == [b EXCEPT !.expired = TRUE]
    <3>2. /\ b \in batch /\ c \in BatchJob /\ c.created = b.created /\ c.done = b.done
          /\ c.deleting = b.deleting
      BY <3>1, <1>2 DEF Replaced, BatchJob
    <3>3. Replaced(b, c)
      BY <3>1
    <3> HIDE DEF c
    <3> QED BY <1>1, <1>4, <3>2, <3>3, ReplaceKeepsRuns
  <2>5. CASE Creates
    <3>1. snap \in Job /\ template \in Templates
      BY <2>5 DEF Creates, TypeOK, Steps
    <3>2. NextBatchJob(snap, template) \in BatchJob /\ ~NextBatchJob(snap, template).done
      BY <3>1, NextBatchJobType DEF Job
    <3>3. NewBatchJob.created = now /\ ~NewBatchJob.done
      BY <3>2 DEF NewBatchJob, BatchJob
    <3>4. \A b \in batch : ~Running(b) /\ b.created \in Nat /\ (b.done => b.created < now)
      BY <1>2, <2>5 DEF Creates, RunsInv, BatchJob
    <3>5. batch' = batch \cup {NewBatchJob} /\ pc' # "create"
      BY <2>5 DEF Creates
    <3>6. \A b \in batch' : b.done => b.created < now'
      BY <1>1, <3>3, <3>4, <3>5
    <3>7. ASSUME NEW x \in batch', NEW y \in batch', Running(x), ~y.deleting, x # y
          PROVE  y.done /\ y.created < x.created
      <4>1. x = NewBatchJob /\ y \in batch
        BY <3>4, <3>5, <3>7
      <4> QED BY <3>3, <3>4, <3>7, <4>1 DEF Running
    <3> QED BY <3>5, <3>6, <3>7 DEF RunsInv
  <2> QED BY <2>1, <2>2, <2>3, <2>4, <2>5, BatchSteps
<1> QED BY <1>3, <1>4, CreateSteps

(* "Do not create a new job while an existing one is still active" (line   *)
(* 423): when reads see the store and a batch Job runs for a second at     *)
(* least, at most one that is not being deleted is running, through edits, *)
(* deletions, failing calls and restarts.  The run overlap_stale shows     *)
(* that the first assumption is needed.                                    *)
THEOREM FreshReadsNeverOverlap ==
  ASSUME ~CachedReads, MinRuntime >= 1
  PROVE  Spec => []NoConcurrentRuns
<1>1. Init => RunsInv
  BY DEF Init, ClusterInit, RunsInv
<1>2. RunsInv => NoConcurrentRuns
  BY DEF RunsInv, NoConcurrentRuns, Running
<1>3. TypeOK /\ RunsInv /\ [Next]_vars => RunsInv'
  BY RunsStep
<1> QED BY <1>1, <1>2, <1>3, TypeCorrect, PTL DEF Spec
=============================================================================
