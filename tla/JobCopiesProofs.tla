-------------------------- MODULE JobCopiesProofs --------------------------
(* Theorems about JobController that hold for caches of any age: what an   *)
(* old copy of the Job or of a batch Job still tells about the object in   *)
(* the store.                                                              *)
EXTENDS JobControllerProofs

(***************************************************************************)
(* Copies of the Job: of an older object, of an older version, or with the *)
(* stored spec and a collision count that is not behind.                   *)
(***************************************************************************)
CopyOf(c, j, uid) ==
  c # NoJob =>
    /\ c.uid < uid
    /\ j # NoJob /\ c.uid = j.uid =>
         \/ c.rv < j.rv
         \/ c.rv = j.rv /\ j.collisions <= c.collisions /\ Asked(c) = Asked(j)

EventsInv == \A i \in DOMAIN jobEvents : CopyOf(jobEvents[i], job, nextUid)

CopiesInv ==
  /\ CopyOf(job, job, nextUid)
  /\ CopyOf(cacheJob, job, nextUid)
  /\ CopyOf(snap, job, nextUid)
  /\ EventsInv

(* How the stored Job and the next uid change in a step.                   *)
Evolves(j, k, uid, next) ==
  /\ uid <= next
  /\ \/ k = j \/ k = NoJob
     \/ /\ j # NoJob /\ k # NoJob /\ k.uid = j.uid
        /\ j.rv < k.rv /\ j.collisions <= k.collisions
     \/ j = NoJob /\ k # NoJob /\ k.uid = uid /\ next = uid + 1

Announced ==
  /\ Evolves(job, job', nextUid, nextUid')
  /\ JobUnchanged \/ jobEvents' = Append(jobEvents, job')

LEMMA CopyStays ==
  ASSUME NEW c \in Job \cup {NoJob}, NEW j \in Job \cup {NoJob}, NEW k \in Job \cup {NoJob},
         NEW uid \in Nat, NEW next \in Nat, CopyOf(c, j, uid), Evolves(j, k, uid, next)
  PROVE  CopyOf(c, k, next)
<1> SUFFICES ASSUME c # NoJob PROVE CopyOf(c, k, next)
  BY DEF CopyOf
<1>1. /\ c.uid \in Nat /\ c.rv \in Nat /\ c.collisions \in Int
      /\ j # NoJob => j.uid \in Nat /\ j.rv \in Nat /\ j.collisions \in Int
      /\ k # NoJob => k.uid \in Nat /\ k.rv \in Nat /\ k.collisions \in Int
  BY CollisionsAssumption DEF Job
<1> QED BY <1>1 DEF CopyOf, Evolves

LEMMA CopyOfItself ==
  ASSUME NEW j \in Job \cup {NoJob}, NEW k \in Job \cup {NoJob},
         NEW uid \in Nat, NEW next \in Nat, CopyOf(j, j, uid), Evolves(j, k, uid, next)
  PROVE  CopyOf(k, k, next)
<1>1. /\ j # NoJob => j.uid \in Nat
      /\ k # NoJob => k.uid \in Nat /\ k.rv \in Nat /\ k.collisions \in Int
  BY CollisionsAssumption DEF Job
<1> QED BY <1>1 DEF CopyOf, Evolves

LEMMA Still ==
  ASSUME TypeOK, JobUnchanged, nextUid' \in Nat, nextUid <= nextUid'
  PROVE  Announced
BY DEF Announced, Evolves, JobUnchanged

LEMMA UpdateEvolves ==
  ASSUME TypeOK, job # NoJob, NEW j \in Job, UpdateJob(j), j.uid = job.uid, j.rv = job.rv,
         job.collisions <= j.collisions, nextUid' = nextUid
  PROVE  Announced
<1>1. job \in Job /\ nextUid \in Nat /\ job.rv \in Nat
  BY DEF TypeOK, ClusterTypeOK, Job
<1> DEFINE new == [j EXCEPT !.rv = @ + 1]
<1>2. new \in Job /\ new.uid = job.uid /\ new.rv = job.rv + 1
      /\ job.collisions <= new.collisions
  BY <1>1 DEF Job
<1>3. job' = new /\ jobEvents' = Append(jobEvents, new)
  BY DEF UpdateJob, PutJob
<1>4. new # NoJob
  BY <1>2, AbsentAssumption
<1> HIDE DEF new
<1> QED BY <1>1, <1>2, <1>3, <1>4 DEF Announced, Evolves

LEMMA ClusterSteps ==
  ASSUME TypeOK, ClusterNext
  PROVE  Announced
<1>0. job \in Job \cup {NoJob} /\ nextUid \in Nat
      /\ (job # NoJob => job.collisions \in Int)
  BY CollisionsAssumption DEF TypeOK, ClusterTypeOK, Job
<1>1. CASE CreateJob
  <2>1. PICK p \in Params, t \in TTLs, l \in Limits : PutJob(NewJob(p, t, l))
    BY <1>1 DEF CreateJob
  <2>2. NewJob(p, t, l) \in Job /\ NewJob(p, t, l).uid = nextUid
    BY <1>0, CollisionsAssumption DEF NewJob, Job
  <2>3. job' # NoJob /\ job'.uid = nextUid
    BY <2>1, <2>2, AbsentAssumption DEF PutJob
  <2> QED BY <1>0, <1>1, <2>1, <2>3 DEF CreateJob, PutJob, Announced, Evolves
<1>2. CASE EditJob
  <2>1. PICK p \in Params, t \in TTLs, l \in Limits :
          UpdateJob([job EXCEPT !.params = p, !.ttl = t, !.limit = l])
    BY <1>2 DEF EditJob
  <2> DEFINE edited == [job EXCEPT !.params = p, !.ttl = t, !.limit = l]
  <2>2. edited \in Job /\ edited.uid = job.uid /\ edited.rv = job.rv
        /\ edited.collisions = job.collisions
    BY <1>0, <1>2 DEF EditJob, Job
  <2>3. UpdateJob(edited) /\ job # NoJob /\ nextUid' = nextUid
    BY <1>2, <2>1 DEF EditJob
  <2> HIDE DEF edited
  <2> QED BY <1>0, <2>2, <2>3, UpdateEvolves
<1>3. CASE DeleteJob
  <2> DEFINE marked == [job EXCEPT !.deleting = TRUE]
  <2>1. marked \in Job /\ marked.uid = job.uid /\ marked.rv = job.rv
        /\ marked.collisions = job.collisions
    BY <1>0, <1>3 DEF DeleteJob, Job
  <2>2. /\ PutJob(NoJob) \/ UpdateJob(marked)
        /\ job # NoJob /\ nextUid' = nextUid
    BY <1>3 DEF DeleteJob
  <2> HIDE DEF marked
  <2>3. CASE PutJob(NoJob)
    BY <1>0, <2>2, <2>3 DEF PutJob, Announced, Evolves
  <2>4. CASE UpdateJob(marked)
    BY <1>0, <2>1, <2>2, <2>4, UpdateEvolves
  <2> QED BY <2>2, <2>3, <2>4
<1>4. CASE EditProfile \/ \E b \in batch : DeleteBatch(b)
  <2>1. JobUnchanged /\ nextUid' = nextUid
    BY <1>4 DEF EditProfile, DeleteBatch
  <2> QED BY <1>0, <2>1, Still
<1>5. CASE Kubernetes
  <2>1. nextUid' = nextUid
    BY <1>5 DEF Kubernetes
  <2>2. CASE JobUnchanged
    BY <1>0, <2>1, <2>2, Still
  <2>3. CASE FinalizeJob
    BY <1>0, <2>1, <2>3 DEF FinalizeJob, PutJob, Announced, Evolves
  <2> QED BY <1>5, <2>2, <2>3 DEF Kubernetes, FinishBatch, CollectGarbage
<1>6. CASE Tick
  BY <1>0, <1>6, Still DEF Tick, storeVars, JobUnchanged
<1> QED BY <1>1, <1>2, <1>3, <1>4, <1>5, <1>6 DEF ClusterNext, Users

LEMMA StatusEvolves ==
  ASSUME TypeOK, NEW c \in Job, UpdateStatus(c), CopyOf(c, job, nextUid), nextUid' = nextUid
  PROVE  /\ Announced
         /\ job' \in Job
         /\ CopyOf(job, job, nextUid) => CopyOf(job', job', nextUid')
<1>1. job \in Job /\ c.uid = job.uid /\ c.rv = job.rv /\ nextUid \in Nat
  BY DEF UpdateStatus, Current, TypeOK, ClusterTypeOK
<1> DEFINE updated == [job EXCEPT !.collisions = c.collisions,
                                  !.cond = c.cond, !.since = c.since]
<1>2. updated \in Job /\ updated.uid = job.uid /\ updated.rv = job.rv
      /\ updated.collisions = c.collisions
  BY <1>1 DEF Job
<1>3. job.collisions <= c.collisions
  <2>1. c # NoJob /\ job # NoJob
    BY <1>1, AbsentAssumption
  <2>2. job.rv \in Nat
    BY <1>1 DEF Job
  <2> QED BY <1>1, <2>1, <2>2 DEF CopyOf
<1>4. JobUnchanged \/ UpdateJob(updated)
  BY DEF UpdateStatus
<1>5. Announced
  <2> HIDE DEF updated
  <2>1. job # NoJob
    BY <1>1, AbsentAssumption
  <2>2. CASE JobUnchanged
    BY <1>1, <2>2, Still
  <2>3. CASE UpdateJob(updated)
    BY <1>1, <1>2, <1>3, <2>1, <2>3, UpdateEvolves
  <2> QED BY <1>4, <2>2, <2>3
<1>6. job' \in Job
  BY UpdateStatusType
<1>7. CopyOf(job, job, nextUid) => CopyOf(job', job', nextUid')
  BY <1>1, <1>5, <1>6, CopyOfItself DEF Announced
<1> QED BY <1>5, <1>6, <1>7

(* A pass changes the stored Job only through its status update, and takes *)
(* its copy of the Job from the cache, from the store or from the answer   *)
(* to that update.                                                         *)
LEMMA ReconcileSteps ==
  ASSUME TypeOK, CopiesInv, Reconcile
  PROVE  /\ Announced
         /\ cacheJob' = cacheJob
         /\ CopyOf(snap', job', nextUid')
<1> USE DEF clusterVars, storeVars, cacheVars, passVars
<1>0. /\ job \in Job \cup {NoJob} /\ snap \in Job \cup {NoJob}
      /\ cacheJob \in Job \cup {NoJob} /\ nextUid \in Nat /\ now \in Nat
  BY DEF TypeOK, ClusterTypeOK
<1>a. CopyOf(NoJob, job', nextUid')
  BY DEF CopyOf
<1>b. ASSUME Announced, nextUid' \in Nat, job' \in Job \cup {NoJob}, snap' = snap
      PROVE  CopyOf(snap', job', nextUid')
  BY <1>0, <1>b, CopyStays DEF Announced, CopiesInv
<1>1. CASE SkipReconcile
  BY <1>0, <1>1, <1>b, Still DEF SkipReconcile, JobUnchanged
<1>2. CASE StartReconcile
  <2>1. JobUnchanged /\ nextUid' = nextUid /\ cacheJob' = cacheJob
    BY <1>2 DEF StartReconcile, JobUnchanged
  <2>2. ReadJob \in Job /\ CopyOf(ReadJob, job, nextUid)
    BY <1>0, <1>2 DEF StartReconcile, Live, ReadJob, CopiesInv
  <2>3. snap' = MarkAvailable(ReadJob)
    BY <1>2 DEF StartReconcile
  <2>4. /\ snap'.uid = ReadJob.uid /\ snap'.rv = ReadJob.rv
        /\ snap'.collisions = ReadJob.collisions /\ Asked(snap') = Asked(ReadJob)
    BY <1>0, <2>2, <2>3 DEF MarkAvailable, Job, Asked
  <2>5. ReadJob # NoJob
    BY <1>2 DEF StartReconcile, Live
  <2> QED BY <1>0, <2>1, <2>2, <2>4, <2>5, Still DEF CopyOf, JobUnchanged
<1>3. CASE ConstructBatchJob \/ ListForTTL \/ ListHistory \/ ListExisting
  <2>1. JobUnchanged /\ nextUid' = nextUid /\ snap' = snap /\ cacheJob' = cacheJob
    BY <1>3 DEF ConstructBatchJob, ListForTTL, ListHistory, ListExisting, JobUnchanged
  <2> QED BY <1>0, <1>b, <2>1, Still DEF JobUnchanged
<1>4. CASE MarkExpired \/ DeleteExpired \/ DeleteOld
  <2>1. JobUnchanged /\ nextUid' = nextUid /\ snap' = snap /\ cacheJob' = cacheJob
    BY <1>4 DEF MarkExpired, DeleteExpired, DeleteOld, DeleteStep
  <2> QED BY <1>0, <1>b, <2>1, Still DEF JobUnchanged
<1>5. CASE CreateBatchJob
  <2>1. JobUnchanged /\ nextUid' \in {nextUid, nextUid + 1} /\ snap' = snap
        /\ cacheJob' = cacheJob
    BY <1>5 DEF CreateBatchJob, StoreBatchJob
  <2> QED BY <1>0, <1>b, <2>1, Still DEF JobUnchanged
<1>6. CASE BumpCollision
  <2> DEFINE bumped == [snap EXCEPT !.collisions = @ + 1]
  <2>1. snap \in Job /\ nextUid' = nextUid /\ cacheJob' = cacheJob /\ snap # NoJob
    BY <1>6, AbsentAssumption DEF BumpCollision, TypeOK
  <2>2. snap.collisions \in 0 .. MaxCollisions /\ snap.collisions < MaxCollisions
    BY <1>6, <2>1 DEF BumpCollision, Job
  <2>3. bumped \in Job /\ bumped.uid = snap.uid /\ bumped.rv = snap.rv
        /\ bumped.collisions = snap.collisions + 1 /\ Asked(bumped) = Asked(snap)
    BY <2>1, <2>2, CollisionsAssumption DEF Job, Asked
  <2>4. bumped # NoJob
    BY <2>3, AbsentAssumption
  <2>5. \/ UpdateStatus(bumped) /\ snap' = job'
        \/ JobUnchanged /\ snap' = bumped
    BY <1>6 DEF BumpCollision
  <2> HIDE DEF bumped
  <2>6. CopyOf(bumped, job, nextUid)
    <3>1. /\ snap.uid \in Nat /\ snap.rv \in Nat /\ snap.collisions \in Int
          /\ job # NoJob => job.uid \in Nat /\ job.rv \in Nat /\ job.collisions \in Int
      BY <1>0, <2>1, CollisionsAssumption DEF Job
    <3>2. CopyOf(snap, job, nextUid)
      BY DEF CopiesInv
    <3> QED BY <1>0, <2>1, <2>3, <3>1, <3>2 DEF CopyOf
  <2>7. CASE UpdateStatus(bumped) /\ snap' = job'
    BY <2>1, <2>3, <2>6, <2>7, StatusEvolves DEF CopiesInv
  <2>8. CASE JobUnchanged /\ snap' = bumped
    BY <1>0, <2>1, <2>6, <2>8, Still DEF JobUnchanged
  <2> QED BY <2>5, <2>7, <2>8
<1>7. CASE ReportFailure
  <2> DEFINE failed == [snap EXCEPT !.cond = "failed", !.since = now]
  <2>1. snap \in Job /\ nextUid' = nextUid /\ cacheJob' = cacheJob /\ snap' = NoJob
        /\ snap # NoJob
    BY <1>7, AbsentAssumption DEF ReportFailure, EndPass, TypeOK
  <2>2. failed \in Job /\ failed.uid = snap.uid /\ failed.rv = snap.rv
        /\ failed.collisions = snap.collisions /\ Asked(failed) = Asked(snap)
    BY <1>0, <2>1 DEF Job, Asked
  <2>3. UpdateStatus(failed) \/ JobUnchanged
    BY <1>7 DEF ReportFailure
  <2> HIDE DEF failed
  <2>4. CopyOf(failed, job, nextUid)
    BY <2>1, <2>2 DEF CopyOf, CopiesInv
  <2>5. Announced
    BY <1>0, <2>1, <2>2, <2>3, <2>4, StatusEvolves, Still
  <2> QED BY <1>a, <2>1, <2>5
<1>8. CASE ReportSuccess
  <2>1. snap \in Job /\ nextUid' = nextUid /\ cacheJob' = cacheJob /\ snap' = NoJob
    BY <1>8 DEF ReportSuccess, EndPass, TypeOK
  <2>2. UpdateStatus(snap) \/ JobUnchanged
    BY <1>8 DEF ReportSuccess
  <2>3. CopyOf(snap, job, nextUid)
    BY DEF CopiesInv
  <2>4. Announced
    BY <1>0, <2>1, <2>2, <2>3, StatusEvolves, Still
  <2> QED BY <1>a, <2>1, <2>4
<1> QED BY <1>1, <1>2, <1>3, <1>4, <1>5, <1>6, <1>7, <1>8 DEF Reconcile

LEMMA AnnouncedKeepsCopies ==
  ASSUME TypeOK, TypeOK', CopiesInv, Announced
  PROVE  /\ CopyOf(job', job', nextUid')
         /\ \A c \in Job \cup {NoJob} :
              CopyOf(c, job, nextUid) => CopyOf(c, job', nextUid')
         /\ EventsInv'
<1> USE DEF TypeOK, ClusterTypeOK
<1>1. CopyOf(job', job', nextUid')
  BY CopyOfItself DEF CopiesInv, Announced
<1>2. ASSUME NEW c \in Job \cup {NoJob}, CopyOf(c, job, nextUid)
      PROVE  CopyOf(c, job', nextUid')
  BY <1>2, CopyStays DEF Announced
<1>3. \A i \in DOMAIN jobEvents : CopyOf(jobEvents[i], job', nextUid')
  <2>1. \A i \in DOMAIN jobEvents : jobEvents[i] \in Job \cup {NoJob}
    OBVIOUS
  <2> QED BY <1>2, <2>1 DEF CopiesInv, EventsInv
<1>4. ASSUME jobEvents' = jobEvents
      PROVE  EventsInv'
  BY <1>3, <1>4 DEF EventsInv
<1>5. ASSUME jobEvents' = Append(jobEvents, job')
      PROVE  EventsInv'
  <2>1. ASSUME NEW i \in DOMAIN jobEvents'
        PROVE  CopyOf(jobEvents'[i], job', nextUid')
    <3>1. CASE i \in DOMAIN jobEvents
      <4>1. jobEvents'[i] = jobEvents[i]
        BY <1>5, <3>1
      <4> QED BY <1>3, <3>1, <4>1
    <3>2. CASE i \notin DOMAIN jobEvents
      <4>1. i = Len(jobEvents) + 1
        BY <1>5, <3>2
      <4>2. jobEvents'[i] = job'
        BY <1>5, <4>1
      <4> QED BY <1>1, <4>2
    <3> QED BY <3>1, <3>2
  <2> QED BY <2>1 DEF EventsInv
<1> QED BY <1>1, <1>2, <1>4, <1>5 DEF Announced, JobUnchanged

LEMMA InitCopies == Init => CopiesInv
<1> SUFFICES ASSUME Init PROVE CopiesInv
  OBVIOUS
<1>1. nextUid = 2 /\ jobEvents = <<>> /\ cacheJob = job /\ snap = NoJob
  BY DEF Init, ClusterInit
<1>2. job.uid = 1 /\ job.rv = 1 /\ job.collisions = 0
  BY DEF Init, ClusterInit
<1> QED BY <1>1, <1>2 DEF CopiesInv, EventsInv, CopyOf

(* Every step but a pass's leaves its copy alone, takes one out of the     *)
(* cache, or forgets it.                                                   *)
LEMMA NextCopies ==
  ASSUME TypeOK, TypeOK', CopiesInv, [Next]_vars
  PROVE  CopiesInv' /\ Evolves(job, job', nextUid, nextUid')
<1>0. /\ cacheJob \in Job \cup {NoJob} /\ snap \in Job \cup {NoJob}
      /\ job \in Job \cup {NoJob} /\ nextUid \in Nat
      /\ jobEvents \in Seq(Job \cup {NoJob})
  BY DEF TypeOK, ClusterTypeOK
<1>1. CASE Reconcile
  <2>1. Announced /\ cacheJob' = cacheJob /\ CopyOf(snap', job', nextUid')
    BY <1>1, ReconcileSteps
  <2>2. CopyOf(cacheJob', job', nextUid')
    BY <1>0, <2>1, AnnouncedKeepsCopies DEF CopiesInv
  <2> QED BY <2>1, <2>2, AnnouncedKeepsCopies DEF CopiesInv, Announced
<1>2. CASE ClusterNext /\ UNCHANGED ctlVars
  <2>1. Announced /\ cacheJob' = cacheJob /\ snap' = snap
    BY <1>2, ClusterSteps DEF ctlVars, cacheVars, passVars
  <2>2. CopyOf(cacheJob', job', nextUid') /\ CopyOf(snap', job', nextUid')
    BY <1>0, <2>1, AnnouncedKeepsCopies DEF CopiesInv
  <2> QED BY <2>1, <2>2, AnnouncedKeepsCopies DEF CopiesInv, Announced
<1>3. CASE Deliver
  <2>1. job' = job /\ nextUid' = nextUid /\ snap' = snap
    BY <1>3 DEF Deliver, DeliverJob, DeliverProfile, DeliverBatch, passVars
  <2>2. CASE DeliverJob
    <3>1. cacheJob' = jobEvents[1] /\ 1 \in DOMAIN jobEvents
      BY <1>0, <2>2 DEF DeliverJob
    <3>2. \A i \in DOMAIN jobEvents' :
            i + 1 \in DOMAIN jobEvents /\ jobEvents'[i] = jobEvents[i + 1]
      BY <1>0, <2>2 DEF DeliverJob
    <3>3. CopiesInv'
      BY <2>1, <3>1, <3>2 DEF CopiesInv, EventsInv
    <3> QED BY <1>0, <2>1, <3>3 DEF Evolves
  <2>3. CASE DeliverProfile \/ DeliverBatch
    <3>1. CopiesInv'
      BY <2>1, <2>3 DEF DeliverProfile, DeliverBatch, CopiesInv, EventsInv
    <3> QED BY <1>0, <2>1, <3>1 DEF Evolves
  <2> QED BY <1>3, <2>1, <2>2, <2>3 DEF Deliver
<1>4. CASE Resync \/ UNCHANGED vars
  BY <1>0, <1>4 DEF Resync, Evolves, CopiesInv, EventsInv, vars, clusterVars,
                    storeVars, ctlVars, cacheVars, passVars
<1>5. CASE CrashRestart
  BY <1>0, <1>5 DEF CrashRestart, Evolves, CopiesInv, EventsInv, CopyOf
<1> QED BY <1>1, <1>2, <1>3, <1>4, <1>5 DEF Next

(* However old the copy of the Job that a pass writes its status from, and *)
(* whatever fails: no bump of the collision count is ever undone, because  *)
(* a write is only taken from a copy of the present version, whose count   *)
(* is the stored one or a bump of it.                                      *)
THEOREM CollisionCountNeverFalls == Spec => CollisionCountKept
<1>1. Init => TypeOK /\ CopiesInv
  BY InitTypeOK, InitCopies
<1>2. TypeOK /\ CopiesInv /\ [Next]_vars => (TypeOK /\ CopiesInv)'
  BY NextTypeOK, NextCopies
<1>3. ASSUME TypeOK, CopiesInv, [Next]_vars, job # NoJob, job' # NoJob, job.uid = job'.uid
      PROVE  job.collisions <= job'.collisions
  <2>1. Evolves(job, job', nextUid, nextUid')
    BY <1>2, <1>3, NextTypeOK, NextCopies
  <2>2. job.collisions \in Int
    BY <1>3, CollisionsAssumption DEF TypeOK, ClusterTypeOK, Job
  <2> QED BY <1>3, <2>1, <2>2 DEF Evolves
<1>4. TypeOK /\ CopiesInv /\ [Next]_vars =>
        [job # NoJob /\ job' # NoJob /\ job.uid = job'.uid =>
           job.collisions <= job'.collisions]_vars
  BY <1>3
<1> QED BY <1>1, <1>2, <1>4, PTL DEF Spec, CollisionCountKept

LEMMA StatusCondition ==
  ASSUME TypeOK, NEW c \in Job, UpdateStatus(c)
  PROVE  job'.cond = c.cond \/ job' = job
<1>1. job \in Job
  BY DEF UpdateStatus, Current, TypeOK, ClusterTypeOK
<1> DEFINE updated == [job EXCEPT !.collisions = c.collisions,
                                  !.cond = c.cond, !.since = c.since]
           new == [updated EXCEPT !.rv = @ + 1]
<1>2. new.cond = c.cond
  BY <1>1 DEF Job
<1>3. job' = job \/ job' = new
  BY DEF UpdateStatus, UpdateJob, PutJob, JobUnchanged
<1> QED BY <1>2, <1>3

(* Only two writes turn Available true, and both are taken from a copy of  *)
(* the present version: the end of a pass and a bump.                      *)
LEMMA PassMakesAvailable ==
  ASSUME TypeOK, [Next]_vars, BecomesAvailable
  PROVE  /\ ReportSuccess \/ BumpCollision
         /\ Current(snap)
<1> USE DEF BecomesAvailable
<1>0. job \in Job /\ job' # job
  BY DEF TypeOK, ClusterTypeOK
<1>1. CASE Reconcile
  <2>1. CASE ReportFailure
    <3> DEFINE failed == [snap EXCEPT !.cond = "failed", !.since = now]
    <3>1. failed \in Job /\ failed.cond = "failed"
      BY <2>1 DEF ReportFailure, Job, TypeOK, ClusterTypeOK
    <3>2. UpdateStatus(failed)
      BY <1>0, <2>1 DEF ReportFailure, JobUnchanged
    <3> HIDE DEF failed
    <3> QED BY <1>0, <3>1, <3>2, StatusCondition
  <2>2. CASE ReportSuccess
    BY <1>0, <2>2 DEF ReportSuccess, JobUnchanged, UpdateStatus
  <2>3. CASE BumpCollision
    <3> DEFINE bumped == [snap EXCEPT !.collisions = @ + 1]
    <3>1. bumped.uid = snap.uid /\ bumped.rv = snap.rv
      BY <2>3, AbsentAssumption DEF BumpCollision, Job, TypeOK
    <3>2. UpdateStatus(bumped)
      BY <1>0, <2>3 DEF BumpCollision, JobUnchanged
    <3> HIDE DEF bumped
    <3> QED BY <2>3, <3>1, <3>2 DEF UpdateStatus, Current
  <2>4. CASE ~ReportFailure /\ ~ReportSuccess /\ ~BumpCollision
    BY <1>0, <1>1, <2>4
       DEF Reconcile, SkipReconcile, StartReconcile, ConstructBatchJob, ListForTTL, MarkExpired,
           DeleteExpired, DeleteStep, ListHistory, DeleteOld, ListExisting, CreateBatchJob,
           JobUnchanged, clusterVars, storeVars
  <2> QED BY <2>1, <2>2, <2>3, <2>4
<1>2. CASE ClusterNext /\ UNCHANGED ctlVars
  <2>1. CASE CreateJob
    BY <2>1 DEF CreateJob
  <2>2. CASE EditJob
    <3>1. PICK p \in Params, t \in TTLs, l \in Limits :
            UpdateJob([job EXCEPT !.params = p, !.ttl = t, !.limit = l])
      BY <2>2 DEF EditJob
    <3>2. job'.cond = job.cond
      BY <1>0, <3>1 DEF UpdateJob, PutJob, Job
    <3> QED BY <3>2
  <2>3. CASE DeleteJob
    <3>1. job' = NoJob \/ job'.cond = job.cond
      BY <1>0, <2>3 DEF DeleteJob, UpdateJob, PutJob, Job
    <3> QED BY <3>1
  <2>4. CASE FinalizeJob
    BY <2>4 DEF FinalizeJob, PutJob
  <2> QED BY <1>0, <1>2, <2>1, <2>2, <2>3, <2>4
          DEF ClusterNext, Users, EditProfile, DeleteBatch, Kubernetes, FinishBatch,
              CollectGarbage, Tick, JobUnchanged, storeVars
<1>3. CASE Deliver \/ Resync \/ CrashRestart \/ UNCHANGED vars
  BY <1>0, <1>3
     DEF Deliver, DeliverJob, DeliverProfile, DeliverBatch, Resync, CrashRestart,
         vars, clusterVars, storeVars
<1> QED BY <1>1, <1>2, <1>3 DEF Next

(* However old the copy of the Job that a pass began with, Available turns *)
(* true only for the spec the Job has at that moment.                      *)
THEOREM AvailableOnlyForPresentSpec == Spec => AvailableIsCurrent
<1>1. Init => TypeOK /\ CopiesInv
  BY InitTypeOK, InitCopies
<1>2. TypeOK /\ CopiesInv /\ [Next]_vars => (TypeOK /\ CopiesInv)'
  BY NextTypeOK, NextCopies
<1>3. ASSUME TypeOK, CopiesInv, [Next]_vars, BecomesAvailable
      PROVE  snap # NoJob /\ snap.uid = job.uid /\ Asked(snap) = Asked(job)
  <2>1. Current(snap) /\ pc # "idle"
    BY <1>3, PassMakesAvailable DEF ReportSuccess, BumpCollision
  <2>2. snap # NoJob /\ job # NoJob
    BY <1>3, <2>1 DEF Current, TypeOK
  <2>3. job.rv \in Nat
    BY <1>3, <2>2 DEF TypeOK, ClusterTypeOK, Job
  <2>4. CopyOf(snap, job, nextUid)
    BY <1>3 DEF CopiesInv
  <2> QED BY <2>1, <2>2, <2>3, <2>4 DEF Current, CopyOf
<1>4. TypeOK /\ CopiesInv /\ [Next]_vars =>
        [BecomesAvailable =>
           snap # NoJob /\ snap.uid = job.uid /\ Asked(snap) = Asked(job)]_vars
  BY <1>3
<1> QED BY <1>1, <1>2, <1>4, PTL DEF Spec, AvailableIsCurrent

-----------------------------------------------------------------------------
(***************************************************************************)
(* Copies of batch Jobs: done in a copy, done in the store, and a uid      *)
(* keeps its name.  Together with the uid precondition of a deletion this  *)
(* is why a running batch Job is never deleted by a pass.                  *)
(***************************************************************************)
Known(c, B, uid) ==
  /\ c.uid < uid
  /\ c.expired => c.done
  /\ \A x \in B : x.uid = c.uid => x.name = c.name /\ (c.done => x.done)

UniqueUids == \A x, y \in batch : x.uid = y.uid => x = y

DoneInv ==
  /\ UniqueUids
  /\ \A b \in batch : Known(b, batch, nextUid)
  /\ \A b \in cacheBatch : Known(b, batch, nextUid)
  /\ \A i \in DOMAIN batchEvents : Known(batchEvents[i].obj, batch, nextUid)
  /\ \A b \in todo : b.done /\ Known(b, batch, nextUid)

(* Where the batch Jobs of the store come from in a step: from one that    *)
(* was there under that name and was not more done, or they are new.       *)
FromBatch(B, C, uid, next) ==
  /\ uid <= next
  /\ \A y \in C : \/ \E x \in B : x.uid = y.uid /\ x.name = y.name /\ (x.done => y.done)
                  \/ uid <= y.uid /\ y.uid < next

LEMMA UidsGrow == TypeOK /\ [Next]_vars => nextUid' \in Nat /\ nextUid <= nextUid'
<1> SUFFICES ASSUME TypeOK, [Next]_vars PROVE nextUid' \in Nat /\ nextUid <= nextUid'
  OBVIOUS
<1>0. nextUid \in Nat
  BY DEF TypeOK, ClusterTypeOK
<1>1. nextUid' = nextUid \/ nextUid' = nextUid + 1
  <2>1. CASE Reconcile
    BY <2>1 DEF Reconcile, SkipReconcile, StartReconcile, ConstructBatchJob, ListForTTL,
      MarkExpired, DeleteExpired, ListHistory, DeleteOld, DeleteStep, ListExisting,
      CreateBatchJob, StoreBatchJob, BumpCollision, ReportFailure, ReportSuccess, EndPass,
      clusterVars, storeVars
  <2>2. CASE ClusterNext
    BY <2>2 DEF ClusterNext, Users, CreateJob, EditJob, DeleteJob, EditProfile, DeleteBatch,
      Kubernetes, Tick, storeVars
  <2>3. CASE Deliver \/ Resync \/ CrashRestart \/ UNCHANGED vars
    BY <2>3 DEF Deliver, Resync, CrashRestart, vars, clusterVars, storeVars
  <2> QED BY <2>1, <2>2, <2>3 DEF Next
<1> QED BY <1>0, <1>1

LEMMA ReplaceIsFrom ==
  ASSUME TypeOK, UniqueUids, NEW b, NEW c, Replaced(b, c), c.uid = b.uid,
         c.name = b.name, b.done => c.done, nextUid' \in Nat, nextUid <= nextUid'
  PROVE  FromBatch(batch, batch', nextUid, nextUid') /\ UniqueUids'
<1>1. b \in batch /\ batch' = (batch \ {b}) \cup {c}
  BY DEF Replaced
<1>2. FromBatch(batch, batch', nextUid, nextUid')
  BY <1>1 DEF FromBatch
<1>3. \A y \in batch \ {b} : y.uid # c.uid
  BY <1>1 DEF UniqueUids
<1> QED BY <1>1, <1>2, <1>3 DEF UniqueUids

LEMMA BatchFrom ==
  ASSUME TypeOK, DoneInv, [Next]_vars
  PROVE  FromBatch(batch, batch', nextUid, nextUid') /\ UniqueUids'
<1>0. batch \subseteq BatchJob /\ nextUid' \in Nat /\ nextUid <= nextUid' /\ nextUid \in Nat
      /\ UniqueUids
  BY UidsGrow DEF TypeOK, ClusterTypeOK, DoneInv
<1>1. CASE Removes
  BY <1>0, <1>1 DEF Removes, FromBatch, UniqueUids
<1>2. CASE StartsDeletion
  <2>1. PICK b : Replaced(b, [b EXCEPT !.deleting = TRUE])
    BY <1>2 DEF StartsDeletion
  <2>2. b \in BatchJob
    BY <1>0, <2>1 DEF Replaced
  <2> DEFINE c == [b EXCEPT !.deleting = TRUE]
  <2>3. Replaced(b, c) /\ c.uid = b.uid /\ c.name = b.name /\ c.done = b.done
    BY <2>1, <2>2 DEF BatchJob
  <2> HIDE DEF c
  <2> QED BY <1>0, <2>3, ReplaceIsFrom
<1>3. CASE Finishes
  <2>1. PICK b : Replaced(b, [b EXCEPT !.done = TRUE, !.finishedAt = now])
    BY <1>3 DEF Finishes
  <2>2. b \in BatchJob
    BY <1>0, <2>1 DEF Replaced
  <2> DEFINE c == [b EXCEPT !.done = TRUE, !.finishedAt = now]
  <2>3. Replaced(b, c) /\ c.uid = b.uid /\ c.name = b.name /\ c.done
    BY <2>1, <2>2 DEF BatchJob
  <2> HIDE DEF c
  <2> QED BY <1>0, <2>3, ReplaceIsFrom
<1>4. CASE Annotates
  <2>1. PICK b : Replaced(b, [b EXCEPT !.expired = TRUE])
    BY <1>4 DEF Annotates
  <2>2. b \in BatchJob
    BY <1>0, <2>1 DEF Replaced
  <2> DEFINE c == [b EXCEPT !.expired = TRUE]
  <2>3. Replaced(b, c) /\ c.uid = b.uid /\ c.name = b.name /\ c.done = b.done
    BY <2>1, <2>2 DEF BatchJob
  <2> HIDE DEF c
  <2> QED BY <1>0, <2>3, ReplaceIsFrom
<1>5. CASE Creates
  <2>1. snap \in Job /\ template \in Templates
    BY <1>5 DEF Creates, TypeOK, Steps
  <2>2. NextBatchJob(snap, template) \in BatchJob
    BY <2>1, NextBatchJobType DEF Job
  <2>3. NewBatchJob.uid = nextUid
    BY <2>2 DEF NewBatchJob, BatchJob
  <2>4. batch' = batch \cup {NewBatchJob} /\ nextUid' = nextUid + 1
    BY <1>5 DEF Creates
  <2>5. \A x \in batch : x.uid # nextUid /\ x.uid \in Nat
    BY <1>0 DEF DoneInv, Known, BatchJob
  <2>6. FromBatch(batch, batch', nextUid, nextUid')
    BY <1>0, <2>3, <2>4 DEF FromBatch
  <2> QED BY <1>0, <2>3, <2>4, <2>5, <2>6 DEF UniqueUids
<1> QED BY <1>1, <1>2, <1>3, <1>4, <1>5, BatchSteps

LEMMA KnownStays ==
  ASSUME NEW c \in BatchJob, NEW B, NEW C \in SUBSET BatchJob, NEW uid \in Nat, NEW next \in Nat,
         Known(c, B, uid), FromBatch(B, C, uid, next)
  PROVE  Known(c, C, next)
<1>1. c.uid \in Nat /\ \A y \in C : y.uid \in Nat
  BY DEF BatchJob
<1>2. c.uid < next
  BY <1>1 DEF Known, FromBatch
<1>3. ASSUME NEW y \in C, y.uid = c.uid PROVE y.name = c.name /\ (c.done => y.done)
  <2>1. PICK x \in B : x.uid = y.uid /\ x.name = y.name /\ (x.done => y.done)
    BY <1>1, <1>3 DEF Known, FromBatch
  <2> QED BY <1>3, <2>1 DEF Known
<1> QED BY <1>2, <1>3 DEF Known

(* An event shows a batch Job as it was or as it is after the step.        *)
EventShows(e) == e.obj \in batch \cup batch'

NewEvents ==
  \A i \in DOMAIN batchEvents' :
    \/ \E j \in DOMAIN batchEvents : batchEvents'[i] = batchEvents[j]
    \/ EventShows(batchEvents'[i])

LEMMA ChangeEvents ==
  ASSUME TypeOK, NEW old, NEW new, NEW e, ChangeBatch(old, new, e), EventShows(e)
  PROVE  NewEvents
<1>1. batchEvents' = Append(batchEvents, e) /\ batchEvents \in Seq(BatchEvent)
  BY DEF ChangeBatch, TypeOK, ClusterTypeOK
<1>2. \A i \in DOMAIN batchEvents' :
        batchEvents'[i] = e \/ (i \in DOMAIN batchEvents /\ batchEvents'[i] = batchEvents[i])
  BY <1>1
<1> QED BY <1>2 DEF NewEvents

LEMMA AddEvents ==
  ASSUME TypeOK, NEW b, AddBatch(b)
  PROVE  NewEvents
<1> DEFINE e == [gone |-> FALSE, obj |-> b]
<1>1. ChangeBatch({}, {b}, e) /\ e.obj = b
  BY DEF AddBatch
<1>2. EventShows(e)
  BY <1>1 DEF ChangeBatch, EventShows
<1> HIDE DEF e
<1> QED BY <1>1, <1>2, ChangeEvents

LEMMA PutEvents ==
  ASSUME TypeOK, NEW b, NEW c, PutBatch(b, c)
  PROVE  NewEvents
<1> DEFINE e == [gone |-> FALSE, obj |-> c]
<1>1. ChangeBatch({b}, {c}, e) /\ e.obj = c
  BY DEF PutBatch
<1>2. EventShows(e)
  BY <1>1 DEF ChangeBatch, EventShows
<1> HIDE DEF e
<1> QED BY <1>1, <1>2, ChangeEvents

LEMMA DropEvents ==
  ASSUME TypeOK, NEW b \in batch, DropBatch(b)
  PROVE  NewEvents
<1> DEFINE e == [gone |-> TRUE, obj |-> b]
<1>1. ChangeBatch({b}, {}, e) /\ e.obj = b
  BY DEF DropBatch
<1>2. EventShows(e)
  BY <1>1 DEF EventShows
<1> HIDE DEF e
<1> QED BY <1>1, <1>2, ChangeEvents

LEMMA KeptEvents ==
  ASSUME batchEvents' = batchEvents
  PROVE  NewEvents
BY DEF NewEvents

LEMMA DeleteEvents ==
  ASSUME TypeOK, NEW b, DeleteStep(b)
  PROVE  NewEvents
<1>1. Delete(b)
  BY DEF DeleteStep
<1>2. BatchUnchanged \/ \E x \in batch : DropBatch(x)
  BY <1>1 DEF Delete
<1> QED BY <1>2, DropEvents, KeptEvents DEF BatchUnchanged

LEMMA EventSteps ==
  ASSUME TypeOK, [Next]_vars
  PROVE  NewEvents
<1>1. CASE Reconcile
  <2>1. CASE CreateBatchJob
    <3>1. batchEvents' = batchEvents \/ \E b : AddBatch(b)
      BY <2>1 DEF CreateBatchJob, StoreBatchJob, BatchUnchanged
    <3> QED BY <3>1, AddEvents, KeptEvents
  <2>2. CASE MarkExpired
    <3>1. PICK b \in NewestOf(mark) : AddTTLExpiredAnnotation(b)
      BY <2>2 DEF MarkExpired
    <3>2. batchEvents' = batchEvents \/ PutBatch(b, [b EXCEPT !.expired = TRUE])
      BY <3>1 DEF AddTTLExpiredAnnotation, BatchUnchanged
    <3> QED BY <3>2, PutEvents, KeptEvents
  <2>3. CASE DeleteExpired \/ DeleteOld
    <3>1. \E b \in todo : DeleteStep(b)
      BY <2>3 DEF DeleteExpired, DeleteOld, OldestOf, NewestOf
    <3> QED BY <3>1, DeleteEvents
  <2>4. CASE \/ SkipReconcile \/ StartReconcile \/ ConstructBatchJob \/ ListForTTL
             \/ ListHistory \/ ListExisting \/ BumpCollision \/ ReportFailure
             \/ ReportSuccess
    <3>1. batchEvents' = batchEvents
      BY <2>4 DEF SkipReconcile, StartReconcile, ConstructBatchJob, ListForTTL, ListHistory,
        ListExisting, BumpCollision, ReportFailure, ReportSuccess, EndPass, clusterVars,
        storeVars, BatchUnchanged
    <3> QED BY <3>1, KeptEvents
  <2> QED BY <1>1, <2>1, <2>2, <2>3, <2>4 DEF Reconcile
<1>2. CASE ClusterNext
  <2>1. CASE \E b \in batch : DeleteBatch(b) \/ FinishBatch(b) \/ CollectGarbage(b)
    <3>1. PICK b \in batch : DeleteBatch(b) \/ FinishBatch(b) \/ CollectGarbage(b)
      BY <2>1
    <3>2. DropBatch(b) \/ \E c : PutBatch(b, c)
      BY <3>1 DEF DeleteBatch, FinishBatch, CollectGarbage
    <3> QED BY <3>2, DropEvents, PutEvents
  <2>2. CASE \/ CreateJob \/ EditJob \/ DeleteJob \/ EditProfile \/ FinalizeJob \/ Tick
    <3>1. batchEvents' = batchEvents
      BY <2>2 DEF CreateJob, EditJob, DeleteJob, EditProfile, FinalizeJob, Tick, storeVars,
        BatchUnchanged
    <3> QED BY <3>1, KeptEvents
  <2> QED BY <1>2, <2>1, <2>2 DEF ClusterNext, Users, Kubernetes
<1>3. CASE Deliver
  <2>1. CASE DeliverBatch
    <3>1. batchEvents \in Seq(BatchEvent) /\ batchEvents # <<>>
          /\ batchEvents' = Tail(batchEvents)
      BY <2>1 DEF DeliverBatch, TypeOK, ClusterTypeOK
    <3>2. \A i \in DOMAIN batchEvents' :
            i + 1 \in DOMAIN batchEvents /\ batchEvents'[i] = batchEvents[i + 1]
      BY <3>1
    <3> QED BY <3>2 DEF NewEvents
  <2>2. CASE DeliverJob \/ DeliverProfile
    BY <2>2, KeptEvents DEF DeliverJob, DeliverProfile
  <2> QED BY <1>3, <2>1, <2>2 DEF Deliver
<1>4. CASE Resync \/ UNCHANGED vars
  BY <1>4, KeptEvents DEF Resync, vars, clusterVars, storeVars
<1>5. CASE CrashRestart
  BY <1>5 DEF CrashRestart, NewEvents
<1> QED BY <1>1, <1>2, <1>3, <1>4, <1>5 DEF Next

LEMMA CacheSteps ==
  ASSUME TypeOK, [Next]_vars
  PROVE  \A b \in cacheBatch' :
           \/ b \in cacheBatch \/ b \in batch
           \/ \E i \in DOMAIN batchEvents : b = batchEvents[i].obj
<1>1. CASE UNCHANGED cacheVars
  BY <1>1 DEF cacheVars
<1>2. CASE Deliver
  <2>1. CASE DeliverBatch
    <3>1. 1 \in DOMAIN batchEvents /\ Head(batchEvents) = batchEvents[1]
      BY <2>1 DEF DeliverBatch, TypeOK, ClusterTypeOK
    <3> QED BY <2>1, <3>1 DEF DeliverBatch
  <2>2. CASE DeliverJob \/ DeliverProfile
    BY <2>2 DEF DeliverJob, DeliverProfile
  <2> QED BY <1>2, <2>1, <2>2 DEF Deliver
<1>3. CASE CrashRestart
  BY <1>3 DEF CrashRestart
<1>4. CASE Reconcile
  <2>1. UNCHANGED cacheVars
    BY <1>4 DEF Reconcile, SkipReconcile, StartReconcile, ConstructBatchJob, ListForTTL,
      MarkExpired, DeleteExpired, ListHistory, DeleteOld, DeleteStep, ListExisting,
      CreateBatchJob, BumpCollision, ReportFailure, ReportSuccess, EndPass, cacheVars
  <2> QED BY <1>1, <2>1
<1>5. CASE Resync \/ UNCHANGED vars \/ UNCHANGED ctlVars
  <2>1. UNCHANGED cacheVars
    BY <1>5 DEF Resync, vars, ctlVars
  <2> QED BY <1>1, <2>1
<1> QED BY <1>2, <1>3, <1>4, <1>5 DEF Next

LEMMA TodoSteps ==
  ASSUME TypeOK, [Next]_vars
  PROVE  \A b \in todo' : b \in todo \/ (b \in ReadBatch /\ (b.done \/ b.expired))
<1>1. CASE UNCHANGED todo \/ todo' = {}
  BY <1>1
<1>2. CASE Reconcile
  <2>1. CASE ListForTTL
    <3>1. todo' = todo \/ todo' \in TTLVictims(ReadBatch)
      BY <2>1 DEF ListForTTL
    <3> QED BY <3>1 DEF TTLVictims
  <2>2. CASE ListHistory
    <3>1. todo' = {} \/ todo' \in HistoryVictims(ReadBatch, snap.limit)
      BY <2>2 DEF ListHistory
    <3>2. todo' \subseteq Finished(ReadBatch)
      BY <3>1 DEF HistoryVictims
    <3> QED BY <3>2 DEF Finished
  <2>3. CASE DeleteExpired \/ DeleteOld
    BY <2>3 DEF DeleteExpired, DeleteOld, DeleteStep
  <2>4. CASE \/ SkipReconcile \/ StartReconcile \/ ConstructBatchJob \/ MarkExpired
             \/ ListExisting \/ CreateBatchJob \/ BumpCollision \/ ReportFailure
             \/ ReportSuccess
    BY <1>1, <2>4 DEF SkipReconcile, StartReconcile, ConstructBatchJob, MarkExpired,
      ListExisting, CreateBatchJob, BumpCollision, ReportFailure, ReportSuccess, EndPass,
      passVars
  <2> QED BY <1>2, <2>1, <2>2, <2>3, <2>4 DEF Reconcile
<1>3. CASE Deliver \/ Resync \/ CrashRestart \/ UNCHANGED vars \/ UNCHANGED ctlVars
  BY <1>1, <1>3 DEF Deliver, Resync, CrashRestart, vars, ctlVars, passVars
<1> QED BY <1>2, <1>3 DEF Next

LEMMA NextDone ==
  ASSUME TypeOK, TypeOK', ExpiryInv, ExpiryInv', DoneInv, [Next]_vars
  PROVE  DoneInv'
<1>0. /\ batch \subseteq BatchJob /\ cacheBatch \subseteq BatchJob /\ todo \subseteq BatchJob
      /\ batch' \subseteq BatchJob /\ batchEvents \in Seq(BatchEvent)
      /\ nextUid \in Nat /\ nextUid' \in Nat
  BY DEF TypeOK, ClusterTypeOK
<1>1. UniqueUids' /\ FromBatch(batch, batch', nextUid, nextUid')
  BY BatchFrom
<1>2. ASSUME NEW b \in BatchJob, Known(b, batch, nextUid)
      PROVE  Known(b, batch', nextUid')
  BY <1>0, <1>1, <1>2, KnownStays
<1>3. ASSUME NEW b \in batch' PROVE Known(b, batch', nextUid')
  <2>1. b.expired => b.done
    BY <1>3 DEF ExpiryInv, ExpiryJustified
  <2>2. \A x \in batch' : x.uid = b.uid => x = b
    BY <1>1, <1>3 DEF UniqueUids
  <2>3. b.uid < nextUid'
    <3>1. CASE \E x \in batch : x.uid = b.uid
      BY <1>0, <1>1, <3>1 DEF DoneInv, Known, FromBatch, BatchJob
    <3>2. CASE ~ \E x \in batch : x.uid = b.uid
      BY <1>1, <1>3, <3>2 DEF FromBatch
    <3> QED BY <3>1, <3>2
  <2> QED BY <2>1, <2>2, <2>3 DEF Known
<1>4. ASSUME NEW b \in batch PROVE Known(b, batch', nextUid')
  BY <1>0, <1>2, <1>4 DEF DoneInv
<1>5. ASSUME NEW i \in DOMAIN batchEvents PROVE Known(batchEvents[i].obj, batch', nextUid')
  <2>1. batchEvents[i] \in BatchEvent
    BY <1>0, <1>5
  <2>2. batchEvents[i].obj \in BatchJob
    BY <2>1 DEF BatchEvent
  <2> QED BY <1>2, <1>5, <2>2 DEF DoneInv
<1>6. ASSUME NEW i \in DOMAIN batchEvents'
      PROVE  Known(batchEvents'[i].obj, batch', nextUid')
  BY <1>3, <1>4, <1>5, <1>6, EventSteps DEF NewEvents, EventShows
<1>7. ASSUME NEW b \in cacheBatch' PROVE Known(b, batch', nextUid')
  <2>1. CASE b \in cacheBatch
    BY <1>0, <1>2, <2>1 DEF DoneInv
  <2> QED BY <1>4, <1>5, <1>7, <2>1, CacheSteps
<1>8. ASSUME NEW b \in todo' PROVE b.done /\ Known(b, batch', nextUid')
  <2>1. CASE b \in todo
    BY <1>0, <1>2, <2>1 DEF DoneInv
  <2>2. CASE b \in ReadBatch /\ (b.done \/ b.expired)
    <3>1. b \in BatchJob /\ Known(b, batch, nextUid)
      BY <1>0, <2>2 DEF ReadBatch, DoneInv
    <3> QED BY <1>2, <2>2, <3>1 DEF Known
  <2> QED BY <1>8, <2>1, <2>2, TodoSteps
<1> QED BY <1>1, <1>3, <1>6, <1>7, <1>8 DEF DoneInv

(* A step that changes what a pass has left to delete removes no batch Job *)
(* from the store but one of these.                                        *)
LEMMA OnlyDeletionsRemove ==
  ASSUME TypeOK, [Next]_vars, todo' # todo,
         NEW b \in batch, \A x \in batch' : x.uid # b.uid
  PROVE  \E c \in todo : c.uid = b.uid
<1>0. batch' # batch
  OBVIOUS
<1>1. ASSUME NEW c \in todo, DeleteStep(c) PROVE c.uid = b.uid
  <2>1. \E x \in batch : SameObject(x, c) /\ DropBatch(x)
    BY <1>0, <1>1 DEF DeleteStep, Delete, BatchUnchanged
  <2>2. PICK x \in batch : x.uid = c.uid /\ batch' = batch \ {x}
    BY <2>1 DEF SameObject, DropBatch, ChangeBatch
  <2> QED BY <2>2
<1>2. CASE Reconcile
  <2>1. CASE DeleteExpired \/ DeleteOld
    BY <1>1, <2>1 DEF DeleteExpired, DeleteOld, OldestOf, NewestOf
  <2>2. CASE ~DeleteExpired /\ ~DeleteOld
    BY <1>0, <1>2, <2>2
       DEF Reconcile, SkipReconcile, StartReconcile, ConstructBatchJob, ListForTTL,
           MarkExpired, ListHistory, ListExisting, CreateBatchJob, BumpCollision,
           ReportFailure, ReportSuccess, EndPass, passVars, clusterVars, storeVars,
           BatchUnchanged
  <2> QED BY <2>1, <2>2
<1>3. CASE ~Reconcile
  BY <1>0, <1>3
     DEF Next, Deliver, Resync, CrashRestart, vars, ctlVars, clusterVars, storeVars, passVars
<1> QED BY <1>2, <1>3

(* A pass deletes only batch Jobs that have finished, however stale the    *)
(* listing: done in a copy is done for good, and the uid precondition      *)
(* makes the copy and the object in the store the same batch Job.          *)
THEOREM RunningIsNeverDeleted == Spec => NeverDeletesRunning
<1>1. Init => TypeOK /\ ExpiryInv /\ DoneInv
  <2>1. Init => ExpiryInv /\ DoneInv
    BY DEF Init, ClusterInit, ExpiryInv, ExpiryJustified, DoneInv, UniqueUids
  <2> QED BY <2>1, InitTypeOK
<1>2. TypeOK /\ ExpiryInv /\ DoneInv /\ [Next]_vars => (TypeOK /\ ExpiryInv /\ DoneInv)'
  BY NextTypeOK, ExpiryStep, NextDone
<1>3. ASSUME TypeOK, DoneInv, [Next]_vars, todo' # todo,
             NEW b \in batch, \A x \in batch' : x.uid # b.uid
      PROVE  b.done
  BY <1>3, OnlyDeletionsRemove DEF DoneInv, Known
<1>4. TypeOK /\ DoneInv /\ [Next]_vars =>
        [todo' # todo =>
           \A b \in batch : (\A x \in batch' : x.uid # b.uid) => b.done]_vars
  BY <1>3
<1> QED BY <1>1, <1>2, <1>4, PTL DEF Spec, NeverDeletesRunning
=============================================================================
