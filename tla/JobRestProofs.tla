--------------------------- MODULE JobRestProofs ---------------------------
(* Whenever JobController rests, for any values of the constants and       *)
(* caches of any age, nothing is left undone: the newest batch Job is the  *)
(* wanted one, no history beyond the limit and no expired batch Job is     *)
(* forgotten.  What makes this true of a controller that decides on old    *)
(* copies: whatever a cache does not show yet is an event on its way, and  *)
(* an event calls the controller back.                                     *)
EXTENDS JobRemainsProofs

(***************************************************************************)
(* Sequences of events.                                                    *)
(***************************************************************************)
LEMMA OneOrMore == \A n \in Nat : n > 0 => n = 1 \/ n > 1
OBVIOUS

LEMMA LongIsNotEmpty ==
  ASSUME NEW S, NEW s \in Seq(S), Len(s) > 0
  PROVE  s # <<>>
OBVIOUS

LEMMA LastOfTail ==
  ASSUME NEW S, NEW s \in Seq(S), Len(s) > 1
  PROVE  Tail(s) # <<>> /\ Len(Tail(s)) = Len(s) - 1 /\ Tail(s)[Len(s) - 1] = s[Len(s)]
<1>1. Len(s) \in Nat /\ Len(s) - 1 > 0
  OBVIOUS
<1>2. Len(Tail(s)) = Len(s) - 1
  OBVIOUS
<1>3. Tail(s) # <<>>
  <2>1. Tail(s) \in Seq(S) /\ Len(Tail(s)) > 0
    BY <1>1, <1>2
  <2> QED BY <2>1, LongIsNotEmpty
<1>4. Tail(s)[Len(s) - 1] = s[Len(s)]
  BY <1>1
<1> QED BY <1>2, <1>3, <1>4

LEMMA TailOfOne ==
  ASSUME NEW S, NEW s \in Seq(S), NEW t, t = Tail(s), Len(s) = 1
  PROVE  t = <<>>
OBVIOUS

LEMMA AppendIsNotEmpty ==
  ASSUME NEW S, NEW s \in Seq(S), NEW x \in S
  PROVE  Append(s, x) # <<>>
<1>1. Len(s) + 1 \in DOMAIN Append(s, x)
  OBVIOUS
<1> QED BY <1>1

(* A cache and its watch: with no event on its way the cache shows what is *)
(* in the store, otherwise the last event does.                            *)
Shown(events, cached, stored) ==
  IF events = <<>> THEN cached = stored ELSE events[Len(events)] = stored

LEMMA AppendIsShown ==
  ASSUME NEW S, NEW s \in Seq(S), NEW x \in S, NEW c
  PROVE  Shown(Append(s, x), c, x)
<1>1. Append(s, x) # <<>> /\ Append(s, x)[Len(Append(s, x))] = x
  OBVIOUS
<1> QED BY <1>1 DEF Shown

LEMMA TailIsShown ==
  ASSUME NEW S, NEW s \in Seq(S), s # <<>>, NEW c, NEW x, Shown(s, c, x)
  PROVE  Shown(Tail(s), Head(s), x)
<1>1. CASE Len(s) = 1
  <2>1. Tail(s) = <<>>
    BY <1>1, TailOfOne
  <2>2. Head(s) = s[Len(s)]
    BY <1>1
  <2> QED BY <2>1, <2>2 DEF Shown
<1>2. CASE Len(s) > 1
  BY <1>2, LastOfTail DEF Shown
<1>3. Len(s) \in Nat /\ Len(s) > 0
  OBVIOUS
<1> QED BY <1>1, <1>2, <1>3, OneOrMore

(***************************************************************************)
(* The caches of the Job and its PodProfile follow the store.              *)
(***************************************************************************)
JobSeen == Shown(jobEvents, cacheJob, job)
ProfileSeen == Shown(profileEvents, cacheProfile, profile)

LEMMA JobTold ==
  ASSUME TypeOK, CopiesInv, [Next]_vars, ~Deliver, ~CrashRestart
  PROVE  /\ JobUnchanged \/ jobEvents' = Append(jobEvents, job')
         /\ cacheJob' = cacheJob
<1>1. CASE Reconcile
  BY <1>1, ReconcileSteps DEF Announced
<1>2. CASE ClusterNext /\ UNCHANGED ctlVars
  BY <1>2, ClusterSteps DEF Announced, ctlVars, cacheVars
<1>3. CASE Resync \/ UNCHANGED vars
  BY <1>3 DEF Resync, JobUnchanged, vars, ctlVars, clusterVars, storeVars, cacheVars
<1> QED BY <1>1, <1>2, <1>3 DEF Next

LEMMA NextJobSeen ==
  ASSUME TypeOK, TypeOK', CopiesInv, JobSeen, [Next]_vars
  PROVE  JobSeen'
<1>0. /\ jobEvents \in Seq(Job \cup {NoJob}) /\ job' \in Job \cup {NoJob}
  BY DEF TypeOK, ClusterTypeOK
<1>1. CASE Deliver
  <2>1. CASE DeliverJob
    BY <1>0, <2>1, TailIsShown DEF DeliverJob, JobSeen
  <2>2. CASE DeliverProfile \/ DeliverBatch
    BY <2>2 DEF DeliverProfile, DeliverBatch, JobSeen
  <2> QED BY <1>1, <2>1, <2>2 DEF Deliver
<1>2. CASE CrashRestart
  BY <1>2 DEF CrashRestart, JobSeen, Shown
<1>3. CASE ~Deliver /\ ~CrashRestart
  <2>1. CASE JobUnchanged
    BY <1>3, <2>1, JobTold DEF JobUnchanged, JobSeen
  <2>2. CASE jobEvents' = Append(jobEvents, job')
    BY <1>0, <2>2, AppendIsShown DEF JobSeen
  <2> QED BY <1>3, <2>1, <2>2, JobTold
<1> QED BY <1>1, <1>2, <1>3

LEMMA ProfileTold ==
  ASSUME TypeOK, [Next]_vars, ~Deliver, ~CrashRestart
  PROVE  /\ ProfileUnchanged \/ profileEvents' = Append(profileEvents, profile')
         /\ cacheProfile' = cacheProfile
<1>1. CASE Reconcile
  BY <1>1 DEF Reconcile, SkipReconcile, StartReconcile, ConstructBatchJob, ListForTTL,
    MarkExpired, DeleteExpired, ListHistory, DeleteOld, DeleteStep, ListExisting,
    CreateBatchJob, BumpCollision, ReportFailure, ReportSuccess, EndPass, ProfileUnchanged,
    clusterVars, storeVars, cacheVars
<1>2. CASE ClusterNext /\ UNCHANGED ctlVars
  <2>1. CASE EditProfile
    BY <1>2, <2>1 DEF EditProfile, PutProfile, ctlVars, cacheVars
  <2>2. CASE ~EditProfile
    <3>1. ProfileUnchanged
      BY <1>2, <2>2 DEF ClusterNext, Users, CreateJob, EditJob, DeleteJob, DeleteBatch,
        Kubernetes, Tick, storeVars, ProfileUnchanged
    <3> QED BY <1>2, <3>1 DEF ctlVars, cacheVars
  <2> QED BY <2>1, <2>2
<1>3. CASE Resync \/ UNCHANGED vars
  BY <1>3 DEF Resync, ProfileUnchanged, vars, ctlVars, clusterVars, storeVars, cacheVars
<1> QED BY <1>1, <1>2, <1>3 DEF Next

LEMMA NextProfileSeen ==
  ASSUME TypeOK, TypeOK', ProfileSeen, [Next]_vars
  PROVE  ProfileSeen'
<1>0. /\ profileEvents \in Seq(Templates \cup {NoProfile})
      /\ profile' \in Templates \cup {NoProfile}
  BY DEF TypeOK, ClusterTypeOK
<1>1. CASE Deliver
  <2>1. CASE DeliverProfile
    BY <1>0, <1>1, <2>1, TailIsShown DEF Deliver, DeliverProfile, ProfileSeen
  <2>2. CASE DeliverJob \/ DeliverBatch
    BY <1>1, <2>2 DEF Deliver, DeliverJob, DeliverBatch, ProfileSeen
  <2> QED BY <1>1, <2>1, <2>2 DEF Deliver
<1>2. CASE CrashRestart
  BY <1>2 DEF CrashRestart, ProfileSeen, Shown
<1>3. CASE ~Deliver /\ ~CrashRestart
  <2>1. CASE ProfileUnchanged
    BY <1>3, <2>1, ProfileTold DEF ProfileUnchanged, ProfileSeen
  <2>2. CASE profileEvents' = Append(profileEvents, profile')
    BY <1>0, <2>2, AppendIsShown DEF ProfileSeen
  <2> QED BY <1>3, <2>1, <2>2, ProfileTold
<1> QED BY <1>1, <1>2, <1>3

(***************************************************************************)
(* The cache of the batch Jobs follows the store, name by name: the last   *)
(* event of a name tells what the store holds under it.                    *)
(***************************************************************************)
Named(L, n) == {b \in L : b.name = n}

UniqueNames == \A x, y \in batch : x.name = y.name => x = y

Tells(e, n) ==
  /\ e.obj.name = n
  /\ Named(batch, n) = IF e.gone THEN {} ELSE {e.obj}

BatchSeen(n) ==
  \/ /\ \A i \in DOMAIN batchEvents : batchEvents[i].obj.name # n
     /\ Named(cacheBatch, n) = Named(batch, n)
  \/ \E i \in DOMAIN batchEvents :
       /\ Tells(batchEvents[i], n)
       /\ \A j \in DOMAIN batchEvents : j > i => batchEvents[j].obj.name # n

BatchesSeen == \A n \in Names : BatchSeen(n)

(* A write to the batch Jobs changes what is stored under one name and     *)
(* tells so.                                                               *)
Told(e) ==
  /\ batchEvents' = Append(batchEvents, e)
  /\ batch' = {b \in batch : b.name # e.obj.name} \cup (IF e.gone THEN {} ELSE {e.obj})

BatchTold == BatchUnchanged \/ \E e \in BatchEvent : Told(e)

LEMMA AddTold ==
  ASSUME TypeOK, NEW b \in BatchJob, \A x \in batch : x.name # b.name, AddBatch(b)
  PROVE  \E e \in BatchEvent : Told(e) /\ Relevant(e)
<1> DEFINE e == [gone |-> FALSE, obj |-> b]
<1>1. e \in BatchEvent /\ ~e.gone /\ e.obj = b
  BY DEF BatchEvent
<1>2. batchEvents' = Append(batchEvents, e) /\ batch' = batch \cup {b}
  BY DEF AddBatch, ChangeBatch
<1> HIDE DEF e
<1> QED BY <1>1, <1>2 DEF Told, Relevant

LEMMA PutTold ==
  ASSUME TypeOK, UniqueNames, NEW b \in batch, NEW c \in BatchJob, c.name = b.name,
         PutBatch(b, c)
  PROVE  \E e \in BatchEvent : Told(e) /\ Relevant(e)
<1> DEFINE e == [gone |-> FALSE, obj |-> c]
<1>1. e \in BatchEvent /\ ~e.gone /\ e.obj = c
  BY DEF BatchEvent
<1>2. batchEvents' = Append(batchEvents, e) /\ batch' = (batch \ {b}) \cup {c}
  BY DEF PutBatch, ChangeBatch
<1>3. batch \ {b} = {x \in batch : x.name # c.name}
  BY DEF UniqueNames
<1> HIDE DEF e
<1> QED BY <1>1, <1>2, <1>3 DEF Told, Relevant

LEMMA DropTold ==
  ASSUME TypeOK, UniqueNames, NEW b \in batch, DropBatch(b)
  PROVE  \E e \in BatchEvent : Told(e)
<1> DEFINE e == [gone |-> TRUE, obj |-> b]
<1>1. e \in BatchEvent /\ e.gone /\ e.obj = b
  BY DEF BatchEvent, TypeOK, ClusterTypeOK
<1>2. batchEvents' = Append(batchEvents, e) /\ batch' = batch \ {b}
  BY DEF DropBatch, ChangeBatch
<1>3. batch \ {b} = {x \in batch : x.name # b.name}
  BY DEF UniqueNames
<1> HIDE DEF e
<1> QED BY <1>1, <1>2, <1>3 DEF Told

LEMMA BatchIsTold ==
  ASSUME TypeOK, UniqueNames, [Next]_vars, ~Deliver, ~CrashRestart
  PROVE  BatchTold /\ cacheBatch' = cacheBatch
<1>0. batch \subseteq BatchJob /\ mark \subseteq BatchJob /\ now \in Nat /\ nextUid \in Nat
  BY DEF TypeOK, ClusterTypeOK
<1>1. CASE Reconcile
  <2>1. cacheBatch' = cacheBatch
    BY <1>1 DEF Reconcile, SkipReconcile, StartReconcile, ConstructBatchJob, ListForTTL,
      MarkExpired, DeleteExpired, ListHistory, DeleteOld, DeleteStep, ListExisting,
      CreateBatchJob, BumpCollision, ReportFailure, ReportSuccess, EndPass, cacheVars
  <2>2. CASE MarkExpired
    <3>1. PICK b \in mark : AddTTLExpiredAnnotation(b)
      BY <2>2 DEF MarkExpired, NewestOf
    <3> DEFINE c == [b EXCEPT !.expired = TRUE]
    <3>2. c \in BatchJob /\ c.name = b.name
      BY <1>0 DEF BatchJob
    <3>3. BatchUnchanged \/ (b \in batch /\ PutBatch(b, c))
      BY <3>1 DEF AddTTLExpiredAnnotation
    <3> HIDE DEF c
    <3> QED BY <2>1, <3>2, <3>3, PutTold DEF BatchTold
  <2>3. CASE DeleteExpired \/ DeleteOld
    <3>1. PICK b \in todo : DeleteStep(b)
      BY <2>3 DEF DeleteExpired, DeleteOld, OldestOf, NewestOf
    <3>2. BatchUnchanged \/ \E x \in batch : DropBatch(x)
      BY <3>1 DEF DeleteStep, Delete
    <3> QED BY <2>1, <3>2, DropTold DEF BatchTold
  <2>4. CASE CreateBatchJob
    <3> DEFINE b == NextBatchJob(snap, template)
               c == [b EXCEPT !.uid = nextUid, !.created = now]
    <3>1. BatchUnchanged \/ (StoreBatchJob(b) /\ \A x \in batch : x.name # b.name)
      BY <2>4 DEF CreateBatchJob
    <3>2. snap \in Job /\ template \in Templates
      BY <2>4 DEF CreateBatchJob, TypeOK, Steps
    <3>3. b \in BatchJob
      BY <3>2, NextBatchJobType DEF Job
    <3>4. c \in BatchJob /\ c.name = b.name
      <4> HIDE DEF b
      <4> QED BY <1>0, <3>3 DEF BatchJob
    <3>5. StoreBatchJob(b) => AddBatch(c)
      BY DEF StoreBatchJob
    <3> HIDE DEF b, c
    <3> QED BY <2>1, <3>1, <3>4, <3>5, AddTold DEF BatchTold
  <2>5. CASE \/ SkipReconcile \/ StartReconcile \/ ConstructBatchJob \/ ListForTTL
             \/ ListHistory \/ ListExisting \/ BumpCollision \/ ReportFailure
             \/ ReportSuccess
    <3>1. BatchUnchanged
      BY <2>5 DEF SkipReconcile, StartReconcile, ConstructBatchJob, ListForTTL, ListHistory,
        ListExisting, BumpCollision, ReportFailure, ReportSuccess, EndPass, clusterVars,
        storeVars, BatchUnchanged
    <3> QED BY <2>1, <3>1 DEF BatchTold
  <2> QED BY <1>1, <2>2, <2>3, <2>4, <2>5 DEF Reconcile
<1>2. CASE ClusterNext /\ UNCHANGED ctlVars
  <2>1. cacheBatch' = cacheBatch
    BY <1>2 DEF ctlVars, cacheVars
  <2>2. CASE \E b \in batch : DeleteBatch(b) \/ FinishBatch(b) \/ CollectGarbage(b)
    <3>1. PICK b \in batch : DeleteBatch(b) \/ FinishBatch(b) \/ CollectGarbage(b)
      BY <2>2
    <3> DEFINE c == [b EXCEPT !.deleting = TRUE]
               d == [b EXCEPT !.done = TRUE, !.finishedAt = now]
    <3>2. c \in BatchJob /\ c.name = b.name /\ d \in BatchJob /\ d.name = b.name
      BY <1>0 DEF BatchJob
    <3>3. DropBatch(b) \/ PutBatch(b, c) \/ PutBatch(b, d)
      BY <3>1 DEF DeleteBatch, FinishBatch, CollectGarbage
    <3> HIDE DEF c, d
    <3> QED BY <2>1, <3>2, <3>3, DropTold, PutTold DEF BatchTold
  <2>3. CASE ~ \E b \in batch : DeleteBatch(b) \/ FinishBatch(b) \/ CollectGarbage(b)
    <3>1. BatchUnchanged
      BY <1>2, <2>3 DEF ClusterNext, Users, CreateJob, EditJob, DeleteJob, EditProfile,
        Kubernetes, FinalizeJob, Tick, storeVars, BatchUnchanged
    <3> QED BY <2>1, <3>1 DEF BatchTold
  <2> QED BY <2>2, <2>3
<1>3. CASE Resync \/ UNCHANGED vars
  BY <1>3 DEF Resync, BatchTold, BatchUnchanged, vars, ctlVars, clusterVars, storeVars,
    cacheVars
<1> QED BY <1>1, <1>2, <1>3 DEF Next

LEMMA NextUniqueNames ==
  ASSUME TypeOK, UniqueNames, [Next]_vars
  PROVE  UniqueNames'
<1>1. CASE Deliver \/ CrashRestart
  BY <1>1 DEF Deliver, CrashRestart, UniqueNames
<1>2. CASE BatchUnchanged
  BY <1>2 DEF BatchUnchanged, UniqueNames
<1>3. ASSUME NEW e \in BatchEvent, Told(e) PROVE UniqueNames'
  BY <1>3 DEF Told, UniqueNames
<1> QED BY <1>1, <1>2, <1>3, BatchIsTold DEF BatchTold

LEMMA ToldIsSeen ==
  ASSUME TypeOK, BatchesSeen, NEW e \in BatchEvent, Told(e), cacheBatch' = cacheBatch
  PROVE  BatchesSeen'
<1>0. batchEvents \in Seq(BatchEvent) /\ batchEvents' = Append(batchEvents, e)
  BY DEF TypeOK, ClusterTypeOK, Told
<1>1. /\ DOMAIN batchEvents' = DOMAIN batchEvents \cup {Len(batchEvents) + 1}
      /\ batchEvents'[Len(batchEvents) + 1] = e
      /\ \A i \in DOMAIN batchEvents :
           batchEvents'[i] = batchEvents[i] /\ i < Len(batchEvents) + 1
  BY <1>0
<1>2. Len(batchEvents) + 1 \in Nat /\ \A i \in DOMAIN batchEvents : i \in Nat
  BY <1>0
<1> SUFFICES ASSUME NEW n \in Names PROVE BatchSeen(n)'
  BY DEF BatchesSeen
<1>3. CASE e.obj.name = n
  <2>1. Named(batch', n) = IF e.gone THEN {} ELSE {e.obj}
    BY <1>3 DEF Told, Named
  <2>2. \A j \in DOMAIN batchEvents' : ~(j > Len(batchEvents) + 1)
    BY <1>1, <1>2
  <2> QED BY <1>1, <1>3, <2>1, <2>2 DEF BatchSeen, Tells
<1>4. CASE e.obj.name # n
  <2>1. Named(batch', n) = Named(batch, n)
    BY <1>4 DEF Told, Named
  <2>2. BatchSeen(n)
    BY DEF BatchesSeen
  <2>3. CASE /\ \A i \in DOMAIN batchEvents : batchEvents[i].obj.name # n
             /\ Named(cacheBatch, n) = Named(batch, n)
    BY <1>1, <1>4, <2>1, <2>3 DEF BatchSeen
  <2>4. ASSUME NEW i \in DOMAIN batchEvents, Tells(batchEvents[i], n),
               \A j \in DOMAIN batchEvents : j > i => batchEvents[j].obj.name # n
        PROVE  BatchSeen(n)'
    <3>1. i \in DOMAIN batchEvents' /\ batchEvents'[i] = batchEvents[i]
      BY <1>1
    <3>2. \A j \in DOMAIN batchEvents' : j > i => batchEvents'[j].obj.name # n
      BY <1>1, <1>4, <2>4
    <3>3. /\ batchEvents'[i].obj.name = n
          /\ Named(batch', n) = IF batchEvents'[i].gone THEN {} ELSE {batchEvents'[i].obj}
      BY <2>1, <2>4, <3>1 DEF Tells
    <3> QED BY <3>1, <3>2, <3>3 DEF BatchSeen, Tells
  <2> QED BY <2>2, <2>3, <2>4 DEF BatchSeen
<1> QED BY <1>3, <1>4

LEMMA DeliveredIsSeen ==
  ASSUME TypeOK, BatchesSeen, DeliverBatch, batch' = batch
  PROVE  BatchesSeen'
<1> DEFINE e == Head(batchEvents)
           others == {b \in cacheBatch : b.name # e.obj.name}
<1>0. batchEvents \in Seq(BatchEvent)
  BY DEF TypeOK, ClusterTypeOK
<1>1. /\ batchEvents # <<>> /\ batchEvents' = Tail(batchEvents)
      /\ cacheBatch' = IF e.gone THEN others ELSE others \cup {e.obj}
  BY DEF DeliverBatch
<1>2. e = batchEvents[1] /\ e \in BatchEvent /\ 1 \in DOMAIN batchEvents
  BY <1>0, <1>1
<1>3. \A n \in Names : Named(cacheBatch', n) =
        IF e.obj.name = n THEN (IF e.gone THEN {} ELSE {e.obj}) ELSE Named(cacheBatch, n)
  <2> HIDE DEF e
  <2> QED BY <1>1 DEF Named
<1> HIDE DEF e, others
<1>4. \A i \in DOMAIN batchEvents' :
        /\ i \in Nat /\ i + 1 > 1
        /\ i + 1 \in DOMAIN batchEvents /\ batchEvents'[i] = batchEvents[i + 1]
  BY <1>0, <1>1
<1>5. \A i \in DOMAIN batchEvents :
        i # 1 => /\ i - 1 \in DOMAIN batchEvents'
                 /\ batchEvents[i] = batchEvents'[i - 1]
                 /\ i \in Nat
  BY <1>0, <1>1
<1> SUFFICES ASSUME NEW n \in Names PROVE BatchSeen(n)'
  BY DEF BatchesSeen
<1>6. BatchSeen(n)
  BY DEF BatchesSeen
<1>7. CASE /\ \A i \in DOMAIN batchEvents : batchEvents[i].obj.name # n
           /\ Named(cacheBatch, n) = Named(batch, n)
  <2>1. Named(cacheBatch', n) = Named(batch', n)
    BY <1>2, <1>3, <1>7
  <2>2. \A i \in DOMAIN batchEvents' : batchEvents'[i].obj.name # n
    BY <1>4, <1>7
  <2> QED BY <2>1, <2>2 DEF BatchSeen
<1>8. ASSUME NEW i \in DOMAIN batchEvents, Tells(batchEvents[i], n),
             \A j \in DOMAIN batchEvents : j > i => batchEvents[j].obj.name # n
      PROVE  BatchSeen(n)'
  <2>1. CASE i = 1
    <3>1. Named(cacheBatch', n) = Named(batch', n)
      BY <1>2, <1>3, <1>8, <2>1 DEF Tells
    <3>2. \A j \in DOMAIN batchEvents' : j + 1 > i
      BY <1>4, <2>1
    <3>3. \A j \in DOMAIN batchEvents' : batchEvents'[j].obj.name # n
      BY <1>4, <1>8, <3>2
    <3> QED BY <3>1, <3>3 DEF BatchSeen
  <2>2. CASE i # 1
    <3>1. i - 1 \in DOMAIN batchEvents' /\ batchEvents'[i - 1] = batchEvents[i]
      BY <1>5, <2>2
    <3>2. /\ batchEvents'[i - 1].obj.name = n
          /\ Named(batch', n) =
               IF batchEvents'[i - 1].gone THEN {} ELSE {batchEvents'[i - 1].obj}
      BY <1>8, <3>1 DEF Tells
    <3>3. \A j \in DOMAIN batchEvents' : j > i - 1 => j + 1 > i
      BY <1>4, <1>5, <2>2
    <3>4. \A j \in DOMAIN batchEvents' : j > i - 1 => batchEvents'[j].obj.name # n
      BY <1>4, <1>8, <3>3
    <3> QED BY <3>1, <3>2, <3>4 DEF BatchSeen, Tells
  <2> QED BY <2>1, <2>2
<1> QED BY <1>6, <1>7, <1>8 DEF BatchSeen

LEMMA NextBatchesSeen ==
  ASSUME TypeOK, UniqueNames, BatchesSeen, [Next]_vars
  PROVE  BatchesSeen'
<1>1. CASE Deliver
  <2>1. CASE DeliverBatch
    BY <1>1, <2>1, DeliveredIsSeen DEF Deliver
  <2>2. CASE DeliverJob \/ DeliverProfile
    BY <1>1, <2>2 DEF Deliver, DeliverJob, DeliverProfile, BatchesSeen, BatchSeen, Tells, Named
  <2> QED BY <1>1, <2>1, <2>2 DEF Deliver
<1>2. CASE CrashRestart
  BY <1>2 DEF CrashRestart, BatchesSeen, BatchSeen
<1>3. CASE BatchUnchanged /\ cacheBatch' = cacheBatch
  BY <1>3 DEF BatchUnchanged, BatchesSeen, BatchSeen, Tells
<1> QED BY <1>1, <1>2, <1>3, BatchIsTold, ToldIsSeen DEF BatchTold

SeenInv == JobSeen /\ ProfileSeen /\ UniqueNames /\ BatchesSeen

LEMMA InitSeen == Init => SeenInv
BY DEF Init, ClusterInit, SeenInv, JobSeen, ProfileSeen, Shown, UniqueNames, BatchesSeen,
       BatchSeen, Named

LEMMA NextSeen ==
  ASSUME TypeOK, TypeOK', CopiesInv, SeenInv, [Next]_vars
  PROVE  SeenInv'
BY NextJobSeen, NextProfileSeen, NextUniqueNames, NextBatchesSeen DEF SeenInv

(* With nothing but deletions of expired batch Jobs on its way, the cache  *)
(* shows every batch Job there is.                                         *)
Unseen == \A i \in DOMAIN batchEvents : ~Relevant(batchEvents[i])

LEMMA UnseenAreRead ==
  ASSUME TypeOK, SeenInv, Unseen
  PROVE  batch \subseteq ReadBatch
<1> SUFFICES ASSUME NEW b \in batch PROVE b \in cacheBatch
  BY DEF ReadBatch
<1>1. b.name \in Names /\ b \in Named(batch, b.name)
  BY DEF TypeOK, ClusterTypeOK, BatchJob, Named
<1>2. \A i \in DOMAIN batchEvents : ~Tells(batchEvents[i], b.name)
  BY <1>1 DEF Tells, Unseen, Relevant
<1>3. b \in Named(cacheBatch, b.name)
  BY <1>1, <1>2 DEF SeenInv, BatchesSeen, BatchSeen
<1> QED BY <1>3 DEF Named

LEMMA SettledReads ==
  ASSUME TypeOK, SeenInv, jobEvents = <<>>
  PROVE  /\ ReadJob = job
         /\ profileEvents = <<>> => ReadProfile = profile
         /\ batchEvents = <<>> => ReadBatch = batch
<1>1. ReadJob = job /\ (profileEvents = <<>> => ReadProfile = profile)
  BY DEF ReadJob, ReadProfile, SeenInv, JobSeen, ProfileSeen, Shown
<1>2. ASSUME batchEvents = <<>> PROVE cacheBatch = batch
  <2>1. \A n \in Names : Named(cacheBatch, n) = Named(batch, n)
    BY <1>2 DEF SeenInv, BatchesSeen, BatchSeen
  <2>2. \A b \in batch \cup cacheBatch : b.name \in Names
    BY DEF TypeOK, ClusterTypeOK, BatchJob
  <2>3. \A b \in cacheBatch : b \in Named(batch, b.name)
    BY <2>1, <2>2 DEF Named
  <2>4. \A b \in batch : b \in Named(cacheBatch, b.name)
    BY <2>1, <2>2 DEF Named
  <2> QED BY <2>3, <2>4 DEF Named
<1> QED BY <1>1, <1>2 DEF ReadBatch

(***************************************************************************)
(* What a step can do to a pass and to the calls for the next one.         *)
(***************************************************************************)
Busy == pc \in Steps \ {"idle", "failed"}
Built == pc \in Steps \ {"idle", "profile", "failed"}

LEMMA PassSteps ==
  ASSUME TypeOK, [Next]_vars
  PROVE  /\ Busy' => StartReconcile \/ (Busy /\ snap' = snap)
         /\ Built' => ConstructBatchJob \/ (Built /\ template' = template)
         /\ pc' = "succeeded" => ListExisting \/ CreateBatchJob \/ pc = "succeeded"
         /\ pc' = "idle" => ReportSuccess \/ ReportFailure \/ CrashRestart \/ pc = "idle"
<1> USE DEF Busy, Built, Steps
<1>1. CASE Reconcile
  <2>1. CASE \/ SkipReconcile \/ StartReconcile \/ ConstructBatchJob \/ ListForTTL
             \/ MarkExpired \/ DeleteExpired
    BY <2>1 DEF SkipReconcile, StartReconcile, TakeRequest, Ready, ConstructBatchJob,
      ListForTTL, MarkExpired, DeleteExpired, DeleteStep, AfterTTL, passVars
  <2>2. CASE ListHistory \/ DeleteOld \/ ListExisting \/ CreateBatchJob
    BY <2>2 DEF ListHistory, DeleteOld, DeleteStep, ListExisting, CreateBatchJob, AfterPrune,
      passVars
  <2>3. CASE BumpCollision \/ ReportFailure \/ ReportSuccess
    BY <2>3 DEF BumpCollision, ReportFailure, ReportSuccess, EndPass
  <2> QED BY <1>1, <2>1, <2>2, <2>3 DEF Reconcile
<1>2. CASE Deliver \/ Resync \/ CrashRestart \/ UNCHANGED ctlVars \/ UNCHANGED vars
  BY <1>2 DEF Deliver, Resync, CrashRestart, vars, ctlVars, passVars
<1> QED BY <1>1, <1>2 DEF Next

(* Only a pass that starts, or a restart, takes a request from the queue.  *)
LEMMA DueStays ==
  ASSUME TypeOK, [Next]_vars, due' = Never, ~StartReconcile, ~CrashRestart
  PROVE  due = Never \/ (SkipReconcile /\ ~Live(ReadJob))
<1>0. now \in Nat /\ wait \in Nat /\ due \in Nat \cup {Never} /\ Never = -1 /\ Never # 0
  BY DEF TypeOK, ClusterTypeOK, Never
<1>1. CASE SkipReconcile
  BY <1>0, <1>1 DEF SkipReconcile, Enqueue
<1>2. CASE ReportSuccess
  <2>1. due' = due \/ due' = 0 \/ due' = Sooner(now + wait)
    BY <1>2 DEF ReportSuccess, Enqueue
  <2> QED BY <1>0, <2>1 DEF Sooner
<1>3. CASE Reconcile /\ ~SkipReconcile /\ ~ReportSuccess
  BY <1>0, <1>3 DEF Reconcile, ConstructBatchJob, ListForTTL, MarkExpired, DeleteExpired,
    ListHistory, DeleteOld, DeleteStep, ListExisting, CreateBatchJob, BumpCollision,
    ReportFailure, Enqueue
<1>4. CASE Deliver \/ Resync \/ UNCHANGED ctlVars \/ UNCHANGED vars
  BY <1>0, <1>4 DEF Deliver, DeliverJob, DeliverProfile, DeliverBatch, Resync, Enqueue, vars,
    ctlVars
<1> QED BY <1>1, <1>2, <1>3, <1>4 DEF Next

LEMMA DroppedStays ==
  ASSUME TypeOK, [Next]_vars, ~StartReconcile, ~CrashRestart
  PROVE  dropped \subseteq dropped'
<1>1. CASE Reconcile
  BY <1>1 DEF Reconcile, SkipReconcile, ConstructBatchJob, ListForTTL, MarkExpired,
    AddTTLExpiredAnnotation, DeleteExpired, ListHistory, DeleteOld, DeleteStep, Delete,
    ListExisting, CreateBatchJob, BumpCollision, ReportFailure, ReportSuccess, EndPass, Swallow
<1>2. CASE Deliver \/ Resync \/ UNCHANGED ctlVars \/ UNCHANGED vars
  BY <1>2 DEF Deliver, DeliverJob, DeliverProfile, DeliverBatch, Resync, Swallow, vars, ctlVars
<1> QED BY <1>1, <1>2 DEF Next

(* When no request is queued and no event on its way after a step, the     *)
(* step has changed nothing the controller reads.                          *)
LEMMA JobReadStays ==
  ASSUME TypeOK, CopiesInv, [Next]_vars, ~CrashRestart, due' = Never, jobEvents' = <<>>
  PROVE  jobEvents = <<>> /\ job' = job /\ ReadJob' = ReadJob
<1>0. jobEvents \in Seq(Job \cup {NoJob}) /\ job' \in Job \cup {NoJob}
  BY NextTypeOK DEF TypeOK, ClusterTypeOK
<1>1. CASE Deliver
  <2>1. ~DeliverJob
    BY DEF DeliverJob, Enqueue, Never
  <2> QED BY <1>1, <2>1 DEF Deliver, DeliverProfile, DeliverBatch, ReadJob
<1>2. CASE ~Deliver
  <2>1. jobEvents' # Append(jobEvents, job')
    BY <1>0, AppendIsNotEmpty
  <2> QED BY <1>2, <2>1, JobTold DEF JobUnchanged, ReadJob
<1> QED BY <1>1, <1>2

LEMMA ProfileReadStays ==
  ASSUME TypeOK, [Next]_vars, ~CrashRestart, due' = Never, "event" \notin dropped',
         profileEvents' = <<>>, ReadJob # NoJob
  PROVE  profileEvents = <<>> /\ ReadProfile' = ReadProfile
<1>0. /\ profileEvents \in Seq(Templates \cup {NoProfile})
      /\ profile' \in Templates \cup {NoProfile}
  BY NextTypeOK DEF TypeOK, ClusterTypeOK
<1>1. CASE Deliver
  <2>1. ~DeliverProfile
    BY DEF DeliverProfile, Enqueue, Swallow, Never
  <2> QED BY <1>1, <2>1 DEF Deliver, DeliverJob, DeliverBatch, ReadProfile
<1>2. CASE ~Deliver
  <2>1. profileEvents' # Append(profileEvents, profile')
    BY <1>0, AppendIsNotEmpty
  <2> QED BY <1>2, <2>1, ProfileTold DEF ProfileUnchanged, ReadProfile
<1> QED BY <1>1, <1>2

LEMMA BatchReadStays ==
  ASSUME TypeOK, UniqueNames, [Next]_vars, ~CrashRestart, due' = Never,
         "event" \notin dropped', batchEvents' = <<>>
  PROVE  batchEvents = <<>> /\ ReadBatch' = ReadBatch
<1>0. batchEvents \in Seq(BatchEvent)
  BY DEF TypeOK, ClusterTypeOK
<1>1. CASE Deliver
  <2>1. ~DeliverBatch
    BY DEF DeliverBatch, Enqueue, Never
  <2> QED BY <1>1, <2>1 DEF Deliver, DeliverJob, DeliverProfile, ReadBatch
<1>2. CASE ~Deliver
  <2>1. \A e \in BatchEvent : batchEvents' # Append(batchEvents, e)
    BY <1>0, AppendIsNotEmpty
  <2> QED BY <1>2, <2>1, BatchIsTold DEF BatchTold, Told, BatchUnchanged, ReadBatch
<1> QED BY <1>1, <1>2

(***************************************************************************)
(* Converged.  A pass that no event has called back works for the Job and  *)
(* the PodProfile it reads; one that has succeeded has found a newest      *)
(* batch Job that will do, or an event of the one it created is on its     *)
(* way; and what the last pass found still holds when the controller       *)
(* rests.                                                                  *)
(***************************************************************************)
SameWork(c, d) == c.uid = d.uid /\ c.params = d.params /\ c.limit = d.limit

AsWanted(L, j, t) == \E b \in Latest(L) : ~SpecChanged(b, BatchJobSpec(j, t))

Quiet ==
  /\ due = Never /\ "event" \notin dropped
  /\ jobEvents = <<>> /\ profileEvents = <<>> /\ batchEvents = <<>>

PassJob ==
  Busy =>
    /\ snap.cond = "ok"
    /\ due = Never /\ jobEvents = <<>> => Live(ReadJob) /\ SameWork(snap, ReadJob)

PassTemplate ==
  Built /\ due = Never /\ "event" \notin dropped /\ jobEvents = <<>> /\ profileEvents = <<>>
    => template = ReadProfile

PassSpec == pc = "succeeded" /\ Quiet => AsWanted(ReadBatch, snap, template)

RestSpec ==
  pc = "idle" /\ Quiet /\ Live(ReadJob) =>
    /\ ReadProfile # NoProfile
    /\ ReadJob.cond = "ok"
    /\ AsWanted(ReadBatch, ReadJob, ReadProfile)

WorkInv == PassJob /\ PassTemplate /\ PassSpec /\ RestSpec

LEMMA SameWorkWanted ==
  ASSUME NEW L, NEW c, NEW d, NEW t, SameWork(c, d), AsWanted(L, c, t)
  PROVE  AsWanted(L, d, t)
<1>1. BatchJobSpec(c, t) = BatchJobSpec(d, t)
  BY DEF SameWork, BatchJobSpec
<1> QED BY <1>1 DEF AsWanted

LEMMA InitWork == Init => WorkInv
BY DEF Init, Never, WorkInv, PassJob, PassTemplate, PassSpec, RestSpec, Busy, Built, Quiet

LEMMA PassJobStep ==
  ASSUME TypeOK, CopiesInv, PassJob, [Next]_vars
  PROVE  PassJob'
<1>1. CASE StartReconcile
  <2>1. /\ ReadJob \in Job /\ Live(ReadJob) /\ ReadJob' = ReadJob
        /\ snap' = MarkAvailable(ReadJob)
    BY <1>1 DEF StartReconcile, Live, ReadJob, TypeOK, ClusterTypeOK, clusterVars, storeVars,
      cacheVars
  <2>2. snap'.cond = "ok" /\ SameWork(snap', ReadJob)
    BY <2>1 DEF MarkAvailable, SameWork, Job
  <2> QED BY <2>1, <2>2 DEF PassJob, SameWork, Live
<1>2. CASE Busy' /\ ~StartReconcile
  <2>1. Busy /\ snap' = snap /\ ~CrashRestart /\ ~SkipReconcile
    BY <1>2, PassSteps DEF CrashRestart, SkipReconcile, TakeRequest, Ready, Busy, Steps
  <2>2. ASSUME due' = Never, jobEvents' = <<>>
        PROVE  due = Never /\ jobEvents = <<>> /\ ReadJob' = ReadJob
    BY <1>2, <2>1, <2>2, DueStays, JobReadStays
  <2> QED BY <2>1, <2>2 DEF PassJob, SameWork, Live
<1> QED BY <1>1, <1>2 DEF PassJob

LEMMA PassTemplateStep ==
  ASSUME TypeOK, CopiesInv, PassJob, PassTemplate, [Next]_vars
  PROVE  PassTemplate'
<1> SUFFICES ASSUME Built', due' = Never, "event" \notin dropped',
                    jobEvents' = <<>>, profileEvents' = <<>>
             PROVE  template' = ReadProfile'
  BY DEF PassTemplate
<1>1. CASE ConstructBatchJob
  BY <1>1 DEF ConstructBatchJob, Built, ReadProfile, clusterVars, storeVars, cacheVars
<1>2. CASE Built /\ template' = template
  <2>1. Busy /\ pc # "idle"
    BY <1>2 DEF Built, Busy, Steps
  <2>2. ~CrashRestart /\ ~StartReconcile /\ ~SkipReconcile
    BY <2>1 DEF CrashRestart, StartReconcile, SkipReconcile, TakeRequest, Ready, Built, Steps
  <2>3. due = Never /\ "event" \notin dropped /\ jobEvents = <<>>
    BY <2>2, DueStays, DroppedStays, JobReadStays
  <2>4. ReadJob # NoJob
    BY <2>1, <2>3 DEF PassJob, Live
  <2>5. profileEvents = <<>> /\ ReadProfile' = ReadProfile
    BY <2>2, <2>4, ProfileReadStays
  <2> QED BY <1>2, <2>3, <2>5 DEF PassTemplate
<1> QED BY <1>1, <1>2, PassSteps

(* What the controller reads stays as it is while it stays quiet.          *)
LEMMA QuietStays ==
  ASSUME TypeOK, CopiesInv, UniqueNames, [Next]_vars, ~CrashRestart, ~StartReconcile,
         Live(ReadJob) \/ Live(ReadJob'), Quiet'
  PROVE  Quiet /\ UNCHANGED <<ReadJob, ReadProfile, ReadBatch>>
<1>1. jobEvents = <<>> /\ ReadJob' = ReadJob
  BY JobReadStays DEF Quiet
<1>2. Live(ReadJob) /\ ReadJob # NoJob
  BY <1>1 DEF Live
<1>3. due = Never /\ "event" \notin dropped
  BY <1>2, DueStays, DroppedStays DEF Quiet
<1>4. profileEvents = <<>> /\ ReadProfile' = ReadProfile
  BY <1>2, ProfileReadStays DEF Quiet
<1>5. batchEvents = <<>> /\ ReadBatch' = ReadBatch
  BY BatchReadStays DEF Quiet
<1> QED BY <1>1, <1>3, <1>4, <1>5 DEF Quiet

LEMMA PassSpecStep ==
  ASSUME TypeOK, CopiesInv, UniqueNames, PassJob, PassSpec, [Next]_vars
  PROVE  PassSpec'
<1> SUFFICES ASSUME pc' = "succeeded", Quiet'
             PROVE  AsWanted(ReadBatch', snap', template')
  BY DEF PassSpec, AsWanted, Latest, NewestOf
<1>1. CASE ListExisting
  <2>1. ShouldSkip(ReadBatch) /\ UNCHANGED <<batch, cacheBatch, snap, template>>
    BY <1>1 DEF ListExisting, clusterVars, storeVars, cacheVars, passVars
  <2>2. ReadBatch' = ReadBatch
    BY <2>1 DEF ReadBatch
  <2> QED BY <2>1, <2>2 DEF ShouldSkip, AsWanted
<1>2. CASE CreateBatchJob
  <2>1. AddBatch([NextBatchJob(snap, template) EXCEPT !.uid = nextUid, !.created = now])
    BY <1>2 DEF CreateBatchJob, StoreBatchJob
  <2>2. \E e : batchEvents' = Append(batchEvents, e)
    BY <2>1 DEF AddBatch, ChangeBatch
  <2>3. batchEvents \in Seq(BatchEvent) /\ batchEvents' \in Seq(BatchEvent)
    BY NextTypeOK DEF TypeOK, ClusterTypeOK
  <2>4. Len(batchEvents') = Len(batchEvents) + 1
    BY <2>2, <2>3
  <2> QED BY <2>3, <2>4 DEF Quiet
<1>3. CASE pc = "succeeded" /\ ~ListExisting /\ ~CreateBatchJob
  <2>1. ~CrashRestart /\ ~StartReconcile /\ ~ConstructBatchJob /\ ~SkipReconcile
    BY <1>3 DEF CrashRestart, StartReconcile, SkipReconcile, TakeRequest, Ready,
      ConstructBatchJob
  <2>2. Busy /\ Busy' /\ Built'
    BY <1>3 DEF Busy, Built, Steps
  <2>3. snap' = snap /\ template' = template
    BY <2>1, <2>2, PassSteps
  <2>4. due = Never /\ jobEvents = <<>>
    BY <2>1, DueStays, JobReadStays DEF Quiet
  <2>5. Live(ReadJob)
    BY <2>2, <2>4 DEF PassJob
  <2>6. Quiet /\ ReadBatch' = ReadBatch
    BY <2>1, <2>5, QuietStays
  <2> QED BY <1>3, <2>3, <2>6 DEF PassSpec
<1> QED BY <1>1, <1>2, <1>3, PassSteps

(* The end of a pass that leaves nothing to do: no change of the status,   *)
(* no request for later.                                                   *)
LEMMA SuccessRests ==
  ASSUME TypeOK, ReportSuccess, due' = Never, jobEvents' = <<>>
  PROVE  /\ due = Never /\ wait = 0 /\ jobEvents = <<>>
         /\ job \in Job /\ job' = job /\ snap.cond = job.cond
         /\ BatchUnchanged /\ UNCHANGED <<cacheVars, dropped, profile, profileEvents>>
<1> DEFINE updated == [job EXCEPT !.collisions = snap.collisions,
                                  !.cond = snap.cond, !.since = snap.since]
<1>0. now \in Nat /\ wait \in Nat /\ due \in Nat \cup {Never} /\ Never = -1
  BY DEF TypeOK, ClusterTypeOK, Never
<1>1. /\ UpdateStatus(snap) /\ due' = IF wait = 0 THEN due ELSE Sooner(now + wait)
      /\ BatchUnchanged /\ UNCHANGED <<cacheVars, dropped, profile, profileEvents>>
  BY <1>0 DEF ReportSuccess, EndPass, Enqueue, ProfileUnchanged
<1>2. job \in Job /\ jobEvents \in Seq(Job \cup {NoJob}) /\ job' \in Job
  BY <1>1, UpdateStatusType DEF UpdateStatus, Current, TypeOK, ClusterTypeOK, ReportSuccess
<1>3. updated = job /\ JobUnchanged
  <2>1. ~UpdateJob(updated)
    <3>1. UpdateJob(updated) => jobEvents' = Append(jobEvents, job')
      BY DEF UpdateJob, PutJob
    <3> QED BY <1>2, <3>1, AppendIsNotEmpty
  <2> QED BY <1>1, <2>1 DEF UpdateStatus
<1>4. updated.cond = snap.cond
  BY <1>2 DEF Job
<1>5. due = Never /\ wait = 0
  <2> HIDE DEF updated
  <2> QED BY <1>0, <1>1 DEF Sooner
<1> HIDE DEF updated
<1> QED BY <1>1, <1>2, <1>3, <1>4, <1>5 DEF JobUnchanged

LEMMA RestSpecStep ==
  ASSUME TypeOK, CopiesInv, SeenInv, WorkInv, [Next]_vars
  PROVE  RestSpec'
<1> SUFFICES ASSUME pc' = "idle", Quiet', Live(ReadJob')
             PROVE  /\ ReadProfile' # NoProfile
                    /\ ReadJob'.cond = "ok"
                    /\ AsWanted(ReadBatch', ReadJob', ReadProfile')
  BY DEF RestSpec, AsWanted, Latest, NewestOf, Live
<1>1. CASE ReportSuccess
  <2>1. /\ due = Never /\ jobEvents = <<>> /\ job' = job /\ snap.cond = job.cond
        /\ BatchUnchanged /\ UNCHANGED <<cacheVars, dropped, profile, profileEvents>>
    BY <1>1, SuccessRests DEF Quiet
  <2>2. /\ Quiet /\ pc = "succeeded" /\ Busy /\ Built
        /\ ReadJob' = ReadJob /\ ReadProfile' = ReadProfile /\ ReadBatch' = ReadBatch
    BY <1>1, <2>1 DEF Quiet, BatchUnchanged, ReportSuccess, Busy, Built, Steps, ReadJob,
      ReadProfile, ReadBatch, cacheVars
  <2>3. /\ SameWork(snap, ReadJob) /\ snap.cond = "ok"
        /\ template = ReadProfile /\ AsWanted(ReadBatch, snap, template)
    BY <2>2 DEF WorkInv, PassJob, PassTemplate, PassSpec, Quiet
  <2>4. template # NoProfile
    BY <2>2 DEF TypeOK, Steps
  <2>5. ReadJob.cond = "ok"
    BY <2>1, <2>2, <2>3, SettledReads
  <2> QED BY <2>2, <2>3, <2>4, <2>5, SameWorkWanted
<1>2. CASE ReportFailure
  BY <1>2 DEF ReportFailure, Enqueue, Quiet, Never
<1>3. CASE CrashRestart
  BY <1>3 DEF CrashRestart, ReadJob, Live, Quiet, Never
<1>4. CASE pc = "idle" /\ ~CrashRestart
  <2>1. ~StartReconcile
    BY DEF StartReconcile
  <2>2. Quiet /\ UNCHANGED <<ReadJob, ReadProfile, ReadBatch>>
    BY <1>4, <2>1, QuietStays DEF SeenInv
  <2> QED BY <1>4, <2>2 DEF WorkInv, RestSpec, Live
<1> QED BY <1>1, <1>2, <1>3, <1>4, PassSteps

LEMMA NextWork ==
  ASSUME TypeOK, CopiesInv, SeenInv, WorkInv, [Next]_vars
  PROVE  WorkInv'
BY PassJobStep, PassTemplateStep, PassSpecStep, RestSpecStep DEF WorkInv, SeenInv

LEMMA RestConverges ==
  ASSUME TypeOK, SeenInv, WorkInv
  PROVE  Converged
<1> SUFFICES ASSUME Quiescent, Live(job), "event" \notin dropped
             PROVE  /\ profile # NoProfile
                    /\ job.cond = "ok"
                    /\ \E b \in Latest(batch) : ~SpecChanged(b, BatchJobSpec(job, profile))
  BY DEF Converged
<1>1. ReadJob = job /\ ReadProfile = profile /\ ReadBatch = batch
  BY SettledReads DEF Quiescent
<1> QED BY <1>1 DEF Quiescent, WorkInv, RestSpec, Quiet, AsWanted

(* No event is lost but those that the code gives up: whenever the         *)
(* controller has nothing to do, the newest batch Job is the wanted one    *)
(* and the status says so, for caches of any age, any number of edits,     *)
(* deletions, faults and restarts, any TTLs and limits.                    *)
THEOREM RestsOnlyWhenConverged == Spec => []Converged
<1>1. Init => TypeOK /\ CopiesInv /\ SeenInv /\ WorkInv
  BY InitTypeOK, InitCopies, InitSeen, InitWork
<1>2. TypeOK /\ CopiesInv /\ SeenInv /\ WorkInv /\ [Next]_vars
        => (TypeOK /\ CopiesInv /\ SeenInv /\ WorkInv)'
  BY NextTypeOK, NextCopies, NextSeen, NextWork
<1> QED BY <1>1, <1>2, RestConverges, PTL DEF Spec

-----------------------------------------------------------------------------
(***************************************************************************)
(* Whenever JobController rests and its last pass has swallowed no failed  *)
(* call, its cleaning up is complete: the history fits the limit, no TTL   *)
(* is forgotten.  A pass works from a listing; it may rest only if no      *)
(* event on its way could have added to what it listed.                    *)
(***************************************************************************)

(* The listing holds no more finished batch Jobs than the history limit.   *)
Fits(L, limit) == Finished(L) = {} \/ Cardinality(Finished(L)) <= limit

LEMMA FitsShrinks ==
  ASSUME NEW L, IsFiniteSet(L), NEW M \in SUBSET L, NEW limit \in Int, Fits(L, limit)
  PROVE  Fits(M, limit)
<1>1. Finished(M) \subseteq Finished(L) /\ Finished(L) \subseteq L
  BY DEF Finished
<1>2. IsFiniteSet(Finished(L))
  BY <1>1, FS_Subset
<1>3. /\ Cardinality(Finished(M)) <= Cardinality(Finished(L))
      /\ Cardinality(Finished(M)) \in Nat /\ Cardinality(Finished(L)) \in Nat
  BY <1>1, <1>2, FS_Subset, FS_CardinalityType
<1> QED BY <1>1, <1>3 DEF Fits

(* What the history pass leaves of its listing fits (deleteOldBatchJobs).  *)
LEMMA VictimsLeaveWhatFits ==
  ASSUME NEW L, IsFiniteSet(L), NEW limit \in Int, NEW D \in HistoryVictims(L, limit)
  PROVE  Fits(L \ D, limit)
<1> DEFINE F == Finished(L)
           kept == Max({0, Min({limit, Cardinality(F)})})
<1>1. F \subseteq L
  BY DEF Finished
<1>2. IsFiniteSet(F) /\ Cardinality(F) \in Nat
  BY <1>1, FS_Subset, FS_CardinalityType
<1>3. D \subseteq F /\ Cardinality(F \ D) = kept
  BY DEF HistoryVictims
<1>4. Finished(L \ D) = F \ D
  BY DEF Finished
<1>5. kept = 0 \/ kept <= limit
  <2> HIDE DEF F
  <2> QED BY <1>2, MinOfTwo, MaxOfZero
<1>6. CASE kept = 0
  <2>1. IsFiniteSet(F \ D)
    BY <1>2, FS_Subset
  <2>2. F \ D = {}
    BY <1>3, <1>6, <2>1, FS_EmptySet
  <2> QED BY <1>4, <2>2 DEF Fits
<1>7. CASE kept <= limit
  BY <1>3, <1>4, <1>7 DEF Fits
<1> QED BY <1>5, <1>6, <1>7

LEMMA FitsHasNoVictims ==
  ASSUME NEW L, IsFiniteSet(L), NEW limit \in Int, Fits(L, limit)
  PROVE  HistoryVictims(L, limit) = {{}}
<1> DEFINE F == Finished(L)
           kept == Max({0, Min({limit, Cardinality(F)})})
<1>1. F \subseteq L
  BY DEF Finished
<1>2. IsFiniteSet(F) /\ Cardinality(F) \in Nat
  BY <1>1, FS_Subset, FS_CardinalityType
<1>3. kept = Cardinality(F)
  <2>1. CASE F = {}
    <3>1. Cardinality(F) = 0
      BY <2>1, FS_EmptySet
    <3> HIDE DEF F
    <3> QED BY <3>1, MinOfTwo, MaxOfZero
  <2>2. CASE Cardinality(F) <= limit
    <3> HIDE DEF F
    <3> QED BY <1>2, <2>2, MinOfTwo, MaxOfZero
  <2> QED BY <2>1, <2>2 DEF Fits
<1>4. HistoryVictims(L, limit) =
        {D \in SUBSET F : /\ Cardinality(F \ D) = kept
                          /\ \A d \in D, k \in F \ D : d.created <= k.created}
  BY DEF HistoryVictims
<1>5. \A D \in SUBSET F : Cardinality(F \ D) = Cardinality(F) => D = {}
  <2> SUFFICES ASSUME NEW D \in SUBSET F, Cardinality(F \ D) = Cardinality(F) PROVE D = {}
    OBVIOUS
  <2>1. F \ D = F
    BY <1>2, FS_Subset
  <2> QED BY <2>1
<1>6. F \ {} = F
  OBVIOUS
<1> HIDE DEF F, kept
<1> QED BY <1>3, <1>4, <1>5, <1>6

(***************************************************************************)
(* Calm: no request is queued, no call of this pass has failed unnoticed,  *)
(* and no event on its way can add to what the controller has listed.      *)
(***************************************************************************)
Calm == due = Never /\ "call" \notin dropped /\ jobEvents = <<>> /\ Unseen

LEMMA UnseenStays ==
  ASSUME TypeOK, UniqueNames, [Next]_vars, ~CrashRestart, due' = Never, Unseen'
  PROVE  Unseen /\ batch' \subseteq batch
<1>0. batchEvents \in Seq(BatchEvent)
  BY DEF TypeOK, ClusterTypeOK
<1>1. CASE Deliver
  <2>1. batch' = batch
    BY <1>1 DEF Deliver
  <2>2. CASE DeliverBatch
    <3> DEFINE e == Head(batchEvents)
    <3>1. batchEvents # <<>> /\ batchEvents' = Tail(batchEvents) /\ ~Relevant(e)
      BY <2>2 DEF DeliverBatch, Enqueue, Never
    <3>2. e = batchEvents[1]
      BY <1>0, <3>1
    <3>3. \A i \in DOMAIN batchEvents :
            i # 1 => i - 1 \in DOMAIN batchEvents' /\ batchEvents[i] = batchEvents'[i - 1]
      BY <1>0, <3>1
    <3> HIDE DEF e
    <3> QED BY <2>1, <3>1, <3>2, <3>3 DEF Unseen, Relevant
  <2>3. CASE DeliverJob \/ DeliverProfile
    BY <2>1, <2>3 DEF DeliverJob, DeliverProfile, Unseen
  <2> QED BY <1>1, <2>2, <2>3 DEF Deliver
<1>2. CASE BatchUnchanged
  BY <1>2 DEF BatchUnchanged, Unseen
<1>3. ASSUME NEW e \in BatchEvent, Told(e)
      PROVE  Unseen /\ batch' \subseteq batch
  <2>1. /\ \A i \in DOMAIN batchEvents :
             i \in DOMAIN batchEvents' /\ batchEvents'[i] = batchEvents[i]
        /\ Len(batchEvents) + 1 \in DOMAIN batchEvents'
        /\ batchEvents'[Len(batchEvents) + 1] = e
    BY <1>0, <1>3 DEF Told
  <2>2. Unseen /\ ~Relevant(e)
    BY <2>1 DEF Unseen, Relevant
  <2> QED BY <1>3, <2>2 DEF Told, Relevant
<1> QED BY <1>1, <1>2, <1>3, BatchIsTold DEF BatchTold

LEMMA CalmStays ==
  ASSUME TypeOK, CopiesInv, UniqueNames, [Next]_vars, ~CrashRestart, ~StartReconcile, Calm',
         pc # "idle" \/ Live(ReadJob')
  PROVE  Calm /\ batch' \subseteq batch /\ ReadJob' = ReadJob
<1>1. jobEvents = <<>> /\ ReadJob' = ReadJob
  BY JobReadStays DEF Calm
<1>2. Unseen /\ batch' \subseteq batch
  BY UnseenStays DEF Calm
<1>3. ~(SkipReconcile /\ ~Live(ReadJob))
  BY <1>1 DEF SkipReconcile, TakeRequest, Ready, Live
<1>4. due = Never /\ "call" \notin dropped
  BY <1>3, DueStays, DroppedStays DEF Calm
<1> QED BY <1>1, <1>2, <1>4 DEF Calm

(* The batch Jobs a pass does not mean to delete.                          *)
Left == {b \in batch : \A t \in todo : t.uid # b.uid}

(* A deletion takes away what was to be deleted: when the batch Job is not *)
(* found under its name and uid, it is gone, for a uid keeps its name.     *)
LEMMA DeletionLeaves ==
  ASSUME TypeOK, DoneInv, NEW c \in todo, DeleteStep(c), "call" \notin dropped',
         batch' \subseteq batch
  PROVE  Left' \subseteq Left
<1>1. todo' = todo \ {c} /\ Delete(c)
  BY DEF DeleteStep
<1>2. \A x \in batch : x.uid = c.uid => x.name = c.name
  BY DEF DoneInv, Known
<1>3. \A y \in batch' : y.uid # c.uid
  <2>1. CASE \E x \in batch : SameObject(x, c) /\ DropBatch(x)
    BY <2>1 DEF SameObject, DropBatch, ChangeBatch, DoneInv, UniqueUids
  <2>2. CASE \A x \in batch : ~SameObject(x, c)
    BY <1>2, <2>2 DEF SameObject
  <2> QED BY <1>1, <2>1, <2>2 DEF Delete, Swallow
<1> QED BY <1>1, <1>3 DEF Left

LEMMA SameTodoLeaves ==
  ASSUME batch' \subseteq batch, todo' = todo
  PROVE  Left' \subseteq Left
BY DEF Left

(***************************************************************************)
(* The history limit.                                                      *)
(***************************************************************************)
FiniteInv == IsFiniteSet(batch) /\ IsFiniteSet(cacheBatch)

LEMMA NextFinite ==
  ASSUME TypeOK, UniqueNames, FiniteInv, [Next]_vars
  PROVE  FiniteInv'
<1>1. IsFiniteSet(batch')
  BY FiniteSteps DEF FiniteInv
<1>2. IsFiniteSet(cacheBatch')
  <2>1. CASE DeliverBatch
    <3> DEFINE e == Head(batchEvents)
               others == {b \in cacheBatch : b.name # e.obj.name}
    <3>1. IsFiniteSet(others)
      BY FS_Subset DEF FiniteInv
    <3>2. IsFiniteSet(others \cup {e.obj})
      BY <3>1, FS_AddElement
    <3>3. cacheBatch' = others \/ cacheBatch' = others \cup {e.obj}
      BY <2>1 DEF DeliverBatch
    <3> HIDE DEF e, others
    <3> QED BY <3>1, <3>2, <3>3
  <2>2. CASE DeliverJob \/ DeliverProfile
    BY <2>2 DEF DeliverJob, DeliverProfile, FiniteInv
  <2>3. CASE CrashRestart
    BY <2>3 DEF CrashRestart, FiniteInv
  <2> QED BY <2>1, <2>2, <2>3, BatchIsTold DEF Deliver, FiniteInv
<1> QED BY <1>1, <1>2 DEF FiniteInv

LEMMA ReadIsFinite ==
  ASSUME FiniteInv
  PROVE  IsFiniteSet(batch) /\ IsFiniteSet(ReadBatch)
BY DEF FiniteInv, ReadBatch

Cleaning == {"mark", "sweep", "pruning"}
Pruned == {"pruning", "list", "create", "succeeded"}

HistoryInv ==
  /\ pc \notin Cleaning => todo = {}
  /\ pc \in Pruned /\ Calm => Fits(Left, snap.limit)
  /\ pc = "idle" /\ Calm /\ Live(ReadJob) => Fits(batch, ReadJob.limit)

(* The steps of a pass after which its history is pruned.                  *)
LEMMA PruneSteps ==
  ASSUME TypeOK, [Next]_vars, pc' \in Pruned
  PROVE  \/ ListHistory
         \/ /\ pc \in Pruned /\ snap' = snap
            /\ todo' = todo \/ \E c \in todo : DeleteStep(c)
<1> USE DEF Pruned
<1>1. CASE Reconcile
  <2>1. CASE SkipReconcile \/ StartReconcile \/ ConstructBatchJob \/ ListForTTL \/ MarkExpired
    BY <2>1 DEF SkipReconcile, StartReconcile, TakeRequest, Ready, ConstructBatchJob,
      ListForTTL, MarkExpired, AfterTTL
  <2>2. CASE DeleteExpired
    BY <2>2 DEF DeleteExpired, AfterTTL
  <2>3. CASE DeleteOld
    BY <2>3 DEF DeleteOld, DeleteStep, NewestOf
  <2>4. CASE \/ ListExisting \/ CreateBatchJob \/ BumpCollision \/ ReportFailure
             \/ ReportSuccess
    BY <2>4 DEF ListExisting, CreateBatchJob, passVars, BumpCollision, ReportFailure,
      ReportSuccess, EndPass
  <2> QED BY <1>1, <2>1, <2>2, <2>3, <2>4 DEF Reconcile
<1>2. CASE Deliver \/ Resync \/ CrashRestart \/ UNCHANGED ctlVars \/ UNCHANGED vars
  BY <1>2 DEF Deliver, Resync, CrashRestart, vars, ctlVars, passVars
<1> QED BY <1>1, <1>2 DEF Next

LEMMA TodoIsEmpty ==
  ASSUME TypeOK, pc \notin Cleaning => todo = {}, [Next]_vars, pc' \notin Cleaning
  PROVE  todo' = {}
<1> USE DEF Cleaning
<1>1. CASE Reconcile
  <2>1. CASE SkipReconcile \/ StartReconcile \/ ConstructBatchJob \/ ListForTTL \/ MarkExpired
    BY <2>1 DEF SkipReconcile, StartReconcile, TakeRequest, Ready, ConstructBatchJob,
      ListForTTL, MarkExpired, AfterTTL, passVars
  <2>2. CASE DeleteExpired \/ ListHistory \/ DeleteOld
    BY <2>2 DEF DeleteExpired, ListHistory, DeleteOld, AfterTTL, AfterPrune
  <2>3. CASE \/ ListExisting \/ CreateBatchJob \/ BumpCollision \/ ReportFailure
             \/ ReportSuccess
    BY <2>3 DEF ListExisting, CreateBatchJob, passVars, BumpCollision, ReportFailure,
      ReportSuccess, EndPass
  <2> QED BY <1>1, <2>1, <2>2, <2>3 DEF Reconcile
<1>2. CASE Deliver \/ Resync \/ CrashRestart \/ UNCHANGED ctlVars \/ UNCHANGED vars
  BY <1>2 DEF Deliver, Resync, CrashRestart, vars, ctlVars, passVars
<1> QED BY <1>1, <1>2 DEF Next

LEMMA SnapLimit ==
  ASSUME TypeOK, pc # "idle"
  PROVE  snap \in Job /\ snap.limit \in Int
<1>1. snap \in Job
  BY DEF TypeOK
<1> QED BY <1>1, LimitAssumption DEF Job

LEMMA PrunedStep ==
  ASSUME TypeOK, CopiesInv, DoneInv, SeenInv, FiniteInv, HistoryInv, [Next]_vars,
         pc' \in Pruned, Calm'
  PROVE  Fits(Left', snap'.limit)
<1>0. pc # "idle" /\ ~CrashRestart /\ ~StartReconcile
  BY PruneSteps DEF Pruned, CrashRestart, StartReconcile, ListHistory
<1>1. Calm /\ batch' \subseteq batch
  BY <1>0, CalmStays DEF SeenInv
<1>2. snap.limit \in Int /\ IsFiniteSet(batch) /\ IsFiniteSet(ReadBatch)
  BY <1>0, SnapLimit, ReadIsFinite
<1>3. CASE ListHistory
  <2>1. todo' \in HistoryVictims(ReadBatch, snap.limit) /\ snap' = snap
    BY <1>3 DEF ListHistory, Swallow, Calm
  <2>2. batch \subseteq ReadBatch
    BY <1>1, UnseenAreRead DEF Calm
  <2>3. Left' \subseteq ReadBatch \ todo'
    BY <1>1, <2>2 DEF Left
  <2>4. Fits(ReadBatch \ todo', snap.limit)
    BY <1>2, <2>1, VictimsLeaveWhatFits
  <2>5. IsFiniteSet(ReadBatch \ todo')
    BY <1>2, FS_Subset
  <2> QED BY <1>2, <2>1, <2>3, <2>4, <2>5, FitsShrinks
<1>4. CASE /\ pc \in Pruned /\ snap' = snap
           /\ todo' = todo \/ \E c \in todo : DeleteStep(c)
  <2>1. Left' \subseteq Left
    BY <1>1, <1>4, SameTodoLeaves, DeletionLeaves DEF Calm
  <2>2. Fits(Left, snap.limit)
    BY <1>1, <1>4 DEF HistoryInv
  <2>3. IsFiniteSet(Left)
    BY <1>2, FS_Subset DEF Left
  <2> QED BY <1>2, <1>4, <2>1, <2>2, <2>3, FitsShrinks
<1> QED BY <1>3, <1>4, PruneSteps

(* At the end of a pass that leaves nothing to do, the Job it worked for   *)
(* is the one that is read.                                                *)
LEMMA SuccessIsForRead ==
  ASSUME TypeOK, PassJob, ReportSuccess, Calm'
  PROVE  /\ Calm /\ wait = 0 /\ batch' = batch /\ ReadJob' = ReadJob
         /\ snap.limit = ReadJob.limit
<1>1. /\ due = Never /\ wait = 0 /\ jobEvents = <<>> /\ job' = job
      /\ BatchUnchanged /\ UNCHANGED <<cacheVars, dropped>>
  BY SuccessRests DEF Calm
<1>2. Calm /\ ReadJob' = ReadJob
  BY <1>1 DEF Calm, Unseen, BatchUnchanged, ReadJob, cacheVars
<1>3. snap.limit = ReadJob.limit
  BY <1>1 DEF PassJob, Busy, Steps, SameWork, ReportSuccess
<1> QED BY <1>1, <1>2, <1>3 DEF BatchUnchanged

LEMMA RestingStep ==
  ASSUME TypeOK, CopiesInv, UniqueNames, PassJob, [Next]_vars,
         pc' = "idle", Calm', Live(ReadJob')
  PROVE  \/ ReportSuccess
         \/ /\ pc = "idle" /\ Calm /\ Live(ReadJob) /\ ReadJob' = ReadJob
            /\ batch' \subseteq batch
<1>1. CASE ReportFailure
  BY <1>1 DEF ReportFailure, Enqueue, Calm, Never
<1>2. CASE CrashRestart
  BY <1>2 DEF CrashRestart, ReadJob, Live, Calm, Never
<1>3. CASE pc = "idle" /\ ~CrashRestart
  <2>1. ~StartReconcile
    BY DEF StartReconcile
  <2> QED BY <1>3, <2>1, CalmStays
<1> QED BY <1>1, <1>2, <1>3, PassSteps

LEMMA HistoryStep ==
  ASSUME TypeOK, CopiesInv, DoneInv, SeenInv, PassJob, FiniteInv, HistoryInv, [Next]_vars
  PROVE  HistoryInv'
<1>1. pc' \notin Cleaning => todo' = {}
  BY TodoIsEmpty DEF HistoryInv
<1>2. pc' \in Pruned /\ Calm' => Fits(Left', snap'.limit)
  BY PrunedStep
<1>3. ASSUME pc' = "idle", Calm', Live(ReadJob')
      PROVE  Fits(batch', ReadJob'.limit)
  <2>1. CASE ReportSuccess
    <3>1. pc = "succeeded" /\ todo = {}
      BY <2>1 DEF ReportSuccess, HistoryInv, Cleaning
    <3>2. Fits(Left, snap.limit) /\ Left = batch
      BY <1>3, <2>1, <3>1, SuccessIsForRead DEF HistoryInv, Pruned, Left
    <3> QED BY <1>3, <2>1, <3>2, SuccessIsForRead
  <2>2. CASE /\ pc = "idle" /\ Calm /\ Live(ReadJob) /\ ReadJob' = ReadJob
             /\ batch' \subseteq batch
    <3>1. Fits(batch, ReadJob.limit)
      BY <2>2 DEF HistoryInv
    <3>2. ReadJob.limit \in Int
      BY <2>2, LimitAssumption DEF Live, ReadJob, TypeOK, ClusterTypeOK, Job
    <3> QED BY <2>2, <3>1, <3>2, FitsShrinks DEF FiniteInv
  <2> QED BY <1>3, <2>1, <2>2, RestingStep DEF SeenInv
<1> QED BY <1>1, <1>2, <1>3 DEF HistoryInv, Fits, Finished, Live

LEMMA RestHistory ==
  ASSUME TypeOK, SeenInv, FiniteInv, HistoryInv
  PROVE  HistorySettled
<1> SUFFICES ASSUME Quiescent, Live(job), "call" \notin dropped
             PROVE  HistoryVictims(batch, job.limit) = {{}}
  BY DEF HistorySettled
<1>1. ReadJob = job /\ Calm
  BY SettledReads DEF Quiescent, Calm, Unseen
<1>2. Fits(batch, job.limit)
  BY <1>1 DEF Quiescent, HistoryInv
<1>3. job.limit \in Int
  BY LimitAssumption DEF Live, TypeOK, ClusterTypeOK, Job
<1> QED BY <1>2, <1>3, FitsHasNoVictims DEF FiniteInv

(***************************************************************************)
(* The TTLs.                                                               *)
(***************************************************************************)

(* No annotated batch Job is left but one that is alone.                   *)
Swept(L) == (\A b \in L : ~b.expired) \/ \A b, c \in L : b = c

LEMMA SweptShrinks ==
  ASSUME NEW L, NEW M \in SUBSET L, Swept(L)
  PROVE  Swept(M)
BY DEF Swept

(* What the TTL pass leaves of its listing is swept.                       *)
LEMMA VictimsLeaveSwept ==
  ASSUME NEW L, NEW V \in TTLVictims(L)
  PROVE  Swept(L \ V)
<1> DEFINE E == {b \in L : b.expired}
<1>1. CASE E = L /\ L # {}
  <2>1. PICK b \in NewestOf(L) : V = L \ {b}
    BY <1>1 DEF TTLVictims
  <2> QED BY <2>1 DEF Swept
<1>2. CASE ~(E = L /\ L # {})
  <2>1. V = E
    BY <1>2 DEF TTLVictims
  <2> QED BY <2>1 DEF Swept
<1> QED BY <1>1, <1>2

LEMMA SweptHasNoVictims ==
  ASSUME NEW L \in SUBSET BatchJob, Swept(L)
  PROVE  {} \in TTLVictims(L)
<1> DEFINE E == {b \in L : b.expired}
<1>1. CASE E = L /\ L # {}
  <2>1. PICK b \in L : L = {b}
    BY <1>1 DEF Swept
  <2>2. b.created \in Nat
    BY DEF BatchJob
  <2>3. b \in NewestOf(L) /\ L \ {b} = {}
    BY <2>1, <2>2 DEF NewestOf
  <2>4. TTLVictims(L) = {L \ {c} : c \in NewestOf(L)}
    BY <1>1 DEF TTLVictims
  <2> QED BY <2>3, <2>4
<1>2. CASE ~(E = L /\ L # {})
  <2>1. E = {}
    BY <1>2 DEF Swept
  <2> QED BY <1>2, <2>1 DEF TTLVictims
<1> QED BY <1>1, <1>2

(* RequeueAfter is 0 only if no TTL of the listing still runs.             *)
LEMMA DelaysArePositive ==
  ASSUME NEW L \in SUBSET BatchJob, NEW time \in Nat, Delays(L, time) # {}
  PROVE  Min(Delays(L, time)) \in Nat /\ Min(Delays(L, time)) # 0
<1>1. Delays(L, time) \subseteq Nat
  BY DelaysNat
<1>2. Min(Delays(L, time)) \in Delays(L, time)
  <2> DEFINE D == Delays(L, time)
  <2>1. D \in SUBSET Nat /\ D # {}
    BY <1>1
  <2> HIDE DEF D
  <2>2. Min(D) \in D
    BY <2>1, MinNat
  <2> QED BY <2>2 DEF D
<1>3. PICK b \in Pending(L) \ ToExpire(L, time) :
        Min(Delays(L, time)) = ExpireAt(b) - time + Slack
  BY <1>2 DEF Delays
<1>4. b \in BatchJob /\ b.ttl # NoTTL /\ ~(ExpireAt(b) <= time)
  BY DEF Pending, HasExpireTime, ToExpire
<1>5. b.finishedAt \in Nat /\ b.ttl \in Int
  BY <1>4, TTLAssumption DEF BatchJob
<1> QED BY <1>1, <1>2, <1>3, <1>4, <1>5, SlackAssumption DEF ExpireAt

Listed == pc \in Steps \ {"idle", "profile", "ttl", "failed"}
Sweeping == pc \in {"mark", "sweep"}

TTLInv ==
  /\ pc # "mark" => mark = {}
  /\ Listed /\ Calm /\ wait = 0 => Pending(batch) \subseteq mark
  /\ Listed /\ Calm /\ Sweeping => Swept(Left)
  /\ Listed /\ Calm /\ ~Sweeping => Swept(batch)
  /\ pc = "idle" /\ Calm /\ Live(ReadJob) => Pending(batch) = {} /\ Swept(batch)

(* The steps of a pass after its batch Jobs have been listed for the TTL.  *)
LEMMA ListedSteps ==
  ASSUME TypeOK, [Next]_vars, Listed'
  PROVE  \/ ListForTTL
         \/ /\ Listed /\ wait' = wait
            /\ mark' = mark \/ MarkExpired
            /\ Sweeping => todo' = todo \/ \E c \in todo : DeleteStep(c)
            /\ Sweeping' => Sweeping
<1> USE DEF Listed, Sweeping, Steps
<1>1. CASE Reconcile
  <2>1. CASE SkipReconcile \/ StartReconcile \/ ConstructBatchJob \/ ListForTTL
    BY <2>1 DEF SkipReconcile, StartReconcile, TakeRequest, Ready, ConstructBatchJob
  <2>2. CASE MarkExpired
    BY <2>2 DEF MarkExpired
  <2>3. CASE DeleteExpired \/ DeleteOld
    <3>1. PICK c \in todo : DeleteStep(c)
      BY <2>3 DEF DeleteExpired, DeleteOld, OldestOf, NewestOf
    <3>2. wait' = wait /\ mark' = mark
      BY <3>1 DEF DeleteStep
    <3>3. CASE DeleteExpired
      BY <3>1, <3>2, <3>3 DEF DeleteExpired, AfterTTL
    <3>4. CASE DeleteOld
      BY <3>1, <3>2, <3>4 DEF DeleteOld, AfterPrune
    <3> QED BY <2>3, <3>3, <3>4
  <2>4. CASE ListHistory
    BY <2>4 DEF ListHistory, AfterPrune
  <2>5. CASE \/ ListExisting \/ CreateBatchJob \/ BumpCollision \/ ReportFailure
             \/ ReportSuccess
    BY <2>5 DEF ListExisting, CreateBatchJob, passVars, BumpCollision, ReportFailure,
      ReportSuccess, EndPass
  <2> QED BY <1>1, <2>1, <2>2, <2>3, <2>4, <2>5 DEF Reconcile
<1>2. CASE Deliver \/ Resync \/ CrashRestart \/ UNCHANGED ctlVars \/ UNCHANGED vars
  BY <1>2 DEF Deliver, Resync, CrashRestart, vars, ctlVars, passVars
<1> QED BY <1>1, <1>2 DEF Next

LEMMA MarkIsEmpty ==
  ASSUME TypeOK, pc # "mark" => mark = {}, [Next]_vars, pc' # "mark"
  PROVE  mark' = {}
<1>1. CASE Reconcile
  <2>1. CASE SkipReconcile \/ StartReconcile \/ ConstructBatchJob \/ ListForTTL \/ MarkExpired
    BY <2>1 DEF SkipReconcile, StartReconcile, TakeRequest, Ready, ConstructBatchJob,
      ListForTTL, MarkExpired, AfterTTL, passVars
  <2>2. CASE DeleteExpired \/ ListHistory \/ DeleteOld
    BY <2>2 DEF DeleteExpired, ListHistory, DeleteOld, DeleteStep
  <2>3. CASE \/ ListExisting \/ CreateBatchJob \/ BumpCollision \/ ReportFailure
             \/ ReportSuccess
    BY <2>3 DEF ListExisting, CreateBatchJob, passVars, BumpCollision, ReportFailure,
      ReportSuccess, EndPass
  <2> QED BY <1>1, <2>1, <2>2, <2>3 DEF Reconcile
<1>2. CASE Deliver \/ Resync \/ CrashRestart \/ UNCHANGED ctlVars \/ UNCHANGED vars
  BY <1>2 DEF Deliver, Resync, CrashRestart, vars, ctlVars, passVars
<1> QED BY <1>1, <1>2 DEF Next

(* An annotation that is written is an event that calls the controller     *)
(* back; a pass stays calm only when the batch Job was not found.          *)
LEMMA MarkingStep ==
  ASSUME TypeOK, MarkExpired, Calm', Pending(batch) \subseteq mark
  PROVE  Pending(batch') \subseteq mark'
<1>1. PICK b \in mark : AddTTLExpiredAnnotation(b) /\ mark' = mark \ {b}
  BY DEF MarkExpired, NewestOf
<1>2. ~PutBatch(b, [b EXCEPT !.expired = TRUE])
  <2> SUFFICES ASSUME PutBatch(b, [b EXCEPT !.expired = TRUE]) PROVE FALSE
    OBVIOUS
  <2> DEFINE e == [gone |-> FALSE, obj |-> [b EXCEPT !.expired = TRUE]]
  <2>1. batchEvents' = Append(batchEvents, e) /\ ~e.gone
    BY DEF PutBatch, ChangeBatch
  <2>2. batchEvents \in Seq(BatchEvent) /\ e \in BatchEvent
    <3>1. b \in BatchJob
      BY DEF TypeOK
    <3> QED BY <3>1 DEF BatchEvent, BatchJob, TypeOK, ClusterTypeOK
  <2> HIDE DEF e
  <2>3. /\ Len(batchEvents) + 1 \in DOMAIN batchEvents'
        /\ batchEvents'[Len(batchEvents) + 1] = e
    BY <2>1, <2>2
  <2> QED BY <2>1, <2>3 DEF Calm, Unseen, Relevant
<1>3. b \notin batch /\ batch' = batch
  BY <1>1, <1>2 DEF AddTTLExpiredAnnotation, Swallow, Calm, BatchUnchanged
<1> QED BY <1>1, <1>3 DEF Pending

LEMMA ListingStep ==
  ASSUME TypeOK, SeenInv, HistoryInv, ListForTTL, Calm, Calm'
  PROVE  /\ wait' = 0 => Pending(batch') \subseteq mark'
         /\ Sweeping' => Swept(Left')
         /\ ~Sweeping' => Swept(batch')
<1>1. /\ batch' = batch
      /\ mark' = ToExpire(ReadBatch, now)
      /\ todo' \in TTLVictims(ReadBatch)
      /\ wait' = IF Delays(ReadBatch, now) = {} THEN 0 ELSE Min(Delays(ReadBatch, now))
      /\ pc' = AfterTTL(mark', todo')
  BY DEF ListForTTL, Swallow, Calm, clusterVars, storeVars
<1>2. batch \subseteq ReadBatch /\ ReadBatch \subseteq BatchJob /\ now \in Nat
  BY UnseenAreRead DEF Calm, ReadBatch, TypeOK, ClusterTypeOK
<1>3. ASSUME wait' = 0 PROVE Pending(batch') \subseteq mark'
  <2>1. Delays(ReadBatch, now) = {}
    BY <1>1, <1>2, <1>3, DelaysArePositive
  <2>2. Pending(ReadBatch) \subseteq ToExpire(ReadBatch, now)
    BY <2>1 DEF Delays
  <2> QED BY <1>1, <1>2, <2>2 DEF Pending
<1>4. Swept(ReadBatch \ todo')
  BY <1>1, VictimsLeaveSwept
<1>5. Left' \subseteq ReadBatch \ todo'
  BY <1>1, <1>2 DEF Left
<1>6. Swept(Left')
  BY <1>4, <1>5, SweptShrinks
<1>7. ~Sweeping' => todo' = {}
  BY <1>1 DEF AfterTTL, Sweeping
<1>8. todo' = {} => Left' = batch'
  BY DEF Left
<1> QED BY <1>3, <1>6, <1>7, <1>8

LEMMA ListedStep ==
  ASSUME TypeOK, CopiesInv, DoneInv, SeenInv, HistoryInv, TTLInv, [Next]_vars,
         HistoryInv', Listed', Calm'
  PROVE  /\ wait' = 0 => Pending(batch') \subseteq mark'
         /\ Sweeping' => Swept(Left')
         /\ ~Sweeping' => Swept(batch')
<1>0. pc # "idle" /\ ~CrashRestart /\ ~StartReconcile
  BY ListedSteps DEF Listed, CrashRestart, StartReconcile, ListForTTL, Steps
<1>1. Calm /\ batch' \subseteq batch
  BY <1>0, CalmStays DEF SeenInv
<1>2. CASE ListForTTL
  BY <1>1, <1>2, ListingStep
<1>3. CASE /\ Listed /\ wait' = wait
           /\ mark' = mark \/ MarkExpired
           /\ Sweeping => todo' = todo \/ \E c \in todo : DeleteStep(c)
           /\ Sweeping' => Sweeping
  <2>1. ASSUME wait' = 0 PROVE Pending(batch') \subseteq mark'
    <3>1. Pending(batch) \subseteq mark
      BY <1>1, <1>3, <2>1 DEF TTLInv
    <3>2. Pending(batch') \subseteq Pending(batch)
      BY <1>1 DEF Pending
    <3> QED BY <1>3, <3>1, <3>2, MarkingStep
  <2>2. CASE Sweeping
    <3>1. Left' \subseteq Left
      BY <1>1, <1>3, <2>2, SameTodoLeaves, DeletionLeaves DEF Calm
    <3>2. Swept(Left')
      BY <1>1, <1>3, <2>2, <3>1, SweptShrinks DEF TTLInv
    <3>3. ~Sweeping' => Left' = batch' \/ pc' = "pruning"
      BY DEF Sweeping, HistoryInv, Cleaning, Left
    <3>4. pc' # "pruning"
      BY <2>2, PruneSteps DEF Pruned, Sweeping, ListHistory
    <3> QED BY <2>1, <3>2, <3>3, <3>4
  <2>3. CASE ~Sweeping
    <3>1. Swept(batch')
      BY <1>1, <1>3, <2>3, SweptShrinks DEF TTLInv
    <3> QED BY <1>3, <2>1, <2>3, <3>1
  <2> QED BY <2>2, <2>3
<1> QED BY <1>2, <1>3, ListedSteps

LEMMA TTLStep ==
  ASSUME TypeOK, CopiesInv, DoneInv, SeenInv, PassJob, HistoryInv, HistoryInv', TTLInv,
         [Next]_vars
  PROVE  TTLInv'
<1>1. pc' # "mark" => mark' = {}
  BY MarkIsEmpty DEF TTLInv
<1>2. Listed' /\ Calm' =>
        /\ wait' = 0 => Pending(batch') \subseteq mark'
        /\ Sweeping' => Swept(Left')
        /\ ~Sweeping' => Swept(batch')
  BY ListedStep
<1>3. ASSUME pc' = "idle", Calm', Live(ReadJob')
      PROVE  Pending(batch') = {} /\ Swept(batch')
  <2>1. CASE ReportSuccess
    <3>1. Calm /\ wait = 0 /\ batch' = batch
      BY <1>3, <2>1, SuccessIsForRead
    <3>2. Listed /\ ~Sweeping /\ mark = {}
      BY <2>1 DEF ReportSuccess, Listed, Sweeping, Steps, TTLInv
    <3> QED BY <3>1, <3>2 DEF TTLInv
  <2>2. CASE pc = "idle" /\ Calm /\ Live(ReadJob) /\ batch' \subseteq batch
    <3>1. Pending(batch) = {} /\ Swept(batch)
      BY <2>2 DEF TTLInv
    <3> QED BY <2>2, <3>1, SweptShrinks DEF Pending
  <2> QED BY <1>3, <2>1, <2>2, RestingStep DEF SeenInv
<1> QED BY <1>1, <1>2, <1>3 DEF TTLInv, Pending, Swept, Live

LEMMA RestTTL ==
  ASSUME TypeOK, SeenInv, TTLInv
  PROVE  TTLSettled
<1> SUFFICES ASSUME Quiescent, Live(job), "call" \notin dropped
             PROVE  Pending(batch) = {} /\ {} \in TTLVictims(batch)
  BY DEF TTLSettled
<1>1. ReadJob = job /\ Calm
  BY SettledReads DEF Quiescent, Calm, Unseen
<1>2. Pending(batch) = {} /\ Swept(batch)
  BY <1>1 DEF Quiescent, TTLInv
<1>3. batch \in SUBSET BatchJob
  BY DEF TypeOK, ClusterTypeOK
<1> QED BY <1>2, <1>3, SweptHasNoVictims

(***************************************************************************)
(* The theorems.                                                           *)
(***************************************************************************)
SettledInv ==
  /\ TypeOK /\ ExpiryInv /\ CopiesInv /\ DoneInv
  /\ SeenInv /\ WorkInv /\ FiniteInv /\ HistoryInv /\ TTLInv

LEMMA SettledInvariant == Spec => []SettledInv
<1>1. Init => SettledInv
  <2> SUFFICES ASSUME Init PROVE SettledInv
    OBVIOUS
  <2>1. ExpiryInv /\ DoneInv
    BY DEF Init, ClusterInit, ExpiryInv, ExpiryJustified, DoneInv, UniqueUids
  <2>2. FiniteInv /\ HistoryInv /\ TTLInv
    BY FS_EmptySet DEF Init, ClusterInit, FiniteInv, HistoryInv, TTLInv, Pruned, Listed, Calm,
      Never
  <2> QED BY <2>1, <2>2, InitTypeOK, InitCopies, InitSeen, InitWork DEF SettledInv
<1>2. SettledInv /\ [Next]_vars => SettledInv'
  <2> SUFFICES ASSUME SettledInv, [Next]_vars PROVE SettledInv'
    OBVIOUS
  <2> USE DEF SettledInv
  <2>1. TypeOK' /\ ExpiryInv' /\ CopiesInv'
    BY NextTypeOK, ExpiryStep, NextCopies
  <2>2. DoneInv' /\ SeenInv' /\ WorkInv'
    BY <2>1, NextDone, NextSeen, NextWork
  <2>3. FiniteInv'
    BY NextFinite DEF SeenInv
  <2>4. HistoryInv'
    BY HistoryStep DEF WorkInv
  <2>5. TTLInv'
    BY <2>4, TTLStep DEF WorkInv
  <2> QED BY <2>1, <2>2, <2>3, <2>4, <2>5
<1> QED BY <1>1, <1>2, PTL DEF Spec

(* Whenever the controller rests and its last pass has swallowed no failed *)
(* call, the history limit is kept: a pass deletes by what it listed, and  *)
(* a batch Job it has not listed is an event that calls it back.  For      *)
(* caches of any age, any limits (negative ones keep none), faults,        *)
(* restarts and deletions by others.                                       *)
THEOREM RestsOnlyWhenHistoryFits == Spec => []HistorySettled
<1>1. SettledInv => HistorySettled
  BY RestHistory DEF SettledInv
<1> QED BY <1>1, SettledInvariant, PTL

(* Whenever the controller rests and its last pass has swallowed no failed *)
(* call, no TTL is forgotten: a running one has asked for a pass later, an *)
(* annotation is an event that calls the controller back, and what was     *)
(* annotated when listed is deleted but for one that is alone.             *)
THEOREM RestsOnlyWhenTTLsServed == Spec => []TTLSettled
<1>1. SettledInv => TTLSettled
  BY RestTTL DEF SettledInv
<1> QED BY <1>1, SettledInvariant, PTL
=============================================================================
