---------------------- MODULE CronJobControllerProofs ----------------------
(***************************************************************************)
(* Invariants of CronJobController for every value of its constants.       *)
(***************************************************************************)
EXTENDS CronJobController, TLAPS

(***************************************************************************)
(* Type correctness.                                                       *)
(***************************************************************************)
LEMMA NewCronType ==
  ASSUME NEW u \in Nat, NEW n \in Profiles, NEW p \in Params
  PROVE  NewCron(u, n, p) \in CronJob
BY DEF NewCron, CronJob

LEMMA InitTypeOK == Init => TypeOK
<1> SUFFICES ASSUME Init PROVE TypeOK
  OBVIOUS
<1> USE DEF Init, ClusterInit
<1>1. cron \in CronJob
  BY NewCronType
<1>2. ClusterTypeOK
  BY <1>1, BoundAssumption DEF ClusterTypeOK
<1> QED BY <1>1, <1>2, FaultAssumption DEF TypeOK, ClusterTypeOK, Steps

LEMMA PutCronType ==
  ASSUME TypeOK, NEW c \in CronJob \cup {NoCron}, PutCron(c)
  PROVE  cron' \in CronJob \cup {NoCron} /\ cronEvents' \in Seq(CronJob \cup {NoCron})
BY DEF PutCron, TypeOK, ClusterTypeOK

LEMMA UpdateCronType ==
  ASSUME TypeOK, NEW c \in CronJob, UpdateCron(c)
  PROVE  cron' \in CronJob /\ cronEvents' \in Seq(CronJob \cup {NoCron})
<1>1. [c EXCEPT !.rv = @ + 1] \in CronJob
  BY DEF CronJob
<1> QED BY <1>1, PutCronType DEF UpdateCron, PutCron

LEMMA UpdateStatusType ==
  ASSUME TypeOK, NEW c \in CronJob, UpdateStatus(c)
  PROVE  cron' \in CronJob /\ cronEvents' \in Seq(CronJob \cup {NoCron})
<1> DEFINE updated == [cron EXCEPT !.cond = c.cond, !.since = c.since]
<1>1. cron \in CronJob
  BY DEF UpdateStatus, Current, TypeOK, ClusterTypeOK
<1>2. updated \in CronJob
  BY <1>1 DEF CronJob
<1>3. CronUnchanged \/ UpdateCron(updated)
  BY DEF UpdateStatus
<1> HIDE DEF updated
<1>4. CASE CronUnchanged
  BY <1>1, <1>4 DEF CronUnchanged, TypeOK, ClusterTypeOK
<1>5. CASE UpdateCron(updated)
  BY <1>2, <1>5, UpdateCronType
<1> QED BY <1>3, <1>4, <1>5

LEMMA PutBatchType ==
  ASSUME TypeOK, NEW b \in BatchCronJob \cup {NoBatch}, PutBatch(b)
  PROVE  batch' \in BatchCronJob \cup {NoBatch} /\ batchEvents' \in Seq(BOOLEAN)
<1>1. (b # NoBatch) \in BOOLEAN
  OBVIOUS
<1> QED BY <1>1 DEF PutBatch, TypeOK, ClusterTypeOK

(* What a request leaves is a batch CronJob.                               *)
LEMMA ResultType ==
  ASSUME TypeOK, NEW r \in Request
  PROVE  Result(r) \in BatchCronJob
<1>1. r.op \in Managers /\ r.fields \in Manifest /\ r.owners \subseteq Nat
  BY DEF Request, Managers
<1>2. SetIn(r.fields) \subseteq Fields
  BY DEF SetIn
<1>3. Fresh(r) \in BatchCronJob
  BY <1>1, <1>2 DEF Fresh, BatchCronJob
<1>4. ASSUME batch \in BatchCronJob
      PROVE  Merged(batch, r) \in BatchCronJob
  <2> DEFINE others == {fm \in batch.managers :
                   /\ fm[2] # "apply"
                   /\ fm[1] \in SetIn(r.fields) => batch.values[fm[1]] = r.fields[fm[1]]}
             removed == {f \in Fields : /\ <<f, "apply">> \in batch.managers
                                        /\ \A m \in Managers : <<f, m>> \notin others}
             values == [f \in Fields |-> IF f \in SetIn(r.fields) \cup removed
                                           THEN r.fields[f] ELSE batch.values[f]]
             managers == others \cup (SetIn(r.fields) \X {"apply"})
             owners == {o \in batch.owners : o[2] # "apply"} \cup (r.owners \X {"apply"})
  <2>1. values \in Manifest
    BY <1>1, <1>4 DEF Manifest, BatchCronJob
  <2>2. managers \subseteq Fields \X Managers
    BY <1>2, <1>4 DEF BatchCronJob, Managers
  <2>3. owners \subseteq Nat \X Managers
    BY <1>1, <1>4 DEF BatchCronJob, Managers
  <2>4. Merged(batch, r) = [values |-> values, managers |-> managers, owners |-> owners]
    BY DEF Merged
  <2> HIDE DEF values, managers, owners
  <2> QED BY <2>1, <2>2, <2>3, <2>4 DEF BatchCronJob
<1> QED BY <1>3, <1>4 DEF Result, TypeOK, ClusterTypeOK

LEMMA ServeType ==
  ASSUME TypeOK, NEW r \in Request, Serve(r)
  PROVE  batch' \in BatchCronJob \cup {NoBatch} /\ batchEvents' \in Seq(BOOLEAN)
<1>1. CASE BatchUnchanged
  BY <1>1 DEF BatchUnchanged, TypeOK, ClusterTypeOK
<1>2. CASE PutBatch(Result(r))
  BY <1>2, ResultType, PutBatchType
<1> QED BY <1>1, <1>2 DEF Serve

LEMMA NextRequestType ==
  ASSUME TypeOK, NEW op \in {"create", "apply"}, pc = op
  PROVE  NextRequest(op) \in Request
<1>1. snap \in CronJob /\ template \in Templates
  BY DEF TypeOK
<1>2. snap.params \in Params /\ snap.uid \in Nat
  BY <1>1 DEF CronJob
<1>3. Wanted(snap, template) \in Manifest
  BY <1>1, <1>2 DEF Wanted, Manifest, Fields, Params, Templates
<1> QED BY <1>2, <1>3 DEF NextRequest, Request

LEMMA ClusterType ==
  ASSUME TypeOK, ClusterNext
  PROVE  ClusterTypeOK'
<1> USE DEF TypeOK, ClusterTypeOK, CronUnchanged, ProfilesUnchanged, BatchUnchanged
<1>1. CASE CreateCron
  <2>1. PICK n \in Profiles, p \in Params : PutCron(NewCron(nextUid, n, p))
    BY <1>1 DEF CreateCron
  <2> QED BY <1>1, <2>1, NewCronType, PutCronType DEF CreateCron, Edit
<1>2. CASE EditCron
  <2>1. PICK n \in Profiles, p \in Params :
          UpdateCron([cron EXCEPT !.ref = n, !.params = p])
    BY <1>2 DEF EditCron
  <2>2. [cron EXCEPT !.ref = n, !.params = p] \in CronJob
    BY <1>2 DEF EditCron, CronJob
  <2> QED BY <1>2, <2>1, <2>2, UpdateCronType DEF EditCron, Edit
<1>3. CASE DeleteCron
  <2>1. [cron EXCEPT !.deleting = TRUE] \in CronJob
    BY <1>3 DEF DeleteCron, CronJob
  <2> QED BY <1>3, <2>1, PutCronType, UpdateCronType DEF DeleteCron, Remove
<1>4. CASE EditProfile
  <2>1. PICK n \in Profiles, t \in Templates \cup {NoProfile} : PutProfile(n, t)
    BY <1>4 DEF EditProfile
  <2>2. [name |-> n, template |-> t] \in ProfileEvent
    BY DEF ProfileEvent
  <2>3. /\ profiles' \in [Profiles -> Templates \cup {NoProfile}]
        /\ profileEvents' \in Seq(ProfileEvent)
    BY <2>1, <2>2 DEF PutProfile
  <2> QED BY <1>4, <2>3 DEF EditProfile, Edit, Remove
<1>5. CASE EditBatch
  <2>1. PICK f \in Fields, v \in Settings :
          PutBatch([batch EXCEPT
            !.values[f] = v,
            !.managers = {fm \in @ : fm[1] # f}
                           \cup (IF v = Unset THEN {} ELSE {<<f, "user">>})])
    BY <1>5 DEF EditBatch
  <2> DEFINE managers == {fm \in batch.managers : fm[1] # f}
                           \cup (IF v = Unset THEN {} ELSE {<<f, "user">>})
             edited == [batch EXCEPT !.values[f] = v, !.managers = managers]
  <2>2. batch \in BatchCronJob
    BY <1>5 DEF EditBatch
  <2>3. managers \subseteq Fields \X Managers
    BY <2>2 DEF BatchCronJob, Managers
  <2>4. edited \in BatchCronJob
    <3> HIDE DEF managers
    <3> QED BY <2>2, <2>3 DEF BatchCronJob, Manifest
  <2>5. PutBatch(edited)
    BY <2>1
  <2> HIDE DEF edited
  <2> QED BY <1>5, <2>4, <2>5, PutBatchType DEF EditBatch, Edit
<1>a. CASE DeleteBatch
  BY <1>a, PutBatchType DEF DeleteBatch, Remove
<1>7. CASE CollectGarbage
  <2>1. CASE CollectBatch
    BY <1>7, <2>1, PutBatchType DEF CollectBatch, CollectGarbage
  <2>2. CASE FinalizeCron
    BY <1>7, <2>2, PutCronType DEF FinalizeCron, CollectGarbage
  <2> QED BY <1>7, <2>1, <2>2 DEF CollectGarbage
<1>8. CASE Tick
  BY <1>8 DEF Tick, storeVars
<1> QED BY <1>1, <1>2, <1>3, <1>4, <1>5, <1>a, <1>7, <1>8 DEF ClusterNext, Users

LEMMA SendType ==
  ASSUME TypeOK, NEW op \in {"create", "apply"}, pc = op, Send(NextRequest(op))
  PROVE  TypeOK'
<1> DEFINE r == NextRequest(op)
<1>1. r \in Request
  BY NextRequestType
<1> HIDE DEF r
<1> USE DEF Send, TypeOK, ClusterTypeOK, CronUnchanged, ProfilesUnchanged, BatchUnchanged,
            cacheVars, passVars
<1>2. Send(r)
  BY DEF r
<1>3. batch' \in BatchCronJob \cup {NoBatch} /\ batchEvents' \in Seq(BOOLEAN)
  BY <1>1, <1>2, ServeType
<1>4. late' \subseteq Request /\ faults' \in Nat /\ pc' \in {"succeeded", "failed"}
  BY <1>1, <1>2 DEF Fault
<1>5. snap # NoCron /\ template # NoProfile
  OBVIOUS
<1> QED BY <1>2, <1>3, <1>4, <1>5 DEF Steps

LEMMA ReconcileType ==
  ASSUME TypeOK, Reconcile
  PROVE  TypeOK'
<1> USE DEF TypeOK, ClusterTypeOK, clusterVars, storeVars, cacheVars, passVars,
            CronUnchanged, ProfilesUnchanged, BatchUnchanged, Steps
<1>1. CASE SkipReconcile
  <2>1. queued' \in BOOLEAN
    BY <1>1, Zenon DEF SkipReconcile, TakeRequest
  <2>2. faults' \in Nat
    BY <1>1 DEF SkipReconcile, Fault
  <2> QED BY <1>1, <2>1, <2>2 DEF SkipReconcile
<1>2. CASE StartReconcile
  <2>1. MarkAvailable(cacheCron) \in CronJob
    BY <1>2 DEF StartReconcile, Live, MarkAvailable, CronJob
  <2> QED BY <1>2, <2>1, AbsentAssumption DEF StartReconcile, TakeRequest
<1>3. CASE ConstructBatchCronJob
  <2>1. snap.ref \in Profiles
    BY <1>3 DEF ConstructBatchCronJob, CronJob
  <2> QED BY <1>3, <2>1 DEF ConstructBatchCronJob, Constructible, Fault
<1>4. CASE GetBatchCronJob
  BY <1>4 DEF GetBatchCronJob, Fault
<1>5. CASE CreateBatchCronJob
  BY <1>5, SendType DEF CreateBatchCronJob
<1>a. CASE ApplyBatchCronJob
  BY <1>a, SendType DEF ApplyBatchCronJob
<1>7. CASE ReportFailure
  <2> DEFINE failed == [snap EXCEPT !.cond = "failed", !.since = now]
  <2>1. failed \in CronJob
    BY <1>7 DEF ReportFailure, CronJob
  <2>2. \/ UpdateStatus(failed) /\ UNCHANGED faults
        \/ CronUnchanged /\ UNCHANGED faults
        \/ Fault /\ CronUnchanged
    BY <1>7 DEF ReportFailure
  <2>3. /\ cron' \in CronJob \cup {NoCron} /\ cronEvents' \in Seq(CronJob \cup {NoCron})
        /\ faults' \in Nat
    <3> HIDE DEF failed
    <3> QED BY <2>1, <2>2, UpdateStatusType DEF Fault
  <2> QED BY <1>7, <2>3 DEF ReportFailure, EndPass
<1>8. CASE ReportSuccess
  <2>1. snap \in CronJob
    BY <1>8 DEF ReportSuccess
  <2>2. /\ cron' \in CronJob \cup {NoCron} /\ cronEvents' \in Seq(CronJob \cup {NoCron})
        /\ faults' \in Nat
    BY <1>8, <2>1, UpdateStatusType DEF ReportSuccess, Fault
  <2> QED BY <1>8, <2>2 DEF ReportSuccess, EndPass
<1> QED BY <1>1, <1>2, <1>3, <1>4, <1>5, <1>a, <1>7, <1>8 DEF Reconcile

LEMMA DeliverType ==
  ASSUME TypeOK, Deliver
  PROVE  TypeOK'
<1> USE DEF TypeOK, ClusterTypeOK, DeliveryUnchanged, passVars
<1>1. CASE DeliverCron
  BY <1>1 DEF DeliverCron
<1>2. CASE DeliverProfile
  <2> DEFINE event == Head(profileEvents)
  <2>1. event \in ProfileEvent
    BY <1>2 DEF DeliverProfile
  <2>2. cacheProfiles' \in [Profiles -> Templates \cup {NoProfile}]
    BY <1>2, <2>1 DEF DeliverProfile, ProfileEvent
  <2>3. queued' \in BOOLEAN /\ missed' \in BOOLEAN
    BY <1>2, Zenon DEF DeliverProfile
  <2>4. faults' \in Nat /\ profileEvents' \in Seq(ProfileEvent)
    BY <1>2 DEF DeliverProfile, Fault
  <2> QED BY <1>2, <2>2, <2>3, <2>4 DEF DeliverProfile
<1>3. CASE DeliverBatch
  BY <1>3 DEF DeliverBatch
<1> QED BY <1>1, <1>2, <1>3 DEF Deliver

LEMMA NextType == TypeOK /\ [Next]_vars => TypeOK'
<1> SUFFICES ASSUME TypeOK, [Next]_vars PROVE TypeOK'
  OBVIOUS
<1>1. CASE Reconcile
  BY <1>1, ReconcileType
<1>2. CASE Deliver
  BY <1>2, DeliverType
<1>3. CASE ArriveLate
  <2>1. PICK r \in late : Serve(r) /\ late' = late \ {r}
    BY <1>3 DEF ArriveLate
  <2>2. batch' \in BatchCronJob \cup {NoBatch} /\ batchEvents' \in Seq(BOOLEAN)
    BY <2>1, ServeType DEF TypeOK
  <2> QED BY <1>3, <2>1, <2>2
          DEF ArriveLate, TypeOK, ClusterTypeOK, CronUnchanged, ProfilesUnchanged,
              cacheVars, passVars
<1>4. CASE Resync
  BY <1>4 DEF Resync, TypeOK, ClusterTypeOK, clusterVars, storeVars, cacheVars, passVars
<1>5. CASE CrashRestart
  <2>1. late' \subseteq Request
    BY <1>5, NextRequestType DEF CrashRestart, TypeOK
  <2>2. queued' \in BOOLEAN /\ cacheBatch' \in BOOLEAN
    BY <1>5, Zenon DEF CrashRestart
  <2>3. ClusterTypeOK'
    BY <1>5 DEF CrashRestart, TypeOK, ClusterTypeOK
  <2>4. /\ cacheCron' \in CronJob \cup {NoCron}
        /\ cacheProfiles' \in [Profiles -> Templates \cup {NoProfile}]
        /\ faults' \in Nat /\ crashes' \in Nat
    BY <1>5 DEF CrashRestart, TypeOK, ClusterTypeOK
  <2>5. pc' = "idle" /\ snap' = NoCron /\ template' = NoProfile /\ missed' = FALSE
    BY <1>5 DEF CrashRestart
  <2> QED BY <2>1, <2>2, <2>3, <2>4, <2>5 DEF TypeOK, Steps
<1>a. CASE ClusterNext /\ UNCHANGED ctlVars
  BY <1>a, ClusterType DEF TypeOK, ctlVars, cacheVars, passVars
<1>7. CASE UNCHANGED vars
  BY <1>7 DEF TypeOK, ClusterTypeOK, vars, clusterVars, storeVars, ctlVars, cacheVars, passVars
<1> QED BY <1>1, <1>2, <1>3, <1>4, <1>5, <1>a, <1>7 DEF Next

(* Every variable keeps its type: in particular a pass past its reads has  *)
(* a CronJob and a template, and what a request leaves is a batch CronJob. *)
THEOREM TypeCorrect == Spec => []TypeOK
<1> QED BY InitTypeOK, NextType, PTL DEF Spec

(***************************************************************************)
(* Copies of the CronJob.  One of the present CronJob is no newer than it, *)
(* and if it has its resourceVersion it has its parameters; a copy of an   *)
(* earlier CronJob has an earlier uid, and cannot be taken for a copy of   *)
(* one still to be created.                                                *)
(***************************************************************************)
SameParams(c, d) == c.params = d.params /\ c.ref = d.ref

CopyOf(c, d, n) ==
  c # NoCron =>
    /\ c.uid < n
    /\ d # NoCron /\ c.uid = d.uid =>
         c.rv <= d.rv /\ (c.rv = d.rv => SameParams(c, d))

CopiesInv ==
  /\ CopyOf(cron, cron, nextUid)
  /\ CopyOf(cacheCron, cron, nextUid)
  /\ CopyOf(snap, cron, nextUid)
  /\ \A i \in DOMAIN cronEvents : CopyOf(cronEvents[i], cron, nextUid)

(* How the CronJob and the next uid may change in a step.                  *)
Evolves(d, e, m, n) ==
  /\ m <= n
  /\ \/ e = d
     \/ e = NoCron
     \/ d # NoCron /\ e # NoCron /\ e.uid = d.uid /\ e.rv = d.rv + 1
     \/ d = NoCron /\ e # NoCron /\ e.uid = m /\ n = m + 1

LEMMA CopyStays ==
  ASSUME NEW c \in CronJob \cup {NoCron}, NEW d \in CronJob \cup {NoCron},
         NEW e \in CronJob \cup {NoCron}, NEW m \in Nat, NEW n \in Nat,
         CopyOf(c, d, m), Evolves(d, e, m, n)
  PROVE  CopyOf(c, e, n)
BY DEF CopyOf, Evolves, CronJob

LEMMA CopyOfItself ==
  ASSUME NEW d \in CronJob \cup {NoCron}, NEW e \in CronJob \cup {NoCron},
         NEW m \in Nat, NEW n \in Nat, CopyOf(d, d, m), Evolves(d, e, m, n)
  PROVE  CopyOf(e, e, n)
BY DEF CopyOf, Evolves, CronJob, SameParams

LEMMA UpdateEvolves ==
  ASSUME TypeOK, NEW c \in CronJob, cron # NoCron, UpdateCron(c),
         c.uid = cron.uid, c.rv = cron.rv, nextUid' = nextUid
  PROVE  Evolves(cron, cron', nextUid, nextUid')
<1>1. cron' = [c EXCEPT !.rv = @ + 1]
  BY DEF UpdateCron, PutCron
<1>2. cron' \in CronJob /\ cron'.uid = cron.uid /\ cron'.rv = cron.rv + 1
  BY <1>1 DEF CronJob
<1> QED BY <1>2, AbsentAssumption DEF Evolves, TypeOK, ClusterTypeOK

LEMMA StatusEvolves ==
  ASSUME TypeOK, NEW c \in CronJob, UpdateStatus(c), nextUid' = nextUid
  PROVE  Evolves(cron, cron', nextUid, nextUid')
<1> DEFINE updated == [cron EXCEPT !.cond = c.cond, !.since = c.since]
<1>1. cron \in CronJob
  BY DEF UpdateStatus, Current, TypeOK, ClusterTypeOK
<1>2. updated \in CronJob /\ updated.uid = cron.uid /\ updated.rv = cron.rv
  BY <1>1 DEF CronJob
<1>3. CronUnchanged \/ UpdateCron(updated)
  BY DEF UpdateStatus
<1>4. cron # NoCron
  BY DEF UpdateStatus, Current
<1> HIDE DEF updated
<1>5. CASE CronUnchanged
  BY <1>5 DEF CronUnchanged, Evolves, TypeOK, ClusterTypeOK
<1> QED BY <1>2, <1>3, <1>4, <1>5, UpdateEvolves

(* A write of the CronJob is announced, and so is nothing else.            *)
Announced ==
  /\ Evolves(cron, cron', nextUid, nextUid')
  /\ CronUnchanged \/ cronEvents' = Append(cronEvents, cron')

LEMMA Still ==
  ASSUME TypeOK, CronUnchanged, nextUid' = nextUid
  PROVE  Announced
BY DEF Announced, Evolves, CronUnchanged, TypeOK, ClusterTypeOK

LEMMA ClusterSteps ==
  ASSUME TypeOK, ClusterNext
  PROVE  Announced
<1>0. cron \in CronJob \cup {NoCron} /\ nextUid \in Nat
  BY DEF TypeOK, ClusterTypeOK
<1>1. CASE CreateCron
  <2>1. PICK n \in Profiles, p \in Params : PutCron(NewCron(nextUid, n, p))
    BY <1>1 DEF CreateCron
  <2>2. NewCron(nextUid, n, p) \in CronJob /\ NewCron(nextUid, n, p).uid = nextUid
    BY <1>0, NewCronType DEF NewCron
  <2>3. cron' # NoCron /\ cron'.uid = nextUid
    BY <2>1, <2>2, AbsentAssumption DEF PutCron
  <2> QED BY <1>0, <1>1, <2>1, <2>3 DEF CreateCron, PutCron, Announced, Evolves
<1>2. CASE EditCron
  <2>1. PICK n \in Profiles, p \in Params :
          UpdateCron([cron EXCEPT !.ref = n, !.params = p])
    BY <1>2 DEF EditCron
  <2> DEFINE edited == [cron EXCEPT !.ref = n, !.params = p]
  <2>2. edited \in CronJob /\ edited.uid = cron.uid /\ edited.rv = cron.rv
    BY <1>0, <1>2 DEF EditCron, CronJob
  <2>3. UpdateCron(edited) /\ cron # NoCron /\ nextUid' = nextUid
    BY <1>2, <2>1 DEF EditCron
  <2> HIDE DEF edited
  <2>4. cronEvents' = Append(cronEvents, cron')
    BY <2>3 DEF UpdateCron, PutCron
  <2> QED BY <2>2, <2>3, <2>4, UpdateEvolves DEF Announced
<1>3. CASE DeleteCron
  <2> DEFINE marked == [cron EXCEPT !.deleting = TRUE]
  <2>1. marked \in CronJob /\ marked.uid = cron.uid /\ marked.rv = cron.rv
    BY <1>0, <1>3 DEF DeleteCron, CronJob
  <2>2. /\ PutCron(NoCron) \/ UpdateCron(marked)
        /\ cron # NoCron /\ nextUid' = nextUid
    BY <1>3 DEF DeleteCron
  <2> HIDE DEF marked
  <2>3. cronEvents' = Append(cronEvents, cron')
    BY <2>2 DEF UpdateCron, PutCron
  <2>4. CASE PutCron(NoCron)
    BY <1>0, <2>2, <2>3, <2>4 DEF PutCron, Announced, Evolves
  <2>5. CASE UpdateCron(marked)
    BY <2>1, <2>2, <2>3, <2>5, UpdateEvolves DEF Announced
  <2> QED BY <2>2, <2>4, <2>5
<1>4. CASE EditProfile \/ EditBatch \/ DeleteBatch
  BY <1>4, Still DEF EditProfile, EditBatch, DeleteBatch
<1>5. CASE CollectGarbage
  <2>1. CASE CollectBatch
    BY <1>5, <2>1, Still DEF CollectGarbage, CollectBatch
  <2>2. CASE FinalizeCron
    BY <1>0, <1>5, <2>2 DEF CollectGarbage, FinalizeCron, PutCron, Announced, Evolves
  <2> QED BY <1>5, <2>1, <2>2 DEF CollectGarbage
<1>a. CASE Tick
  BY <1>a, Still DEF Tick, storeVars, CronUnchanged
<1> QED BY <1>1, <1>2, <1>3, <1>4, <1>5, <1>a DEF ClusterNext, Users

LEMMA StatusSteps ==
  ASSUME TypeOK, NEW c \in CronJob, UpdateStatus(c), nextUid' = nextUid
  PROVE  Announced
<1>1. CronUnchanged \/ cronEvents' = Append(cronEvents, cron')
  BY DEF UpdateStatus, UpdateCron, PutCron
<1> QED BY <1>1, StatusEvolves DEF Announced

LEMMA ReconcileSteps ==
  ASSUME TypeOK, Reconcile
  PROVE  /\ Announced
         /\ cacheCron' = cacheCron
         /\ \/ snap' \in {snap, NoCron}
            \/ cacheCron # NoCron /\ snap' = MarkAvailable(cacheCron)
<1> USE DEF clusterVars, storeVars, cacheVars, passVars
<1>1. CASE SkipReconcile
  BY <1>1, Still DEF SkipReconcile, CronUnchanged
<1>2. CASE StartReconcile
  BY <1>2, Still DEF StartReconcile, Live, CronUnchanged
<1>3. CASE ConstructBatchCronJob
  BY <1>3, Still DEF ConstructBatchCronJob, CronUnchanged
<1>4. CASE GetBatchCronJob
  BY <1>4, Still DEF GetBatchCronJob, CronUnchanged
<1>5. CASE CreateBatchCronJob
  BY <1>5, Still DEF CreateBatchCronJob, Send
<1>a. CASE ApplyBatchCronJob
  BY <1>a, Still DEF ApplyBatchCronJob, Send
<1>7. CASE ReportFailure
  <2> DEFINE failed == [snap EXCEPT !.cond = "failed", !.since = now]
  <2>1. failed \in CronJob
    BY <1>7 DEF ReportFailure, CronJob, TypeOK, ClusterTypeOK
  <2>2. UpdateStatus(failed) \/ CronUnchanged
    BY <1>7 DEF ReportFailure
  <2>3. nextUid' = nextUid
    BY <1>7 DEF ReportFailure, EndPass
  <2>4. Announced
    <3> HIDE DEF failed
    <3> QED BY <2>1, <2>2, <2>3, StatusSteps, Still
  <2> QED BY <1>7, <2>4 DEF ReportFailure, EndPass
<1>8. CASE ReportSuccess
  <2>1. snap \in CronJob
    BY <1>8 DEF ReportSuccess, TypeOK
  <2>2. UpdateStatus(snap) \/ CronUnchanged
    BY <1>8 DEF ReportSuccess
  <2>3. Announced
    BY <1>8, <2>1, <2>2, StatusSteps, Still DEF ReportSuccess, EndPass
  <2> QED BY <1>8, <2>3 DEF ReportSuccess, EndPass
<1> QED BY <1>1, <1>2, <1>3, <1>4, <1>5, <1>a, <1>7, <1>8 DEF Reconcile

EventsInv == \A i \in DOMAIN cronEvents : CopyOf(cronEvents[i], cron, nextUid)

LEMMA AnnouncedKeepsCopies ==
  ASSUME TypeOK, TypeOK', CopiesInv, Announced
  PROVE  /\ CopyOf(cron, cron, nextUid)'
         /\ \A c \in CronJob \cup {NoCron} :
              CopyOf(c, cron, nextUid) => CopyOf(c, cron', nextUid')
         /\ EventsInv'
<1> USE DEF TypeOK, ClusterTypeOK
<1>1. CopyOf(cron', cron', nextUid')
  BY CopyOfItself DEF CopiesInv, Announced
<1>2. ASSUME NEW c \in CronJob \cup {NoCron}, CopyOf(c, cron, nextUid)
      PROVE  CopyOf(c, cron', nextUid')
  BY <1>2, CopyStays DEF Announced
<1>3. \A i \in DOMAIN cronEvents : CopyOf(cronEvents[i], cron', nextUid')
  <2>1. \A i \in DOMAIN cronEvents : cronEvents[i] \in CronJob \cup {NoCron}
    OBVIOUS
  <2> QED BY <1>2, <2>1 DEF CopiesInv
<1>4. ASSUME cronEvents' = cronEvents
      PROVE  EventsInv'
  BY <1>3, <1>4 DEF EventsInv
<1>5. ASSUME cronEvents' = Append(cronEvents, cron')
      PROVE  EventsInv'
  <2>1. ASSUME NEW i \in DOMAIN cronEvents'
        PROVE  CopyOf(cronEvents'[i], cron', nextUid')
    <3>1. CASE i \in DOMAIN cronEvents
      <4>1. cronEvents'[i] = cronEvents[i]
        BY <1>5, <3>1
      <4> QED BY <1>3, <3>1, <4>1
    <3>2. CASE i \notin DOMAIN cronEvents
      <4>1. cronEvents'[i] = cron'
        BY <1>5, <2>1, <3>2
      <4> QED BY <1>1, <4>1
    <3> QED BY <3>1, <3>2
  <2> QED BY <2>1 DEF EventsInv
<1> QED BY <1>1, <1>2, <1>4, <1>5 DEF Announced, CronUnchanged

LEMMA InitCopies == Init => CopiesInv
<1> SUFFICES ASSUME Init PROVE CopiesInv
  OBVIOUS
<1>1. cron \in CronJob /\ cron.uid = 1 /\ nextUid = 2
  BY NewCronType DEF Init, ClusterInit, NewCron
<1> QED BY <1>1 DEF Init, ClusterInit, CopiesInv, CopyOf, SameParams, CronJob

LEMMA NextCopies == TypeOK /\ TypeOK' /\ CopiesInv /\ [Next]_vars => CopiesInv'
<1> SUFFICES ASSUME TypeOK, TypeOK', CopiesInv, [Next]_vars PROVE CopiesInv'
  OBVIOUS
<1>0. /\ cacheCron \in CronJob \cup {NoCron} /\ snap \in CronJob \cup {NoCron}
      /\ cron \in CronJob \cup {NoCron} /\ nextUid \in Nat
      /\ cronEvents \in Seq(CronJob \cup {NoCron})
  BY DEF TypeOK, ClusterTypeOK
<1>a. CopyOf(NoCron, cron', nextUid')
  BY DEF CopyOf
<1>1. CASE Reconcile
  <2>1. CopyOf(cacheCron', cron', nextUid')
    BY <1>0, <1>1, ReconcileSteps, AnnouncedKeepsCopies DEF CopiesInv
  <2>2. CopyOf(snap', cron', nextUid')
    <3>1. CASE snap' \in {snap, NoCron}
      BY <1>0, <1>1, <1>a, <3>1, ReconcileSteps, AnnouncedKeepsCopies DEF CopiesInv
    <3>2. CASE cacheCron # NoCron /\ snap' = MarkAvailable(cacheCron)
      <4>1. /\ snap'.uid = cacheCron.uid /\ snap'.rv = cacheCron.rv
            /\ snap'.params = cacheCron.params /\ snap'.ref = cacheCron.ref
        BY <1>0, <3>2 DEF MarkAvailable, CronJob
      <4>2. CopyOf(cacheCron, cron', nextUid')
        BY <1>0, <1>1, ReconcileSteps, AnnouncedKeepsCopies DEF CopiesInv
      <4> QED BY <3>2, <4>1, <4>2 DEF CopyOf, SameParams
    <3> QED BY <1>1, <3>1, <3>2, ReconcileSteps
  <2> QED BY <1>1, <2>1, <2>2, ReconcileSteps, AnnouncedKeepsCopies DEF CopiesInv, EventsInv
<1>2. CASE Deliver
  <2>1. cron' = cron /\ nextUid' = nextUid /\ snap' = snap
    BY <1>2 DEF Deliver, DeliverCron, DeliverProfile, DeliverBatch, DeliveryUnchanged, passVars
  <2>2. CASE DeliverCron
    <3>1. cacheCron' = cronEvents[1] /\ 1 \in DOMAIN cronEvents
      BY <1>0, <2>2 DEF DeliverCron
    <3>2. \A i \in DOMAIN cronEvents' :
            i + 1 \in DOMAIN cronEvents /\ cronEvents'[i] = cronEvents[i + 1]
      BY <1>0, <2>2 DEF DeliverCron
    <3> QED BY <2>1, <3>1, <3>2 DEF CopiesInv
  <2>3. CASE DeliverProfile \/ DeliverBatch
    BY <2>1, <2>3 DEF DeliverProfile, DeliverBatch, CopiesInv
  <2> QED BY <1>2, <2>2, <2>3 DEF Deliver
<1>3. CASE ArriveLate \/ Resync \/ UNCHANGED vars
  BY <1>3 DEF ArriveLate, Resync, CronUnchanged, CopiesInv, vars, clusterVars, storeVars,
              ctlVars, cacheVars, passVars
<1>4. CASE CrashRestart
  BY <1>4 DEF CrashRestart, CopiesInv, CopyOf
<1>5. CASE ClusterNext /\ UNCHANGED ctlVars
  <2>1. cacheCron' = cacheCron /\ snap' = snap
    BY <1>5 DEF ctlVars, cacheVars, passVars
  <2> QED BY <1>0, <1>5, <2>1, ClusterSteps, AnnouncedKeepsCopies DEF CopiesInv, EventsInv
<1> QED BY <1>1, <1>2, <1>3, <1>4, <1>5 DEF Next

(***************************************************************************)
(* The status.                                                             *)
(***************************************************************************)
BecomesAvailable ==
  /\ cron # NoCron /\ cron' # NoCron /\ cron.uid = cron'.uid
  /\ cron.cond # "ok" /\ cron'.cond = "ok"

LEMMA UpdatedStatus ==
  ASSUME TypeOK, NEW c \in CronJob, UpdateStatus(c)
  PROVE  cron' = cron \/ cron'.cond = c.cond
<1>1. cron \in CronJob
  BY DEF UpdateStatus, Current, TypeOK, ClusterTypeOK
<1> QED BY <1>1 DEF UpdateStatus, UpdateCron, PutCron, CronUnchanged, CronJob

LEMMA OnlySuccessMakesAvailable ==
  ASSUME TypeOK, [Next]_vars, BecomesAvailable
  PROVE  ReportSuccess /\ Current(snap)
<1> USE DEF BecomesAvailable
<1>0. cron \in CronJob /\ cron' # cron
  BY DEF TypeOK, ClusterTypeOK
<1>1. CASE Reconcile
  <2>1. CASE ReportFailure
    <3> DEFINE failed == [snap EXCEPT !.cond = "failed", !.since = now]
    <3>1. failed \in CronJob /\ failed.cond = "failed"
      BY <2>1 DEF ReportFailure, CronJob, TypeOK, ClusterTypeOK
    <3>2. UpdateStatus(failed)
      BY <1>0, <2>1 DEF ReportFailure, CronUnchanged
    <3> HIDE DEF failed
    <3> QED BY <1>0, <3>1, <3>2, UpdatedStatus
  <2>2. CASE ReportSuccess
    BY <1>0, <2>2 DEF ReportSuccess, CronUnchanged, UpdateStatus
  <2>3. CASE ~ReportFailure /\ ~ReportSuccess
    BY <1>0, <1>1, <2>3
       DEF Reconcile, SkipReconcile, StartReconcile, ConstructBatchCronJob, GetBatchCronJob,
           CreateBatchCronJob, ApplyBatchCronJob, Send, CronUnchanged, clusterVars, storeVars
  <2> QED BY <2>1, <2>2, <2>3
<1>2. CASE ClusterNext /\ UNCHANGED ctlVars
  <2>1. CASE CreateCron
    BY <2>1 DEF CreateCron
  <2>2. CASE EditCron
    <3>1. PICK n \in Profiles, p \in Params :
            UpdateCron([cron EXCEPT !.ref = n, !.params = p])
      BY <2>2 DEF EditCron
    <3>2. cron'.cond = cron.cond
      BY <1>0, <3>1 DEF UpdateCron, PutCron, CronJob
    <3> QED BY <3>2
  <2>3. CASE DeleteCron
    <3>1. cron' = NoCron \/ cron'.cond = cron.cond
      BY <1>0, <2>3 DEF DeleteCron, UpdateCron, PutCron, CronJob
    <3> QED BY <3>1
  <2>4. CASE FinalizeCron
    BY <2>4 DEF FinalizeCron, PutCron
  <2> QED BY <1>0, <1>2, <2>1, <2>2, <2>3, <2>4
          DEF ClusterNext, Users, EditProfile, EditBatch, DeleteBatch, CollectGarbage,
              CollectBatch, Tick, CronUnchanged, storeVars
<1>3. CASE Deliver \/ ArriveLate \/ Resync \/ CrashRestart \/ UNCHANGED vars
  BY <1>0, <1>3
     DEF Deliver, DeliverCron, DeliverProfile, DeliverBatch, DeliveryUnchanged, ArriveLate,
         Resync, CrashRestart, CronUnchanged, vars, clusterVars, storeVars
<1> QED BY <1>1, <1>2, <1>3 DEF Next

(* However stale the caches and whatever fails, the status says Available  *)
(* only after a pass that worked with the CronJob's present parameters.    *)
THEOREM AvailableOnlyForPresentParams == Spec => AvailableIsEarned
<1>1. Init => TypeOK /\ CopiesInv
  BY InitTypeOK, InitCopies
<1>2. TypeOK /\ CopiesInv /\ [Next]_vars => (TypeOK /\ CopiesInv)'
  BY NextType, NextCopies
<1>3. ASSUME TypeOK, CopiesInv, [Next]_vars, BecomesAvailable
      PROVE  /\ pc = "succeeded" /\ snap.uid = cron.uid
             /\ snap.params = cron.params /\ snap.ref = cron.ref
  <2>1. ReportSuccess /\ Current(snap)
    BY <1>3, OnlySuccessMakesAvailable
  <2>2. snap \in CronJob /\ snap # NoCron /\ pc = "succeeded"
    BY <1>3, <2>1, AbsentAssumption DEF ReportSuccess, TypeOK
  <2> QED BY <1>3, <2>1, <2>2 DEF Current, CopiesInv, CopyOf, SameParams
<1>4. TypeOK /\ CopiesInv /\ [Next]_vars =>
        [cron # NoCron /\ cron' # NoCron /\ cron.uid = cron'.uid
           /\ cron.cond # "ok" /\ cron'.cond = "ok"
             => /\ pc = "succeeded" /\ snap.uid = cron.uid
                /\ snap.params = cron.params /\ snap.ref = cron.ref]_vars
  BY <1>3 DEF BecomesAvailable
<1> QED BY <1>1, <1>2, <1>4, PTL DEF Spec, AvailableIsEarned

(***************************************************************************)
(* The caches follow the store.  Nothing is lost: what a cache does not    *)
(* show yet is the last event on its way to it.                            *)
(***************************************************************************)
CronSeen ==
  IF cronEvents = <<>> THEN cacheCron = cron ELSE cronEvents[Len(cronEvents)] = cron

Tells(e, n) == e.name = n /\ e.template = profiles[n]

ProfileSeen(n) ==
  \/ /\ \A i \in DOMAIN profileEvents : profileEvents[i].name # n
     /\ cacheProfiles[n] = profiles[n]
  \/ \E i \in DOMAIN profileEvents :
       /\ Tells(profileEvents[i], n)
       /\ \A j \in DOMAIN profileEvents : j > i => profileEvents[j].name # n

ProfilesSeen == \A n \in Profiles : ProfileSeen(n)

SeenInv == CronSeen /\ ProfilesSeen

LEMMA InitSeen == Init => SeenInv
BY DEF Init, ClusterInit, SeenInv, CronSeen, ProfilesSeen, ProfileSeen

LEMMA AnnouncedIsSeen ==
  ASSUME TypeOK, CronSeen, Announced, cacheCron' = cacheCron
  PROVE  CronSeen'
<1>0. cronEvents \in Seq(CronJob \cup {NoCron})
  BY DEF TypeOK, ClusterTypeOK
<1>1. CASE CronUnchanged
  BY <1>1 DEF CronSeen, CronUnchanged
<1>2. CASE cronEvents' = Append(cronEvents, cron')
  <2>1. cronEvents' # <<>> /\ Len(cronEvents') = Len(cronEvents) + 1
    BY <1>0, <1>2
  <2>2. cronEvents'[Len(cronEvents')] = cron'
    BY <1>0, <1>2, <2>1
  <2> QED BY <2>1, <2>2 DEF CronSeen
<1> QED BY <1>1, <1>2 DEF Announced

LEMMA OneOrMore == \A n \in Nat : n > 0 => n = 1 \/ n > 1
OBVIOUS

LEMMA LongIsNotEmpty ==
  ASSUME NEW S, NEW s \in Seq(S), Len(s) > 0
  PROVE  s # <<>>
OBVIOUS

LEMMA LastOfTail ==
  ASSUME NEW S, NEW s \in Seq(S), Len(s) > 1
  PROVE  Tail(s) # <<>> /\ Len(Tail(s)) = Len(s) - 1 /\ Tail(s)[Len(s) - 1] = s[Len(s)]
<1>1. Len(s) \in Nat /\ Len(s) - 1 > 0
  OBVIOUS
<1>2. Len(Tail(s)) = Len(s) - 1
  OBVIOUS
<1>3. Tail(s) # <<>>
  <2>1. Tail(s) \in Seq(S) /\ Len(Tail(s)) > 0
    BY <1>1, <1>2
  <2> QED BY <2>1, LongIsNotEmpty
<1>4. Tail(s)[Len(s) - 1] = s[Len(s)]
  BY <1>1
<1> QED BY <1>2, <1>3, <1>4

LEMMA NextCronSeen == TypeOK /\ CronSeen /\ [Next]_vars => CronSeen'
<1> SUFFICES ASSUME TypeOK, CronSeen, [Next]_vars PROVE CronSeen'
  OBVIOUS
<1>0. cronEvents \in Seq(CronJob \cup {NoCron})
  BY DEF TypeOK, ClusterTypeOK
<1>1. CASE Reconcile
  BY <1>1, ReconcileSteps, AnnouncedIsSeen
<1>2. CASE DeliverCron
  <2>1. /\ cronEvents # <<>> /\ cron' = cron
        /\ cacheCron' = cronEvents[1] /\ cronEvents' = Tail(cronEvents)
    BY <1>0, <1>2 DEF DeliverCron, DeliveryUnchanged
  <2>2. CASE Len(cronEvents) = 1
    <3>1. cronEvents' = <<>>
      BY <1>0, <2>1, <2>2
    <3> QED BY <2>1, <2>2, <3>1 DEF CronSeen
  <2>3. CASE Len(cronEvents) > 1
    <3>1. cronEvents' # <<>> /\ Len(cronEvents') = Len(cronEvents) - 1
      BY <1>0, <2>1, <2>3, LastOfTail
    <3>2. cronEvents'[Len(cronEvents')] = cronEvents[Len(cronEvents)]
      BY <1>0, <2>1, <2>3, <3>1, LastOfTail
    <3> QED BY <2>1, <3>1, <3>2 DEF CronSeen
  <2>4. Len(cronEvents) \in Nat /\ Len(cronEvents) > 0
    BY <1>0, <2>1
  <2> QED BY <2>2, <2>3, <2>4, OneOrMore
<1>3. CASE CrashRestart
  BY <1>3 DEF CrashRestart, CronSeen
<1>4. CASE ClusterNext /\ UNCHANGED ctlVars
  BY <1>4, ClusterSteps, AnnouncedIsSeen DEF ctlVars, cacheVars
<1>5. CASE DeliverProfile \/ DeliverBatch \/ ArriveLate \/ Resync \/ UNCHANGED vars
  BY <1>5
     DEF DeliverProfile, DeliverBatch, DeliveryUnchanged, ArriveLate, Resync, CronUnchanged,
         CronSeen, vars, clusterVars, storeVars, ctlVars, cacheVars
<1> QED BY <1>1, <1>2, <1>3, <1>4, <1>5 DEF Next, Deliver

LEMMA PutProfileIsSeen ==
  ASSUME TypeOK, ProfilesSeen, NEW m \in Profiles, NEW t \in Templates \cup {NoProfile},
         PutProfile(m, t), cacheProfiles' = cacheProfiles
  PROVE  ProfilesSeen'
<1> DEFINE e == [name |-> m, template |-> t]
<1>0. /\ profileEvents \in Seq(ProfileEvent)
      /\ profiles \in [Profiles -> Templates \cup {NoProfile}]
  BY DEF TypeOK, ClusterTypeOK
<1>1. /\ profiles' = [profiles EXCEPT ![m] = t]
      /\ profileEvents' = Append(profileEvents, e)
  BY DEF PutProfile
<1>2. e.name = m /\ e.template = t
  OBVIOUS
<1> HIDE DEF e
<1>3. /\ DOMAIN profileEvents' = DOMAIN profileEvents \cup {Len(profileEvents) + 1}
      /\ profileEvents'[Len(profileEvents) + 1] = e
      /\ \A i \in DOMAIN profileEvents :
           profileEvents'[i] = profileEvents[i] /\ i < Len(profileEvents) + 1
  BY <1>0, <1>1
<1>4. Len(profileEvents) + 1 \in Nat /\ \A i \in DOMAIN profileEvents : i \in Nat
  BY <1>0
<1> SUFFICES ASSUME NEW n \in Profiles PROVE ProfileSeen(n)'
  BY DEF ProfilesSeen
<1>5. CASE n = m
  <2>1. profiles'[n] = t
    BY <1>0, <1>1, <1>5
  <2>2. /\ profileEvents'[Len(profileEvents) + 1].name = n
        /\ profileEvents'[Len(profileEvents) + 1].template = profiles'[n]
    BY <1>2, <1>3, <1>5, <2>1
  <2>3. \A j \in DOMAIN profileEvents' : ~(j > Len(profileEvents) + 1)
    BY <1>3, <1>4
  <2> QED BY <1>3, <2>2, <2>3 DEF ProfileSeen, Tells
<1>a. CASE n # m
  <2>1. profiles'[n] = profiles[n]
    BY <1>0, <1>1, <1>a
  <2>2. ProfileSeen(n)
    BY DEF ProfilesSeen
  <2> QED BY <1>2, <1>3, <1>a, <2>1, <2>2 DEF ProfileSeen, Tells
<1> QED BY <1>5, <1>a

LEMMA NextProfilesSeen == TypeOK /\ ProfilesSeen /\ [Next]_vars => ProfilesSeen'
<1> SUFFICES ASSUME TypeOK, ProfilesSeen, [Next]_vars PROVE ProfilesSeen'
  OBVIOUS
<1>0. /\ profileEvents \in Seq(ProfileEvent)
      /\ cacheProfiles \in [Profiles -> Templates \cup {NoProfile}]
  BY DEF TypeOK, ClusterTypeOK
<1>1. CASE DeliverProfile
  <2> DEFINE event == Head(profileEvents)
  <2>1. /\ profileEvents # <<>> /\ profiles' = profiles
        /\ cacheProfiles' = [cacheProfiles EXCEPT ![event.name] = event.template]
        /\ profileEvents' = Tail(profileEvents)
    BY <1>1 DEF DeliverProfile, DeliveryUnchanged
  <2>2. event = profileEvents[1] /\ event \in ProfileEvent /\ 1 \in DOMAIN profileEvents
    BY <1>0, <2>1
  <2> HIDE DEF event
  <2>3. \A i \in DOMAIN profileEvents' :
          i + 1 \in DOMAIN profileEvents /\ profileEvents'[i] = profileEvents[i + 1] /\ i \in Nat
    BY <1>0, <2>1
  <2>4. \A i \in DOMAIN profileEvents :
          i # 1 => /\ i - 1 \in DOMAIN profileEvents'
                   /\ profileEvents[i] = profileEvents'[i - 1]
                   /\ i \in Nat
    BY <1>0, <2>1
  <2> SUFFICES ASSUME NEW n \in Profiles PROVE ProfileSeen(n)'
    BY DEF ProfilesSeen
  <2>5. ProfileSeen(n)
    BY DEF ProfilesSeen
  <2>a. CASE /\ \A i \in DOMAIN profileEvents : profileEvents[i].name # n
             /\ cacheProfiles[n] = profiles[n]
    <3>1. cacheProfiles'[n] = profiles'[n]
      BY <1>0, <2>1, <2>2, <2>a
    <3> QED BY <2>3, <2>a, <3>1 DEF ProfileSeen
  <2>7. ASSUME NEW i \in DOMAIN profileEvents, Tells(profileEvents[i], n),
               \A j \in DOMAIN profileEvents : j > i => profileEvents[j].name # n
        PROVE  ProfileSeen(n)'
    <3>1. CASE i = 1
      <4>1. cacheProfiles'[n] = profiles'[n]
        BY <1>0, <2>1, <2>2, <2>7, <3>1 DEF Tells
      <4>2. \A j \in DOMAIN profileEvents' : profileEvents'[j].name # n
        <5>1. \A j \in DOMAIN profileEvents' : j + 1 > i
          BY <1>0, <2>1, <3>1
        <5> QED BY <2>3, <2>7, <5>1
      <4> QED BY <4>1, <4>2 DEF ProfileSeen
    <3>2. CASE i # 1
      <4>1. /\ i - 1 \in DOMAIN profileEvents'
            /\ profileEvents'[i - 1].name = n /\ profileEvents'[i - 1].template = profiles'[n]
        BY <2>1, <2>4, <2>7, <3>2 DEF Tells
      <4>2. \A j \in DOMAIN profileEvents' : j > i - 1 => profileEvents'[j].name # n
        <5>1. \A j \in DOMAIN profileEvents' : j > i - 1 => j + 1 > i
          BY <2>3, <2>4, <3>2
        <5> QED BY <2>3, <2>7, <5>1
      <4> QED BY <4>1, <4>2 DEF ProfileSeen, Tells
    <3> QED BY <3>1, <3>2
  <2> QED BY <2>5, <2>a, <2>7 DEF ProfileSeen
<1>2. CASE CrashRestart
  BY <1>2 DEF CrashRestart, ProfilesSeen, ProfileSeen
<1>3. CASE EditProfile /\ UNCHANGED ctlVars
  <2>1. PICK n \in Profiles, t \in Templates \cup {NoProfile} : PutProfile(n, t)
    BY <1>3 DEF EditProfile
  <2> QED BY <1>3, <2>1, PutProfileIsSeen DEF ctlVars, cacheVars
<1>4. ASSUME ProfilesUnchanged, cacheProfiles' = cacheProfiles
      PROVE  ProfilesSeen'
  BY <1>4 DEF ProfilesUnchanged, ProfilesSeen, ProfileSeen, Tells
<1>5. CASE Reconcile
  <2>1. ProfilesUnchanged /\ cacheProfiles' = cacheProfiles
    BY <1>5
       DEF Reconcile, SkipReconcile, StartReconcile, ConstructBatchCronJob, GetBatchCronJob,
           CreateBatchCronJob, ApplyBatchCronJob, Send, ReportFailure, ReportSuccess, EndPass,
           ProfilesUnchanged, clusterVars, storeVars, cacheVars
  <2> QED BY <1>4, <2>1
<1>a. CASE DeliverCron \/ DeliverBatch \/ ArriveLate \/ Resync \/ UNCHANGED vars
  BY <1>4, <1>a
     DEF DeliverCron, DeliverBatch, DeliveryUnchanged, ArriveLate, Resync, ProfilesUnchanged,
         vars, clusterVars, storeVars, ctlVars, cacheVars
<1>7. CASE ClusterNext /\ ~EditProfile /\ UNCHANGED ctlVars
  <2>1. ProfilesUnchanged
    BY <1>7
       DEF ClusterNext, Users, CreateCron, EditCron, DeleteCron, EditBatch, DeleteBatch,
           CollectGarbage, Tick, storeVars, ProfilesUnchanged
  <2> QED BY <1>4, <1>7, <2>1 DEF ctlVars, cacheVars
<1> QED BY <1>1, <1>2, <1>3, <1>5, <1>a, <1>7 DEF Next, Deliver

(***************************************************************************)
(* Convergence.  A pass that no event has called back works for what the   *)
(* caches show; one that has succeeded has found the batch CronJob as it   *)
(* should be, or there is an event of the batch CronJob on its way; and    *)
(* what the last pass found still holds when the controller rests.         *)
(***************************************************************************)
AppliedFor(c, t) ==
  LET wanted == Wanted(c, t)
  IN  /\ batch # NoBatch
      /\ OwnerUids(batch) = {c.uid}
      /\ \A f \in SetIn(wanted) : batch.values[f] = wanted[f]
      /\ \A f \in Fields \ SetIn(wanted) : <<f, "apply">> \notin batch.managers

SameWork(c, d) == c.uid = d.uid /\ SameParams(c, d)

Built == pc \in {"get", "create", "apply", "succeeded"}

PassInv ==
  pc # "idle" =>
    /\ snap.cond = "ok"
    /\ ~queued =>
         /\ Live(cacheCron) /\ SameWork(snap, cacheCron)
         /\ Built /\ ~missed => template = cacheProfiles[snap.ref]
    /\ pc = "succeeded" /\ ~queued /\ batchEvents = <<>> => AppliedFor(snap, template)

RestInv ==
  pc = "idle" /\ ~queued /\ ~missed /\ Live(cacheCron) /\ batchEvents = <<>> =>
    /\ cacheProfiles[cacheCron.ref] # NoProfile
    /\ AppliedFor(cacheCron, cacheProfiles[cacheCron.ref])
    /\ cronEvents = <<>> => cacheCron.cond = "ok"

WorkInv == PassInv /\ RestInv

LEMMA InitWork == Init => WorkInv
BY DEF Init, WorkInv, PassInv, RestInv

(* What is applied depends on the uid, the parameters and the template.    *)
LEMMA SameWorkApplied ==
  ASSUME NEW c, NEW d, NEW t, SameWork(c, d), AppliedFor(c, t)
  PROVE  AppliedFor(d, t)
<1>1. Wanted(c, t) = Wanted(d, t) /\ c.uid = d.uid
  BY DEF SameWork, SameParams, Wanted
<1> QED BY <1>1 DEF AppliedFor

(* A request that was served without a change has found what it wants.     *)
LEMMA ServedWithoutChange ==
  ASSUME TypeOK, NEW r \in Request, NEW u \in Nat, r.owners = {u},
         Serve(r), batchEvents' = <<>>
  PROVE  /\ batch' = batch /\ batch # NoBatch
         /\ OwnerUids(batch) = {u}
         /\ \A f \in SetIn(r.fields) : batch.values[f] = r.fields[f]
         /\ \A f \in Fields \ SetIn(r.fields) : <<f, "apply">> \notin batch.managers
<1>0. batchEvents \in Seq(BOOLEAN) /\ batch \in BatchCronJob \cup {NoBatch}
  BY DEF TypeOK, ClusterTypeOK
<1>1. Result(r) \in BatchCronJob
  BY ResultType
<1>2. ~PutBatch(Result(r))
  BY <1>0 DEF PutBatch
<1>3. Result(r) = batch /\ batch' = batch
  BY <1>2 DEF Serve, BatchUnchanged
<1>4. batch \in BatchCronJob /\ batch # NoBatch
  BY <1>1, <1>3, AbsentAssumption
<1>5. Merged(batch, r) = batch /\ \A v, w \in OwnerUids(batch) : v = w
  BY <1>3, <1>4 DEF Serve, Accepted, Result
<1>a. r.fields \in Manifest /\ SetIn(r.fields) \subseteq Fields
  BY DEF Request, SetIn
<1>7. OwnerUids(batch) = {u}
  <2>1. <<u, "apply">> \in Merged(batch, r).owners
    BY DEF Merged
  <2>2. u \in OwnerUids(batch)
    BY <1>5, <2>1 DEF OwnerUids
  <2> QED BY <1>5, <2>2
<1>8. \A f \in SetIn(r.fields) : Merged(batch, r).values[f] = r.fields[f]
  BY <1>a DEF Merged
<1>9. \A f \in Fields \ SetIn(r.fields) : <<f, "apply">> \notin Merged(batch, r).managers
  BY DEF Merged
<1> QED BY <1>3, <1>4, <1>5, <1>7, <1>8, <1>9

(* A change of the batch CronJob is announced.                             *)
BatchAnnounced == BatchUnchanged \/ batchEvents' # <<>>

LEMMA PutBatchIsAnnounced ==
  ASSUME TypeOK, NEW b, PutBatch(b)
  PROVE  BatchAnnounced
BY DEF PutBatch, BatchAnnounced, TypeOK, ClusterTypeOK

LEMMA ServeIsAnnounced ==
  ASSUME TypeOK, NEW r, Serve(r)
  PROVE  BatchAnnounced
BY PutBatchIsAnnounced DEF Serve, BatchAnnounced

LEMMA ClusterAnnouncesBatch ==
  ASSUME TypeOK, ClusterNext
  PROVE  BatchAnnounced
<1>1. CASE EditBatch
  <2>1. PICK f \in Fields, v \in Settings :
          PutBatch([batch EXCEPT
            !.values[f] = v,
            !.managers = {fm \in @ : fm[1] # f}
                           \cup (IF v = Unset THEN {} ELSE {<<f, "user">>})])
    BY <1>1 DEF EditBatch
  <2> QED BY <2>1, PutBatchIsAnnounced
<1>2. CASE DeleteBatch
  BY <1>2, PutBatchIsAnnounced DEF DeleteBatch
<1>3. CASE CollectBatch
  BY <1>3, PutBatchIsAnnounced DEF CollectBatch
<1>4. CASE ~EditBatch /\ ~DeleteBatch /\ ~CollectBatch
  BY <1>4
     DEF ClusterNext, Users, CreateCron, EditCron, DeleteCron, EditProfile, CollectGarbage,
         FinalizeCron, Tick, storeVars, BatchAnnounced, BatchUnchanged
<1> QED BY <1>1, <1>2, <1>3, <1>4

LEMMA AnnouncedStays ==
  ASSUME NEW c, NEW t, BatchAnnounced, batchEvents' = <<>>,
         batchEvents = <<>> => AppliedFor(c, t)
  PROVE  batchEvents = <<>> /\ AppliedFor(c, t) /\ batch' = batch
BY DEF BatchAnnounced, BatchUnchanged

LEMMA EventsStay ==
  ASSUME TypeOK, Announced, cronEvents' = <<>>
  PROVE  CronUnchanged /\ cronEvents = <<>>
BY DEF Announced, CronUnchanged, TypeOK, ClusterTypeOK

(* A step that leaves the controller alone.                                *)
LEMMA OutsideStep ==
  ASSUME TypeOK, WorkInv, Announced, BatchAnnounced,
         UNCHANGED <<cacheCron, cacheProfiles, queued, pc, snap, template, missed>>
  PROVE  WorkInv'
<1>1. PassInv'
  BY AnnouncedStays DEF WorkInv, PassInv, Built, Live, SameWork, SameParams, AppliedFor
<1>2. RestInv'
  BY AnnouncedStays, EventsStay DEF WorkInv, RestInv, Live, AppliedFor
<1> QED BY <1>1, <1>2 DEF WorkInv

(* A step after which a request is queued.                                 *)
LEMMA QueuedStep ==
  ASSUME WorkInv, queued' = TRUE, pc' = "idle" \/ (pc' = pc /\ snap' = snap)
  PROVE  WorkInv'
BY DEF WorkInv, PassInv, RestInv

LEMMA SendWork ==
  ASSUME TypeOK, WorkInv, NEW op \in {"create", "apply"}, pc = op, Send(NextRequest(op))
  PROVE  WorkInv'
<1> DEFINE r == NextRequest(op)
<1>1. r \in Request /\ r.owners = {snap.uid} /\ r.fields = Wanted(snap, template)
  BY NextRequestType DEF NextRequest
<1>2. snap.uid \in Nat
  BY DEF TypeOK, CronJob
<1>3. /\ pc' \in {"succeeded", "failed"} /\ (pc' = "succeeded" => Serve(r))
      /\ UNCHANGED <<cacheCron, cacheProfiles, queued, snap, template, missed>>
  BY DEF Send, cacheVars, passVars
<1> HIDE DEF r
<1>4. ASSUME pc' = "succeeded", batchEvents' = <<>>
      PROVE  AppliedFor(snap, template)'
  <2>1. Serve(r)
    BY <1>3, <1>4
  <2>2. /\ batch' = batch /\ batch # NoBatch /\ OwnerUids(batch) = {snap.uid}
        /\ \A f \in SetIn(r.fields) : batch.values[f] = r.fields[f]
        /\ \A f \in Fields \ SetIn(r.fields) : <<f, "apply">> \notin batch.managers
    BY <1>1, <1>2, <1>4, <2>1, ServedWithoutChange
  <2>3. AppliedFor(snap, template)
    BY <1>1, <2>2 DEF AppliedFor
  <2> QED BY <1>3, <2>2, <2>3 DEF AppliedFor, Wanted, SetIn, OwnerUids
<1>5. PassInv'
  BY <1>3, <1>4 DEF WorkInv, PassInv, Built, Live, SameWork, SameParams
<1>a. RestInv'
  BY <1>3 DEF RestInv
<1> QED BY <1>5, <1>a DEF WorkInv

LEMMA ReportSuccessWork ==
  ASSUME TypeOK, WorkInv, CronSeen, ReportSuccess
  PROVE  WorkInv'
<1>1. /\ pc = "succeeded" /\ pc' = "idle" /\ BatchUnchanged
      /\ UNCHANGED <<cacheCron, cacheProfiles, missed>>
  BY DEF ReportSuccess, EndPass, cacheVars
<1>2. queued' \/ (queued' = queued /\ UpdateStatus(snap))
  BY DEF ReportSuccess
<1>3. ASSUME ~queued', ~missed', Live(cacheCron)', batchEvents' = <<>>
      PROVE  /\ (cacheProfiles[cacheCron.ref])' # NoProfile
             /\ AppliedFor(cacheCron, cacheProfiles[cacheCron.ref])'
             /\ cronEvents' = <<>> => cacheCron'.cond = "ok"
  <2>1. ~queued /\ ~missed /\ batchEvents = <<>> /\ UpdateStatus(snap)
    BY <1>1, <1>2, <1>3 DEF BatchUnchanged
  <2>2. /\ SameWork(snap, cacheCron) /\ AppliedFor(snap, template)
        /\ template = cacheProfiles[snap.ref] /\ snap.cond = "ok"
    BY <1>1, <2>1 DEF WorkInv, PassInv, Built
  <2>3. template = cacheProfiles[cacheCron.ref] /\ template # NoProfile
    BY <1>1, <2>2 DEF SameWork, SameParams, TypeOK
  <2>4. AppliedFor(cacheCron, cacheProfiles[cacheCron.ref])
    BY <2>2, <2>3, SameWorkApplied
  <2>5. ASSUME cronEvents' = <<>>
        PROVE  cacheCron.cond = "ok"
    <3> DEFINE updated == [cron EXCEPT !.cond = snap.cond, !.since = snap.since]
    <3>1. cron \in CronJob /\ cronEvents \in Seq(CronJob \cup {NoCron})
      BY <2>1 DEF UpdateStatus, Current, TypeOK, ClusterTypeOK
    <3>2. updated = cron /\ CronUnchanged
      BY <2>1, <2>5, <3>1 DEF UpdateStatus, UpdateCron, PutCron
    <3>3. updated.cond = "ok"
      BY <2>2, <3>1 DEF CronJob
    <3>4. cacheCron = cron
      BY <2>5, <3>2 DEF CronSeen, CronUnchanged
    <3> HIDE DEF updated
    <3> QED BY <3>2, <3>3, <3>4
  <2> QED BY <1>1, <2>3, <2>4, <2>5 DEF AppliedFor, BatchUnchanged
<1> QED BY <1>1, <1>3 DEF WorkInv, PassInv, RestInv

LEMMA ReconcileWork ==
  ASSUME TypeOK, WorkInv, CronSeen, Reconcile
  PROVE  WorkInv'
<1> USE DEF clusterVars, storeVars, cacheVars, passVars
<1>1. CASE SkipReconcile
  BY <1>1 DEF SkipReconcile, TakeRequest, Live, WorkInv, PassInv, RestInv
<1>2. CASE StartReconcile
  <2>1. cacheCron \in CronJob /\ Live(cacheCron)
    BY <1>2 DEF StartReconcile, Live, TypeOK
  <2>2. snap' = MarkAvailable(cacheCron) /\ pc' = "profile" /\ cacheCron' = cacheCron
    BY <1>2 DEF StartReconcile
  <2>3. snap'.cond = "ok" /\ SameWork(snap', cacheCron)
    BY <2>1, <2>2 DEF MarkAvailable, SameWork, SameParams, CronJob
  <2> QED BY <2>1, <2>2, <2>3
          DEF WorkInv, PassInv, RestInv, Built, SameWork, SameParams, Live
<1>3. CASE ConstructBatchCronJob
  BY <1>3 DEF ConstructBatchCronJob, WorkInv, PassInv, RestInv, Built, SameWork, SameParams,
              Live
<1>4. CASE GetBatchCronJob
  BY <1>4 DEF GetBatchCronJob, WorkInv, PassInv, RestInv, Built, SameWork, SameParams, Live
<1>5. CASE CreateBatchCronJob
  BY <1>5, SendWork DEF CreateBatchCronJob
<1>a. CASE ApplyBatchCronJob
  BY <1>a, SendWork DEF ApplyBatchCronJob
<1>7. CASE ReportFailure
  BY <1>7, QueuedStep DEF ReportFailure, EndPass
<1>8. CASE ReportSuccess
  BY <1>8, ReportSuccessWork
<1> QED BY <1>1, <1>2, <1>3, <1>4, <1>5, <1>a, <1>7, <1>8 DEF Reconcile

LEMMA DeliverProfileWork ==
  ASSUME TypeOK, WorkInv, DeliverProfile
  PROVE  WorkInv'
<1> DEFINE event == Head(profileEvents)
<1>1. /\ UNCHANGED <<batch, batchEvents, cronEvents, cacheCron, pc, snap, template>>
      /\ cacheProfiles' = [cacheProfiles EXCEPT ![event.name] = event.template]
      /\ \/ queued' = (queued \/ Refers(cacheCron, event.name)) /\ missed' = missed
         \/ Refers(cacheCron, event.name) /\ missed' = TRUE /\ queued' = queued
  BY DEF DeliverProfile, DeliveryUnchanged, passVars
<1>2. cacheProfiles \in [Profiles -> Templates \cup {NoProfile}]
  BY DEF TypeOK
<1> HIDE DEF event
<1>3. /\ ~queued' => ~queued
      /\ ~missed' => ~missed
      /\ ~queued' /\ ~missed' => ~Refers(cacheCron, event.name)
  <2>1. ASSUME queued' = (queued \/ Refers(cacheCron, event.name)), missed' = missed
        PROVE  (queued => queued') /\ (Refers(cacheCron, event.name) => queued')
    BY <2>1, Zenon
  <2>2. ASSUME missed' = TRUE, queued' = queued
        PROVE  (queued => queued') /\ missed'
    BY <2>2
  <2> QED BY <1>1, <2>1, <2>2
<1>4. ASSUME ~queued', ~missed', Live(cacheCron)
      PROVE  cacheProfiles'[cacheCron.ref] = cacheProfiles[cacheCron.ref]
  <2>1. cacheCron.ref \in Profiles /\ cacheCron.ref # event.name
    BY <1>3, <1>4 DEF Live, Refers, TypeOK, CronJob
  <2> QED BY <1>1, <1>2, <2>1
<1>5. PassInv'
  BY <1>1, <1>3, <1>4
     DEF WorkInv, PassInv, Built, SameWork, SameParams, Live, AppliedFor
<1>a. RestInv'
  BY <1>1, <1>3, <1>4 DEF WorkInv, RestInv, Live, AppliedFor
<1> QED BY <1>5, <1>a DEF WorkInv

LEMMA NextWork == TypeOK /\ SeenInv /\ WorkInv /\ [Next]_vars => WorkInv'
<1> SUFFICES ASSUME TypeOK, CronSeen, WorkInv, [Next]_vars PROVE WorkInv'
  BY DEF SeenInv
<1>1. CASE Reconcile
  BY <1>1, ReconcileWork
<1>2. CASE DeliverCron \/ DeliverBatch \/ Resync
  BY <1>2, QueuedStep
     DEF DeliverCron, DeliverBatch, DeliveryUnchanged, Resync, passVars
<1>3. CASE DeliverProfile
  BY <1>3, DeliverProfileWork
<1>4. CASE ArriveLate
  <2>1. BatchAnnounced
    BY <1>4, ServeIsAnnounced DEF ArriveLate
  <2>2. Announced
    BY <1>4, Still DEF ArriveLate
  <2> QED BY <1>4, <2>1, <2>2, OutsideStep DEF ArriveLate, cacheVars, passVars
<1>5. CASE CrashRestart
  BY <1>5 DEF CrashRestart, WorkInv, PassInv, RestInv, Live
<1>a. CASE ClusterNext /\ UNCHANGED ctlVars
  BY <1>a, ClusterSteps, ClusterAnnouncesBatch, OutsideStep DEF ctlVars, cacheVars, passVars
<1>7. CASE UNCHANGED vars
  <2>1. BatchAnnounced /\ Announced
    BY <1>7, Still
       DEF vars, clusterVars, storeVars, BatchAnnounced, BatchUnchanged, CronUnchanged
  <2> QED BY <1>7, <2>1, OutsideStep DEF vars, ctlVars, cacheVars, passVars
<1> QED BY <1>1, <1>2, <1>3, <1>4, <1>5, <1>a, <1>7 DEF Next, Deliver

LEMMA AtRest ==
  ASSUME TypeOK, SeenInv, WorkInv, Quiescent, Managed
  PROVE  /\ profiles[cron.ref] # NoProfile
         /\ cron.cond = "ok"
         /\ AppliedFor(cron, profiles[cron.ref])
<1>1. cacheCron = cron
  BY DEF Quiescent, SeenInv, CronSeen
<1>2. cron.ref \in Profiles
  BY DEF Managed, Live, TypeOK, ClusterTypeOK, CronJob
<1>3. cacheProfiles[cron.ref] = profiles[cron.ref]
  BY <1>2 DEF Quiescent, SeenInv, ProfilesSeen, ProfileSeen
<1>4. /\ cacheProfiles[cron.ref] # NoProfile
      /\ AppliedFor(cron, cacheProfiles[cron.ref])
      /\ cron.cond = "ok"
  BY <1>1 DEF Quiescent, Managed, WorkInv, RestInv
<1> QED BY <1>3, <1>4

LEMMA RestConverges == TypeOK /\ SeenInv /\ WorkInv => Converged
BY AtRest DEF Converged, Applied, AppliedFor

(* No event is lost: whenever the controller has nothing to do, a CronJob  *)
(* it manages is applied and its status says so, for any number of         *)
(* PodProfiles, fields, edits, faults and crashes.                         *)
THEOREM RestsOnlyWhenApplied == Spec => []Converged
<1>1. Init => TypeOK /\ SeenInv /\ WorkInv
  BY InitTypeOK, InitSeen, InitWork
<1>2. TypeOK /\ SeenInv /\ WorkInv /\ [Next]_vars => (TypeOK /\ SeenInv /\ WorkInv)'
  BY NextType, NextCronSeen, NextProfilesSeen, NextWork DEF SeenInv
<1> QED BY <1>1, <1>2, RestConverges, PTL DEF Spec

(***************************************************************************)
(* What is left over.  An apply removes what its own manager has set, so   *)
(* it is not enough to know at rest that nothing unwanted is the apply's:  *)
(* whatever is set must be somebody's.                                     *)
(***************************************************************************)
Somebodys(b) ==
  \A f \in Fields : b.values[f] # Unset => \E m \in Managers : <<f, m>> \in b.managers

SetterInv == batch # NoBatch => Somebodys(batch)

LEMMA MergedIsSomebodys ==
  ASSUME NEW b \in BatchCronJob, Somebodys(b), NEW r \in Request
  PROVE  Somebodys(Merged(b, r))
<1> DEFINE others == {fm \in b.managers :
                        /\ fm[2] # "apply"
                        /\ fm[1] \in SetIn(r.fields) => b.values[fm[1]] = r.fields[fm[1]]}
           removed == {f \in Fields : /\ <<f, "apply">> \in b.managers
                                      /\ \A m \in Managers : <<f, m>> \notin others}
           merged == Merged(b, r)
<1>1. /\ merged.managers = others \cup (SetIn(r.fields) \X {"apply"})
      /\ \A f \in Fields : merged.values[f] =
           IF f \in SetIn(r.fields) \cup removed THEN r.fields[f] ELSE b.values[f]
  BY DEF Merged
<1>2. "apply" \in Managers
  BY DEF Managers
<1> HIDE DEF merged
<1>3. ASSUME NEW f \in Fields, merged.values[f] # Unset
      PROVE  \E m \in Managers : <<f, m>> \in merged.managers
  <2>1. CASE f \in SetIn(r.fields)
    BY <1>1, <1>2, <2>1
  <2>2. CASE f \notin SetIn(r.fields)
    <3>1. r.fields[f] = Unset
      BY <2>2 DEF SetIn
    <3>2. f \notin removed /\ b.values[f] # Unset
      BY <1>1, <1>3, <2>2, <3>1
    <3>3. PICK m \in Managers : <<f, m>> \in b.managers
      BY <3>2 DEF Somebodys
    <3>4. CASE m = "apply"
      <4>1. \E n \in Managers : <<f, n>> \in others
        BY <3>2, <3>3, <3>4
      <4> QED BY <1>1, <4>1
    <3>5. CASE m # "apply"
      <4>1. <<f, m>> \in others
        BY <2>2, <3>3, <3>5
      <4> QED BY <1>1, <4>1
    <3> QED BY <3>4, <3>5
  <2> QED BY <2>1, <2>2
<1> QED BY <1>3 DEF Somebodys, merged

LEMMA FreshIsSomebodys ==
  ASSUME NEW r \in Request
  PROVE  Somebodys(Fresh(r))
<1>1. r.op \in Managers
  BY DEF Request, Managers
<1>2. ASSUME NEW f \in Fields, Fresh(r).values[f] # Unset
      PROVE  <<f, r.op>> \in Fresh(r).managers
  BY <1>2 DEF Fresh, SetIn
<1> QED BY <1>1, <1>2 DEF Somebodys

LEMMA ServeSets ==
  ASSUME TypeOK, SetterInv, NEW r \in Request, Serve(r)
  PROVE  SetterInv'
<1>1. batch' = batch \/ batch' = Result(r)
  BY DEF Serve, PutBatch, BatchUnchanged
<1>2. Somebodys(Result(r))
  <2>1. CASE batch = NoBatch
    BY <2>1, FreshIsSomebodys DEF Result
  <2>2. CASE batch # NoBatch
    BY <2>2, MergedIsSomebodys DEF Result, SetterInv, TypeOK, ClusterTypeOK
  <2> QED BY <2>1, <2>2
<1>3. CASE batch' = batch
  BY <1>3 DEF SetterInv, Somebodys
<1>4. CASE batch' = Result(r)
  <2>1. PICK b : b = Result(r)
    OBVIOUS
  <2>2. batch' = b /\ Somebodys(b)
    BY <1>2, <1>4, <2>1
  <2> QED BY <2>2 DEF SetterInv, Somebodys
<1> QED BY <1>1, <1>3, <1>4

LEMMA EditSets ==
  ASSUME TypeOK, SetterInv, EditBatch
  PROVE  SetterInv'
<1>1. PICK f \in Fields, v \in Settings :
        PutBatch([batch EXCEPT
          !.values[f] = v,
          !.managers = {fm \in @ : fm[1] # f}
                         \cup (IF v = Unset THEN {} ELSE {<<f, "user">>})])
  BY DEF EditBatch
<1>2. batch \in BatchCronJob /\ Somebodys(batch)
  BY DEF EditBatch, TypeOK, ClusterTypeOK, SetterInv
<1>3. /\ batch'.values = [batch.values EXCEPT ![f] = v]
      /\ batch'.managers = {fm \in batch.managers : fm[1] # f}
                             \cup (IF v = Unset THEN {} ELSE {<<f, "user">>})
  BY <1>1, <1>2 DEF PutBatch, BatchCronJob
<1>4. ASSUME NEW g \in Fields, batch'.values[g] # Unset
      PROVE  \E m \in Managers : <<g, m>> \in batch'.managers
  <2>1. CASE g = f
    <3>1. v # Unset
      BY <1>2, <1>3, <1>4, <2>1 DEF BatchCronJob, Manifest
    <3> QED BY <1>3, <2>1, <3>1 DEF Managers
  <2>2. CASE g # f
    <3>1. batch.values[g] # Unset
      BY <1>2, <1>3, <1>4, <2>2 DEF BatchCronJob, Manifest
    <3>2. PICK m \in Managers : <<g, m>> \in batch.managers
      BY <1>2, <3>1 DEF Somebodys
    <3> QED BY <1>3, <2>2, <3>2
  <2> QED BY <2>1, <2>2
<1> QED BY <1>4 DEF SetterInv, Somebodys

LEMMA NextSetters == TypeOK /\ SetterInv /\ [Next]_vars => SetterInv'
<1> SUFFICES ASSUME TypeOK, SetterInv, [Next]_vars PROVE SetterInv'
  OBVIOUS
<1>1. CASE batch' = batch \/ batch' = NoBatch
  BY <1>1 DEF SetterInv, Somebodys
<1>2. CASE EditBatch
  BY <1>2, EditSets
<1>3. ASSUME NEW op \in {"create", "apply"}, pc = op, Send(NextRequest(op)), batch' # batch
      PROVE  SetterInv'
  <2>1. NextRequest(op) \in Request
    BY <1>3, NextRequestType
  <2>2. Serve(NextRequest(op))
    BY <1>3 DEF Send, BatchUnchanged
  <2> QED BY <2>1, <2>2, ServeSets
<1>4. CASE ArriveLate
  BY <1>4, ServeSets DEF ArriveLate, TypeOK
<1>5. CASE Reconcile /\ batch' # batch
  BY <1>3, <1>5
     DEF Reconcile, SkipReconcile, StartReconcile, ConstructBatchCronJob, GetBatchCronJob,
         CreateBatchCronJob, ApplyBatchCronJob, ReportFailure, ReportSuccess, EndPass,
         BatchUnchanged, clusterVars, storeVars
<1>6. ASSUME ClusterNext, ~EditBatch PROVE batch' = batch \/ batch' = NoBatch
  BY <1>6
     DEF ClusterNext, Users, CreateCron, EditCron, DeleteCron, EditProfile, DeleteBatch,
         CollectGarbage, CollectBatch, FinalizeCron, Tick, storeVars, BatchUnchanged, PutBatch
<1>7. CASE Deliver \/ Resync \/ CrashRestart \/ UNCHANGED vars
  BY <1>1, <1>7
     DEF Deliver, DeliverCron, DeliverProfile, DeliverBatch, DeliveryUnchanged, Resync,
         CrashRestart, vars, clusterVars, storeVars
<1> QED BY <1>1, <1>2, <1>4, <1>5, <1>6, <1>7 DEF Next

(* What an apply has set does not outlive the wish for it: whichever       *)
(* copies the passes in between have worked with, and whatever failed or   *)
(* arrived late, a setting left over at rest was made by the create or by  *)
(* a user (lines 156 and 188).  The run cron_leftover shows that those of  *)
(* the create do stay.                                                     *)
THEOREM LeftoversAreNotApplied == Spec => []ApplyLeavesNothing
<1>1. Init => TypeOK /\ SeenInv /\ WorkInv /\ SetterInv
  BY InitTypeOK, InitSeen, InitWork DEF Init, ClusterInit, SetterInv
<1>2. TypeOK /\ SeenInv /\ WorkInv /\ SetterInv /\ [Next]_vars
        => (TypeOK /\ SeenInv /\ WorkInv /\ SetterInv)'
  BY NextType, NextCronSeen, NextProfilesSeen, NextWork, NextSetters DEF SeenInv
<1>3. TypeOK /\ SeenInv /\ WorkInv /\ SetterInv => ApplyLeavesNothing
  <2> SUFFICES ASSUME TypeOK, SeenInv, WorkInv, SetterInv, Quiescent, Managed,
                      NEW f \in Fields \ SetIn(Wanted(cron, profiles[cron.ref])),
                      batch.values[f] # Unset
               PROVE  \E m \in {"create", "user"} : <<f, m>> \in batch.managers
    BY DEF ApplyLeavesNothing
  <2>1. batch # NoBatch /\ <<f, "apply">> \notin batch.managers
    BY AtRest DEF AppliedFor
  <2>2. PICK m \in Managers : <<f, m>> \in batch.managers
    BY <2>1 DEF SetterInv, Somebodys
  <2> QED BY <2>1, <2>2 DEF Managers
<1> QED BY <1>1, <1>2, <1>3, PTL DEF Spec
=============================================================================
