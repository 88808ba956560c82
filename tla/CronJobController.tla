-------------------------- MODULE CronJobController --------------------------
(***************************************************************************)
(* CronJobReconciler (internal/controller/cronjob_controller.go): its      *)
(* watches, and Reconcile, one step per call it makes to the API server.   *)
(* Reads are served by the informers' caches, writes go to the store.  One *)
(* worker runs Reconcile; the manager may crash and start again.           *)
(***************************************************************************)
EXTENDS CronCluster

CONSTANTS
  Unpatchable, \* what kubectl always fails to make: a patch does not apply
  Faults,     \* bound: API calls and patches that fail, but not always
  Crashes     \* bound: restarts of the manager

ASSUME UnpatchableAssumption == Unpatchable \subseteq Manifest
ASSUME FaultAssumption == Faults \in Nat /\ Crashes \in Nat

VARIABLES
  cacheCron, cacheProfiles,  \* the informers' caches
  cacheBatch, \* whether the batch CronJob is in the cache
  queued,     \* a request for the CronJob is queued
  pc,         \* the next step of Reconcile
  snap,       \* Reconcile's copy of the CronJob
  template,   \* the patched pod template of the next batch CronJob
  late,       \* requests sent whose sender has given up: they may still arrive
  missed,     \* history: a PodProfile's event was dropped since the last pass
  faults, crashes

cacheVars == <<cacheCron, cacheProfiles, cacheBatch>>
passVars == <<snap, template>>
ctlVars == <<cacheVars, queued, pc, passVars, late, missed, faults, crashes>>
vars == <<clusterVars, ctlVars>>

Steps == {"idle", "profile", "get", "create", "apply", "failed", "succeeded"}

TypeOK ==
  /\ ClusterTypeOK
  /\ cacheCron \in CronJob \cup {NoCron}
  /\ cacheProfiles \in [Profiles -> Templates \cup {NoProfile}]
  /\ cacheBatch \in BOOLEAN
  /\ queued \in BOOLEAN
  /\ pc \in Steps
  /\ snap \in CronJob \cup {NoCron}
  /\ pc # "idle" => snap # NoCron
  /\ template \in Templates \cup {NoProfile}
  /\ pc \in {"get", "create", "apply", "succeeded"} => template # NoProfile
  /\ late \subseteq Request
  /\ missed \in BOOLEAN
  /\ faults \in Nat /\ crashes \in Nat

Fault == faults > 0 /\ faults' = faults - 1

(***************************************************************************)
(* Reconcile: the CronJob (lines 66-117), its PodProfile and the manifest  *)
(* (lines 119-133).  The condition OK is set in memory first.              *)
(***************************************************************************)
Live(c) == c # NoCron /\ ~c.deleting

MarkAvailable(c) ==
  IF c.cond = "ok" THEN c ELSE [c EXCEPT !.cond = "ok", !.since = now]

TakeRequest == pc = "idle" /\ queued /\ queued' = FALSE

SkipReconcile ==
  /\ \/ TakeRequest /\ ~Live(cacheCron) /\ UNCHANGED faults
     \/ pc = "idle" /\ queued /\ Fault /\ UNCHANGED queued
  /\ UNCHANGED <<clusterVars, cacheVars, pc, passVars, late, missed, crashes>>

StartReconcile ==
  /\ TakeRequest
  /\ Live(cacheCron)
  /\ snap' = MarkAvailable(cacheCron)
  /\ missed' = FALSE
  /\ pc' = "profile"
  /\ UNCHANGED <<clusterVars, cacheVars, template, late, faults, crashes>>

(* Mutant: the error of getPodProfile is not looked at.                    *)
ConstructAnyway ==
  /\ pc = "profile"
  /\ template' = cacheProfiles[snap.ref]
  /\ pc' = "get"
  /\ UNCHANGED <<clusterVars, cacheVars, queued, snap, late, missed, faults, crashes>>

Wanted(c, t) == [f \in Fields |-> IF f \in CronFields THEN c.params[f] ELSE t[f]]

Constructible(c, t) == t # NoProfile /\ Wanted(c, t) \notin Unpatchable

ConstructBatchCronJob ==
  LET read == cacheProfiles[snap.ref]
  IN  /\ pc = "profile"
      /\ \/ Constructible(snap, read) /\ template' = read /\ pc' = "get" /\ UNCHANGED faults
         \/ ~Constructible(snap, read) /\ pc' = "failed" /\ UNCHANGED <<template, faults>>
         \/ Fault /\ pc' = "failed" /\ UNCHANGED template
      /\ UNCHANGED <<clusterVars, cacheVars, queued, snap, late, missed, crashes>>

(***************************************************************************)
(* applyBatchCronJob: create the batch CronJob if the cache has none, else *)
(* apply the manifest.  The comparison of line 181 is of two Go types and  *)
(* never finds them equal, so what it reads makes no difference; neither   *)
(* conversion of a CronJob fails.                                          *)
(***************************************************************************)
(* Mutant: no controller reference is set.                                 *)
RequestWithoutOwner(op) ==
  [op |-> op, owners |-> {}, fields |-> Wanted(snap, template)]

NextRequest(op) == [op |-> op, owners |-> {snap.uid}, fields |-> Wanted(snap, template)]

GetBatchCronJob ==
  /\ pc = "get"
  /\ \/ pc' = (IF cacheBatch THEN "apply" ELSE "create") /\ UNCHANGED faults
     \/ Fault /\ pc' = "failed"
  /\ UNCHANGED <<clusterVars, cacheVars, queued, passVars, late, missed, crashes>>

(* A failed call may still take effect, at once, later or never.           *)
Send(r) ==
  /\ \/ Serve(r) /\ pc' = "succeeded" /\ UNCHANGED <<late, faults>>
     \/ ~Accepted(r) /\ pc' = "failed" /\ BatchUnchanged /\ UNCHANGED <<late, faults>>
     \/ Fault /\ pc' = "failed" /\ BatchUnchanged /\ late' = late \cup {r}
  /\ CronUnchanged /\ ProfilesUnchanged
  /\ UNCHANGED <<nextUid, now, edits, removals>>
  /\ UNCHANGED <<cacheVars, queued, passVars, missed, crashes>>

CreateBatchCronJob == pc = "create" /\ Send(NextRequest("create"))

(* Mutant: no apply when the batch CronJob has everything that is wanted,  *)
(* as the comparison of line 181 might decide.                             *)
ApplyWhatIsMissing ==
  LET r == NextRequest("apply")
      there == /\ batch # NoBatch /\ OwnerUids(batch) = r.owners
               /\ \A f \in SetIn(r.fields) : batch.values[f] = r.fields[f]
  IN  /\ pc = "apply"
      /\ \/ ~there /\ Send(r)
         \/ there /\ pc' = "succeeded"
            /\ UNCHANGED <<clusterVars, cacheVars, queued, passVars, late, missed, faults, crashes>>

ApplyBatchCronJob == pc = "apply" /\ Send(NextRequest("apply"))

ArriveLate ==
  /\ \E r \in late : Serve(r) /\ late' = late \ {r}
  /\ CronUnchanged /\ ProfilesUnchanged
  /\ UNCHANGED <<nextUid, now, edits, removals>>
  /\ UNCHANGED <<cacheVars, queued, pc, passVars, missed, faults, crashes>>

(***************************************************************************)
(* The end of a pass: Status().Update, refused unless the copy is current. *)
(* A failing pass ignores the update's error and is retried.               *)
(***************************************************************************)
Current(c) == cron # NoCron /\ cron.uid = c.uid /\ cron.rv = c.rv

(* Mutant: the write carries no resourceVersion.                           *)
PatchStatus(c) ==
  /\ cron # NoCron /\ cron.uid = c.uid
  /\ UpdateCron([cron EXCEPT !.cond = c.cond, !.since = c.since])

UpdateStatus(c) ==
  LET updated == [cron EXCEPT !.cond = c.cond, !.since = c.since]
  IN  /\ Current(c)
      /\ IF updated = cron THEN CronUnchanged ELSE UpdateCron(updated)

EndPass ==
  /\ pc' = "idle"
  /\ snap' = NoCron /\ template' = NoProfile
  /\ ProfilesUnchanged /\ BatchUnchanged
  /\ UNCHANGED <<nextUid, now, edits, removals, cacheVars, late, missed, crashes>>

ReportFailure ==
  LET failed == [snap EXCEPT !.cond = "failed", !.since = now]
  IN  /\ pc = "failed"
      /\ \/ UpdateStatus(failed) /\ UNCHANGED faults
         \/ ~Current(failed) /\ CronUnchanged /\ UNCHANGED faults
         \/ Fault /\ CronUnchanged
      /\ queued' = TRUE
      /\ EndPass

(* Mutant: every pass asks for another one.                                *)
ReportAndRequeue ==
  /\ pc = "succeeded"
  /\ UpdateStatus(snap) \/ (~Current(snap) /\ CronUnchanged)
  /\ queued' = TRUE
  /\ EndPass /\ UNCHANGED faults

ReportSuccess ==
  /\ pc = "succeeded"
  /\ \/ UpdateStatus(snap) /\ UNCHANGED <<queued, faults>>
     \/ ~Current(snap) /\ CronUnchanged /\ queued' = TRUE /\ UNCHANGED faults
     \/ Fault /\ CronUnchanged /\ queued' = TRUE
  /\ EndPass

Reconcile ==
  \/ SkipReconcile
  \/ StartReconcile
  \/ ConstructBatchCronJob
  \/ GetBatchCronJob
  \/ CreateBatchCronJob
  \/ ApplyBatchCronJob
  \/ ReportFailure
  \/ ReportSuccess

(***************************************************************************)
(* The watches: CronJobs, batch CronJobs they own, and PodProfiles.  An    *)
(* event of a PodProfile enqueues the CronJobs of the cache that refer to  *)
(* it; if listing them fails it is dropped.                                *)
(***************************************************************************)
DeliveryUnchanged ==
  UNCHANGED <<cron, profiles, batch, nextUid, now, edits, removals,
              pc, passVars, late, crashes>>

DeliverCron ==
  /\ cronEvents # <<>>
  /\ cacheCron' = Head(cronEvents)
  /\ cronEvents' = Tail(cronEvents)
  /\ queued' = TRUE
  /\ UNCHANGED <<profileEvents, batchEvents, cacheProfiles, cacheBatch, missed, faults>>
  /\ DeliveryUnchanged

Refers(c, n) == c # NoCron /\ c.ref = n

(* Mutant: PodProfiles are not watched.                                    *)
DeliverProfileOnly ==
  /\ profileEvents # <<>>
  /\ LET event == Head(profileEvents)
     IN  cacheProfiles' = [cacheProfiles EXCEPT ![event.name] = event.template]
  /\ profileEvents' = Tail(profileEvents)
  /\ UNCHANGED queued
  /\ UNCHANGED <<cronEvents, batchEvents, cacheCron, cacheBatch, missed, faults>>
  /\ DeliveryUnchanged

DeliverProfile ==
  /\ profileEvents # <<>>
  /\ LET event == Head(profileEvents)
         refers == Refers(cacheCron, event.name)
     IN  /\ cacheProfiles' = [cacheProfiles EXCEPT ![event.name] = event.template]
         /\ \/ queued' = (queued \/ refers) /\ UNCHANGED <<missed, faults>>
            \/ refers /\ Fault /\ missed' = TRUE /\ UNCHANGED queued
  /\ profileEvents' = Tail(profileEvents)
  /\ UNCHANGED <<cronEvents, batchEvents, cacheCron, cacheBatch>>
  /\ DeliveryUnchanged

(* Mutant: batch CronJobs are not watched.                                 *)
DeliverBatchOnly ==
  /\ batchEvents # <<>>
  /\ cacheBatch' = Head(batchEvents)
  /\ batchEvents' = Tail(batchEvents)
  /\ UNCHANGED <<cronEvents, profileEvents, cacheCron, cacheProfiles, queued, missed, faults>>
  /\ DeliveryUnchanged

DeliverBatch ==
  /\ batchEvents # <<>>
  /\ cacheBatch' = Head(batchEvents)
  /\ batchEvents' = Tail(batchEvents)
  /\ queued' = TRUE
  /\ UNCHANGED <<cronEvents, profileEvents, cacheCron, cacheProfiles, missed, faults>>
  /\ DeliveryUnchanged

Deliver == DeliverCron \/ DeliverProfile \/ DeliverBatch

(* Any event without a change: a periodic resync, another status update.   *)
Resync ==
  /\ pc = "idle" /\ ~queued
  /\ cacheCron # NoCron
  /\ queued' = TRUE
  /\ UNCHANGED <<clusterVars, cacheVars, pc, passVars, late, missed, faults, crashes>>

(* A request on its way when the manager stops may still arrive.           *)
CrashRestart ==
  /\ crashes > 0
  /\ crashes' = crashes - 1
  /\ \/ UNCHANGED late
     \/ pc \in {"create", "apply"} /\ late' = late \cup {NextRequest(pc)}
  /\ cacheCron' = cron /\ cacheProfiles' = profiles /\ cacheBatch' = (batch # NoBatch)
  /\ cronEvents' = <<>> /\ profileEvents' = <<>> /\ batchEvents' = <<>>
  /\ queued' = (cron # NoCron)
  /\ pc' = "idle"
  /\ snap' = NoCron /\ template' = NoProfile
  /\ missed' = FALSE
  /\ UNCHANGED <<cron, profiles, batch, nextUid, now, edits, removals, faults>>

Init ==
  /\ ClusterInit
  /\ cacheCron = cron /\ cacheProfiles = profiles /\ cacheBatch = FALSE
  /\ queued = TRUE
  /\ pc = "idle"
  /\ snap = NoCron /\ template = NoProfile
  /\ late = {}
  /\ missed = FALSE
  /\ faults = Faults /\ crashes = Crashes

Next ==
  \/ Reconcile
  \/ Deliver
  \/ ArriveLate
  \/ Resync
  \/ CrashRestart
  \/ ClusterNext /\ UNCHANGED ctlVars

Spec == Init /\ [][Next]_vars

(* The worker runs, each watch delivers, garbage is collected and time     *)
(* passes.  Users, faults, crashes, resyncs and late requests owe nothing. *)
Fairness ==
  /\ WF_vars(Reconcile)
  /\ WF_vars(DeliverCron) /\ WF_vars(DeliverProfile) /\ WF_vars(DeliverBatch)
  /\ WF_vars(CollectGarbage /\ UNCHANGED ctlVars)
  /\ WF_vars(Tick /\ UNCHANGED ctlVars)

FairSpec == Spec /\ Fairness

-----------------------------------------------------------------------------
(***************************************************************************)
(* Properties.                                                             *)
(***************************************************************************)

(* The batch CronJob belongs to the CronJob alone and has every setting    *)
(* that the CronJob and its PodProfile ask for.                            *)
Applied ==
  LET wanted == Wanted(cron, profiles[cron.ref])
  IN  /\ batch # NoBatch
      /\ OwnerUids(batch) = {cron.uid}
      /\ \A f \in SetIn(wanted) : batch.values[f] = wanted[f]

Quiescent ==
  /\ pc = "idle" /\ ~queued
  /\ cronEvents = <<>> /\ profileEvents = <<>> /\ batchEvents = <<>>

Managed == Live(cron) /\ ~missed

(* No event is lost: whenever the controller has nothing to do, the batch  *)
(* CronJob is applied and the status says OK, whatever order the watches   *)
(* deliver in, and although failed requests may arrive late and users edit *)
(* the batch CronJob.                                                      *)
Converged ==
  Quiescent /\ Managed =>
    /\ profiles[cron.ref] # NoProfile
    /\ cron.cond = "ok"
    /\ Applied

(* Available turns true only for what has been applied: the pass that      *)
(* reports it has worked with the CronJob's present parameters.            *)
AvailableIsEarned ==
  [][cron # NoCron /\ cron' # NoCron /\ cron.uid = cron'.uid
       /\ cron.cond # "ok" /\ cron'.cond = "ok"
         => /\ pc = "succeeded" /\ snap.uid = cron.uid
            /\ snap.params = cron.params /\ snap.ref = cron.ref]_vars

(* A setting that neither the CronJob nor its PodProfile makes is left to  *)
(* Kubernetes' default: "If not specified, this will default to the time   *)
(* zone of the kube-controller-manager process" (cronjob_types.go, 45).    *)
NothingLeftOver ==
  Quiescent /\ Managed =>
    \A f \in Fields \ SetIn(Wanted(cron, profiles[cron.ref])) :
      batch.values[f] = Unset \/ <<f, "user">> \in batch.managers

(* What an apply has set is taken away again when it is wanted no more,    *)
(* whichever copies the passes since then have worked with: what is left   *)
(* over at rest was set by the create of the batch CronJob or by a user    *)
(* (lines 156 and 188).                                                    *)
ApplyLeavesNothing ==
  Quiescent /\ Managed =>
    \A f \in Fields \ SetIn(Wanted(cron, profiles[cron.ref])) :
      batch.values[f] = Unset \/ \E m \in {"create", "user"} : <<f, m>> \in batch.managers

(* Every pass fails for as long as users change nothing: the PodProfile is *)
(* missing, a patch does not apply to it, or the API server refuses what   *)
(* the apply comes to (lines 121-133, 156, 188).                           *)
Hopeless ==
  LET t == profiles[cron.ref]
  IN  \/ ~Constructible(cron, t)
      \/ ~Valid(Result([op |-> "apply", owners |-> {cron.uid}, fields |-> Wanted(cron, t)]))

(* When the users leave a CronJob and its PodProfile alone, and ask for    *)
(* something that can be made, its batch CronJob is eventually applied and *)
(* stays so, however long the passes have failed before.                   *)
EventuallyApplied ==
  <>[](Live(cron) /\ ~missed /\ ~Hopeless => Applied)

(* A deleted CronJob leaves no batch CronJob behind, although a pass or a  *)
(* late request may create one again after the deletion.                   *)
EventuallyGone == <>[](cron = NoCron => batch = NoBatch)

(* The worker comes to rest again and again, although every pass applies   *)
(* the manifest, unless the CronJob cannot be served as it stands.         *)
ComesToRest == []<>(Quiescent \/ (Live(cron) /\ Hopeless))
=============================================================================
