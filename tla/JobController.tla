--------------------------- MODULE JobController ---------------------------
(***************************************************************************)
(* JobReconciler (internal/controller/job_controller.go): the watches that *)
(* enqueue a request for the Job, and Reconcile, one step per call it      *)
(* makes to the API server, so that users, Kubernetes, the clock and the   *)
(* watches act in between.  One worker runs Reconcile; the manager may     *)
(* crash between any two steps and start again.                            *)
(*                                                                         *)
(* With CachedReads the client reads the informers' caches, as the client  *)
(* of the manager in cmd/main.go does; without, it reads the store, as the *)
(* client of the tests does.  Writes always go to the store.               *)
(*                                                                         *)
(* An event updates its cache and enqueues the request in one step.        *)
(***************************************************************************)
EXTENDS Cluster

CONSTANTS
  CachedReads,  \* reads are served by the informers' caches
  NoRun,        \* the Job has not generated a batch Job
  Unpatchable,  \* what kubectl always fails to make: a patch does not apply
  Rejected,     \* what the API server always refuses to create
  Faults,       \* bound: API calls and patches that fail, but not always
  Crashes       \* bound: restarts of the manager

ASSUME ReadAssumption == CachedReads \in BOOLEAN
ASSUME RefusalAssumption == Unpatchable \subseteq BatchSpec /\ Rejected \subseteq BatchSpec
ASSUME FaultAssumption == Faults \in Nat /\ Crashes \in Nat

VARIABLES
  cacheJob, cacheProfile, cacheBatch,  \* the informers' caches
  due,        \* when the queued request is ready, or Never
  pc,         \* the next step of Reconcile
  snap,       \* Reconcile's copy of the Job
  template,   \* the template of the next batch Job
  mark, todo, \* batch Jobs still to be annotated, to be deleted
  wait,       \* RequeueAfter, 0 when there is none
  generated,  \* history: owner and spec of the last batch Job created
  dropped,    \* history: since this pass started the error of a "call" has
              \* been swallowed, an "event" has not become a request
  faults, crashes                      \* what is left of the bounds

cacheVars == <<cacheJob, cacheProfile, cacheBatch>>
passVars == <<snap, template, mark, todo, wait>>
boundVars == <<faults, crashes>>
ctlVars == <<cacheVars, due, pc, passVars, generated, dropped, boundVars>>
vars == <<clusterVars, ctlVars>>

Never == -1

Steps == {"idle", "profile", "ttl", "mark", "sweep", "prune", "pruning",
          "list", "create", "bump", "failed", "succeeded"}

Run == [owner : Nat, spec : BatchSpec]

ASSUME NoRunAssumption == NoRun \notin Run \cup BatchSpec

TypeOK ==
  /\ ClusterTypeOK
  /\ cacheJob \in Job \cup {NoJob}
  /\ cacheProfile \in Templates \cup {NoProfile}
  /\ cacheBatch \subseteq BatchJob
  /\ due \in Nat \cup {Never}
  /\ pc \in Steps
  /\ snap \in Job \cup {NoJob}
  /\ pc # "idle" => snap # NoJob
  /\ template \in Templates \cup {NoProfile}
  /\ pc \in Steps \ {"idle", "profile", "failed"} => template # NoProfile
  /\ mark \subseteq BatchJob /\ todo \subseteq BatchJob
  /\ wait \in Nat
  /\ generated \in Run \cup {NoRun}
  /\ dropped \subseteq {"call", "event"}
  /\ faults \in Nat /\ crashes \in Nat

(***************************************************************************)
(* Reads, the request queue, failing calls.                                *)
(***************************************************************************)
ReadJob == IF CachedReads THEN cacheJob ELSE job
ReadProfile == IF CachedReads THEN cacheProfile ELSE profile
ReadBatch == IF CachedReads THEN cacheBatch ELSE batch

(* The queue holds one entry per request; the earlier time wins.  A wakeup *)
(* for later stays in the real queue when an event comes first; here it is *)
(* taken with it and, if the next pass does not ask for it again, is one   *)
(* that Resync stands for.                                                 *)
Sooner(t) == IF due = Never \/ t < due THEN t ELSE due
Enqueue == due' = 0

Fault == faults > 0 /\ faults' = faults - 1
Swallow(what) == Fault /\ dropped' = dropped \cup {what}

(***************************************************************************)
(* Reconcile: fetching the Job (lines 75-126), its PodProfile and the next *)
(* manifest.  The condition OK is set in memory first.                     *)
(***************************************************************************)
MarkAvailable(j) ==
  IF j.cond = "ok" THEN j ELSE [j EXCEPT !.cond = "ok", !.since = now]

Live(j) == j # NoJob /\ ~j.deleting

Ready == pc = "idle" /\ due # Never /\ due <= now

TakeRequest == Ready /\ due' = Never

SkipReconcile ==
  /\ \/ TakeRequest /\ ~Live(ReadJob) /\ UNCHANGED faults
     \/ Ready /\ Fault /\ Enqueue
  /\ UNCHANGED <<clusterVars, cacheVars, pc, passVars, generated, dropped, crashes>>

StartReconcile ==
  /\ TakeRequest
  /\ Live(ReadJob)
  /\ snap' = MarkAvailable(ReadJob)
  /\ dropped' = {}
  /\ pc' = "profile"
  /\ UNCHANGED <<clusterVars, cacheVars, template, mark, todo, wait, generated, boundVars>>

(* Mutant: the error of getPodProfile is not looked at.                    *)
ConstructAnyway ==
  /\ pc = "profile"
  /\ template' = ReadProfile
  /\ pc' = "ttl"
  /\ UNCHANGED <<clusterVars, cacheVars, due, snap, mark, todo, wait, generated, dropped, boundVars>>

(* Patching the template runs kubectl; both calls may fail.                *)
Constructible(j, t) == t # NoProfile /\ BatchJobSpec(j, t) \notin Unpatchable

ConstructBatchJob ==
  /\ pc = "profile"
  /\ \/ /\ Constructible(snap, ReadProfile)
        /\ template' = ReadProfile
        /\ pc' = "ttl"
        /\ UNCHANGED faults
     \/ /\ \/ ~Constructible(snap, ReadProfile) /\ UNCHANGED faults
           \/ Fault
        /\ pc' = "failed"
        /\ UNCHANGED template
  /\ UNCHANGED <<clusterVars, cacheVars, due, snap, mark, todo, wait, generated, dropped, crashes>>

(***************************************************************************)
(* processBatchJobsTTL: annotate what has expired, newest first; then      *)
(* delete what was annotated when listed, oldest first.  Reconcile only    *)
(* logs its error.                                                         *)
(***************************************************************************)
AfterTTL(marks, victims) ==
  IF marks # {} THEN "mark" ELSE IF victims # {} THEN "sweep" ELSE "prune"

ListForTTL ==
  /\ pc = "ttl"
  /\ \/ LET L == ReadBatch
            delays == Delays(L, now)
        IN  /\ mark' = ToExpire(L, now)
            /\ todo' \in TTLVictims(L)
            /\ wait' = IF delays = {} THEN 0 ELSE Min(delays)
            /\ pc' = AfterTTL(mark', todo')
            /\ UNCHANGED <<faults, dropped>>
     \/ /\ Swallow("call")
        /\ pc' = "prune"
        /\ UNCHANGED <<mark, todo, wait>>
  /\ UNCHANGED <<clusterVars, cacheVars, due, snap, template, generated, crashes>>

(* The update carries the resourceVersion of the copy that was listed: it  *)
(* conflicts unless that copy is current.                                  *)
AddTTLExpiredAnnotation(b) ==
  \/ b \in batch /\ PutBatch(b, [b EXCEPT !.expired = TRUE]) /\ UNCHANGED <<faults, dropped>>
  \/ b \notin batch /\ BatchUnchanged /\ UNCHANGED <<faults, dropped>>
  \/ Swallow("call") /\ BatchUnchanged

MarkExpired ==
  /\ pc = "mark"
  /\ \E b \in NewestOf(mark) :
       /\ AddTTLExpiredAnnotation(b)
       /\ mark' = mark \ {b}
  /\ pc' = AfterTTL(mark', todo)
  /\ JobUnchanged /\ ProfileUnchanged
  /\ UNCHANGED <<nextUid, now, edits, removals>>
  /\ UNCHANGED <<cacheVars, due, snap, template, todo, wait, generated, crashes>>

(* Mutant: no uid precondition.                                            *)
SameName(x, b) == x.name = b.name

(* Delete by name with a uid precondition, in the background.              *)
SameObject(x, b) == x.name = b.name /\ x.uid = b.uid

Delete(b) ==
  \/ \E x \in batch : SameObject(x, b) /\ DropBatch(x) /\ UNCHANGED <<faults, dropped>>
  \/ /\ \A x \in batch : ~SameObject(x, b)
     /\ BatchUnchanged /\ UNCHANGED <<faults, dropped>>
  \/ Swallow("call") /\ BatchUnchanged

DeleteStep(b) ==
  /\ Delete(b)
  /\ todo' = todo \ {b}
  /\ JobUnchanged /\ ProfileUnchanged
  /\ UNCHANGED <<nextUid, now, edits, removals>>
  /\ UNCHANGED <<cacheVars, due, snap, template, mark, wait, generated, crashes>>

DeleteExpired ==
  /\ pc = "sweep"
  /\ \E b \in OldestOf(todo) : DeleteStep(b)
  /\ pc' = AfterTTL({}, todo')

(***************************************************************************)
(* deleteOldBatchJobs: delete what exceeds the history limit, newest       *)
(* first.  Reconcile only logs its error.                                  *)
(***************************************************************************)
AfterPrune(victims) == IF victims # {} THEN "pruning" ELSE "list"

(* Mutant: kept <= limit for kept < limit.                                 *)
ListHistoryOneMore ==
  /\ pc = "prune"
  /\ todo' \in HistoryVictims(ReadBatch, snap.limit + 1)
  /\ pc' = AfterPrune(todo')
  /\ UNCHANGED <<clusterVars, cacheVars, due, snap, template, mark, wait, generated, dropped, boundVars>>

ListHistory ==
  /\ pc = "prune"
  /\ \/ todo' \in HistoryVictims(ReadBatch, snap.limit) /\ UNCHANGED <<faults, dropped>>
     \/ todo' = {} /\ Swallow("call")
  /\ pc' = AfterPrune(todo')
  /\ UNCHANGED <<clusterVars, cacheVars, due, snap, template, mark, wait, generated, crashes>>

DeleteOld ==
  /\ pc = "pruning"
  /\ \E b \in NewestOf(todo) : DeleteStep(b)
  /\ pc' = AfterPrune(todo')

(***************************************************************************)
(* Whether to create, and createBatchJob.                                  *)
(***************************************************************************)
ShouldCreate(L) ==
  \/ Latest(L) = {}
  \/ \E b \in Latest(L) : SpecChanged(b, BatchJobSpec(snap, template))

ShouldSkip(L) ==
  \E b \in Latest(L) : ~SpecChanged(b, BatchJobSpec(snap, template))

ListExisting ==
  /\ pc = "list"
  /\ \/ ShouldCreate(ReadBatch) /\ pc' = "create" /\ UNCHANGED faults
     \/ ShouldSkip(ReadBatch) /\ pc' = "succeeded" /\ UNCHANGED faults
     \/ Fault /\ pc' = "failed"
  /\ UNCHANGED <<clusterVars, cacheVars, due, passVars, generated, dropped, crashes>>

StoreBatchJob(b) ==
  /\ nextUid <= MaxUid
  /\ AddBatch([b EXCEPT !.uid = nextUid, !.created = now])
  /\ nextUid' = nextUid + 1
  /\ generated' = [owner |-> b.owner, spec |-> b.spec]

(* The answer to a create that took effect may be lost.  A manifest is     *)
(* validated before its name is looked up.                                 *)
CreateBatchJob ==
  LET b == NextBatchJob(snap, template)
      valid == b.spec \notin Rejected
      taken == \E x \in batch : x.name = b.name
  IN  /\ pc = "create"
      /\ \/ /\ valid /\ ~taken
            /\ StoreBatchJob(b)
            /\ pc' = "succeeded"
            /\ UNCHANGED faults
         \/ /\ valid /\ taken
            /\ pc' = "bump"
            /\ BatchUnchanged /\ UNCHANGED <<nextUid, generated, faults>>
         \/ /\ ~valid
            /\ pc' = "failed"
            /\ BatchUnchanged /\ UNCHANGED <<nextUid, generated, faults>>
         \/ /\ Fault
            /\ pc' = "failed"
            /\ \/ BatchUnchanged /\ UNCHANGED <<nextUid, generated>>
               \/ valid /\ ~taken /\ StoreBatchJob(b)
      /\ JobUnchanged /\ ProfileUnchanged
      /\ UNCHANGED <<now, edits, removals>>
      /\ UNCHANGED <<cacheVars, due, passVars, dropped, crashes>>

(***************************************************************************)
(* Status().Update writes the whole status; the store refuses it unless    *)
(* the copy is of the current object, and a write without a change leaves  *)
(* no trace.                                                               *)
(***************************************************************************)
Current(copy) == job # NoJob /\ job.uid = copy.uid /\ job.rv = copy.rv

(* Mutant: the write carries no resourceVersion.                           *)
PatchStatus(copy) ==
  /\ job # NoJob /\ job.uid = copy.uid
  /\ UpdateJob([job EXCEPT !.collisions = copy.collisions,
                            !.cond = copy.cond, !.since = copy.since])

UpdateStatus(copy) ==
  LET updated == [job EXCEPT !.collisions = copy.collisions,
                             !.cond = copy.cond, !.since = copy.since]
  IN  /\ Current(copy)
      /\ IF updated = job THEN JobUnchanged ELSE UpdateJob(updated)

(* AlreadyExists: the collision count goes up in memory and, if the update *)
(* succeeds, in the store; the pass fails either way.                      *)
BumpCollision ==
  LET bumped == [snap EXCEPT !.collisions = @ + 1]
  IN  /\ pc = "bump"
      /\ snap.collisions < MaxCollisions
      /\ \/ UpdateStatus(bumped) /\ snap' = job' /\ UNCHANGED faults
         \/ ~Current(bumped) /\ snap' = bumped /\ JobUnchanged /\ UNCHANGED faults
         \/ Fault /\ snap' = bumped /\ JobUnchanged
      /\ pc' = "failed"
      /\ ProfileUnchanged /\ BatchUnchanged
      /\ UNCHANGED <<nextUid, now, edits, removals>>
      /\ UNCHANGED <<cacheVars, due, template, mark, todo, wait, generated, dropped, crashes>>

(***************************************************************************)
(* The end of a pass.  An error puts the request back, after a backoff,    *)
(* and RequeueAfter is ignored.                                            *)
(***************************************************************************)
EndPass ==
  /\ pc' = "idle"
  /\ snap' = NoJob /\ template' = NoProfile /\ mark' = {} /\ todo' = {} /\ wait' = 0
  /\ ProfileUnchanged /\ BatchUnchanged
  /\ UNCHANGED <<nextUid, now, edits, removals, cacheVars, generated, dropped, crashes>>

(* Mutant: the error is not returned.                                      *)
ReportFailureQuietly ==
  /\ pc = "failed"
  /\ EndPass /\ JobUnchanged /\ UNCHANGED <<due, faults>>

(* setFailedConditions and an update whose own error is ignored.           *)
ReportFailure ==
  LET failed == [snap EXCEPT !.cond = "failed", !.since = now]
  IN  /\ pc = "failed"
      /\ \/ UpdateStatus(failed) /\ UNCHANGED faults
         \/ ~Current(failed) /\ JobUnchanged /\ UNCHANGED faults
         \/ Fault /\ JobUnchanged
      /\ Enqueue
      /\ EndPass

(* Mutant: every pass asks for another one.                                *)
ReportAndRequeue ==
  /\ pc = "succeeded"
  /\ \/ UpdateStatus(snap)
     \/ ~Current(snap) /\ JobUnchanged
  /\ Enqueue
  /\ EndPass /\ UNCHANGED faults

ReportSuccess ==
  /\ pc = "succeeded"
  /\ \/ /\ UpdateStatus(snap)
        /\ due' = IF wait = 0 THEN due ELSE Sooner(now + wait)
        /\ UNCHANGED faults
     \/ ~Current(snap) /\ JobUnchanged /\ Enqueue /\ UNCHANGED faults
     \/ Fault /\ JobUnchanged /\ Enqueue
  /\ EndPass

Reconcile ==
  \/ SkipReconcile
  \/ StartReconcile
  \/ ConstructBatchJob
  \/ ListForTTL
  \/ MarkExpired
  \/ DeleteExpired
  \/ ListHistory
  \/ DeleteOld
  \/ ListExisting
  \/ CreateBatchJob
  \/ BumpCollision
  \/ ReportFailure
  \/ ReportSuccess

(***************************************************************************)
(* The watches.  PodProfile events enqueue the Jobs that refer to it,      *)
(* unless listing them fails, an error that is only logged (lines 577-580);*)
(* batch Job events enqueue the owner, except for the deletion of a batch  *)
(* Job with the ttl-expired annotation.                                    *)
(***************************************************************************)
DeliverJob ==
  /\ jobEvents # <<>>
  /\ cacheJob' = Head(jobEvents)
  /\ jobEvents' = Tail(jobEvents)
  /\ Enqueue
  /\ UNCHANGED <<job, profileEvents, batchEvents, cacheProfile, cacheBatch, dropped, faults>>

(* Mutant: PodProfiles are not watched.                                    *)
DeliverProfileOnly ==
  /\ profileEvents # <<>>
  /\ cacheProfile' = Head(profileEvents)
  /\ profileEvents' = Tail(profileEvents)
  /\ UNCHANGED <<job, jobEvents, batchEvents, cacheJob, cacheBatch, due, dropped, faults>>

DeliverProfile ==
  /\ profileEvents # <<>>
  /\ cacheProfile' = Head(profileEvents)
  /\ profileEvents' = Tail(profileEvents)
  /\ \/ ReadJob # NoJob /\ Enqueue /\ UNCHANGED <<dropped, faults>>
     \/ ReadJob = NoJob /\ UNCHANGED <<due, dropped, faults>>
     \/ Swallow("event") /\ UNCHANGED due
  /\ UNCHANGED <<job, jobEvents, batchEvents, cacheJob, cacheBatch>>

(* Mutant: the predicate lets deletions through and nothing else.          *)
RelevantDeletion(event) == event.gone

Relevant(event) == ~(event.gone /\ event.obj.expired)

DeliverBatch ==
  /\ batchEvents # <<>>
  /\ LET event == Head(batchEvents)
         others == {b \in cacheBatch : b.name # event.obj.name}
     IN  /\ cacheBatch' = IF event.gone THEN others ELSE others \cup {event.obj}
         /\ \/ Relevant(event) /\ Enqueue /\ UNCHANGED dropped
            \/ ~Relevant(event) /\ UNCHANGED due /\ dropped' = dropped \cup {"event"}
  /\ batchEvents' = Tail(batchEvents)
  /\ UNCHANGED <<job, jobEvents, profileEvents, cacheJob, cacheProfile, faults>>

Deliver ==
  /\ DeliverJob \/ DeliverProfile \/ DeliverBatch
  /\ UNCHANGED <<profile, batch, nextUid, now, edits, removals>>
  /\ UNCHANGED <<pc, passVars, generated, crashes>>

(* Any event without a change: a periodic resync, another status update.   *)
(* During a pass it would only be served after it.                         *)
Resync ==
  /\ pc = "idle" /\ due # 0
  /\ cacheJob # NoJob
  /\ Enqueue
  /\ UNCHANGED <<clusterVars, cacheVars, pc, passVars, generated, dropped, boundVars>>

(* A new manager lists everything and gets an event for every Job.         *)
CrashRestart ==
  /\ crashes > 0
  /\ crashes' = crashes - 1
  /\ cacheJob' = job /\ cacheProfile' = profile /\ cacheBatch' = batch
  /\ jobEvents' = <<>> /\ profileEvents' = <<>> /\ batchEvents' = <<>>
  /\ due' = IF job = NoJob THEN Never ELSE 0
  /\ pc' = "idle"
  /\ snap' = NoJob /\ template' = NoProfile /\ mark' = {} /\ todo' = {} /\ wait' = 0
  /\ dropped' = {}
  /\ UNCHANGED <<job, profile, batch, nextUid, now, edits, removals, generated, faults>>

Init ==
  /\ ClusterInit
  /\ cacheJob = job /\ cacheProfile = profile /\ cacheBatch = batch
  /\ due = 0
  /\ pc = "idle"
  /\ snap = NoJob /\ template = NoProfile /\ mark = {} /\ todo = {} /\ wait = 0
  /\ generated = NoRun
  /\ dropped = {}
  /\ faults = Faults /\ crashes = Crashes

Next ==
  \/ Reconcile
  \/ Deliver
  \/ Resync
  \/ CrashRestart
  \/ ClusterNext /\ UNCHANGED ctlVars

Spec == Init /\ [][Next]_vars

(***************************************************************************)
(* The worker runs whenever a request is ready, every watch delivers, and  *)
(* Kubernetes finishes batch Jobs and deletions, time passes.  Users,      *)
(* faults, crashes and resyncs owe nothing.                                *)
(***************************************************************************)
Fairness ==
  /\ WF_vars(Reconcile)
  /\ WF_vars(Deliver)
  /\ WF_vars(Kubernetes /\ UNCHANGED ctlVars)
  /\ WF_vars(Tick /\ UNCHANGED ctlVars)

FairSpec == Spec /\ Fairness

-----------------------------------------------------------------------------
(***************************************************************************)
(* Properties.                                                             *)
(***************************************************************************)

(* A pass deletes only batch Jobs that have finished, however stale the    *)
(* listing it works from: a running batch Job that has meanwhile taken the *)
(* name of a listed one is not deleted in its place (the uid precondition  *)
(* of lines 249-254 and 291-296).                                          *)
NeverDeletesRunning ==
  [][todo' # todo =>
       \A b \in batch : (\A x \in batch' : x.uid # b.uid) => b.done]_vars

(* The ttl-expired annotation is only ever found on a batch Job that has   *)
(* finished at least its own TTL ago (lines 353-407).                      *)
ExpiryJustified ==
  \A b \in batch :
    b.expired => b.done /\ b.ttl # NoTTL /\ b.finishedAt + b.ttl <= now

(* A Job's collision count never goes down: a status update made from an   *)
(* old copy of the Job never undoes a bump (lines 93-98, 204-209).         *)
CollisionCountKept ==
  [][job # NoJob /\ job' # NoJob /\ job.uid = job'.uid =>
       job.collisions <= job'.collisions]_vars

(* "JobAvailable means the Job applied successfully" (job_types.go, 304):  *)
(* it turns true only at the end of a pass that had nothing to create or   *)
(* has created its batch Job.                                              *)
BecomesAvailable ==
  job # NoJob /\ job' # NoJob /\ job.uid = job'.uid /\ job.cond # "ok" /\ job'.cond = "ok"

AvailableMeansApplied == [][BecomesAvailable => pc = "succeeded"]_vars

(* A pass that turns Available true has worked with the spec the Job has   *)
(* now, however old the copy it began with (lines 82-126, 184, 207).       *)
Asked(j) == <<j.params, j.ttl, j.limit>>

AvailableIsCurrent ==
  [][BecomesAvailable => snap # NoJob /\ snap.uid = job.uid /\ Asked(snap) = Asked(job)]_vars

(* At most one batch Job that is not being deleted is running: "Do not     *)
(* create a new job while an existing one is still active" (line 423).     *)
NoConcurrentRuns ==
  \A b, c \in {x \in batch : ~x.done /\ ~x.deleting} : b = c

(* Two batch Jobs generated in a row for a Job differ in their spec: a     *)
(* finished run is not repeated because its batch Job was cleaned up       *)
(* (lines 161-172 against the deletions of lines 223-322).                 *)
NoRerun ==
  [][nextUid' # nextUid /\ job' = job
       /\ generated # NoRun /\ generated.owner = generated'.owner
         => SpecHash[generated.spec] # SpecHash[generated'.spec]]_vars

(* The controller keeps the promise of JobPromise: see there.              *)
Promise == INSTANCE JobPromise WITH
  Specs <- BatchSpec,
  None <- NoRun,
  last <- IF generated = NoRun THEN NoRun ELSE generated.spec,
  active <- \E b \in batch : ~b.done

KeepsPromise == Promise!Spec

(* Once the Job has generated a batch Job, the controller's cleaning up    *)
(* always leaves one ("even if the TTL is expired, one Job will remain").  *)
OneRemains == generated # NoRun => batch # {}

(* Nothing is left to do, deliver or wait for.                             *)
Quiescent ==
  /\ pc = "idle" /\ due = Never
  /\ jobEvents = <<>> /\ profileEvents = <<>> /\ batchEvents = <<>>

(* No event is lost but those of a PodProfile whose Jobs cannot be listed  *)
(* (lines 577-580) and the deletions of expired batch Jobs (lines 549-552),*)
(* and the next pass makes up for these: whenever the controller has       *)
(* nothing to do, the newest batch Job still runs or has the spec that the *)
(* Job and its PodProfile ask for, and the status is OK.                   *)
Converged ==
  Quiescent /\ Live(job) /\ "event" \notin dropped =>
    /\ profile # NoProfile
    /\ job.cond = "ok"
    /\ \E b \in Latest(batch) : ~SpecChanged(b, BatchJobSpec(job, profile))

(* "When it generates the jobs.v1.batch for the first time": a Job the     *)
(* controller has nothing left to do for has generated a batch Job.        *)
GeneratesFirst ==
  Quiescent /\ Live(job) /\ (\A b \in batch : ~Orphan(b))
    => generated # NoRun /\ generated.owner = job.uid

(* Whenever the controller has nothing to do and its last pass has not     *)
(* swallowed a failed call (lines 145-151), no more finished batch Jobs    *)
(* than the history limit are left.                                        *)
HistorySettled ==
  Quiescent /\ Live(job) /\ "call" \notin dropped =>
    HistoryVictims(batch, job.limit) = {{}}

(* Whenever the controller has nothing to do and its last pass has not     *)
(* swallowed a failed call, no TTL is forgotten: none is still running or  *)
(* unmarked, and no marked batch Job is left that should be deleted.       *)
TTLSettled ==
  Quiescent /\ Live(job) /\ "call" \notin dropped =>
    /\ Pending(batch) = {}
    /\ {} \in TTLVictims(batch)

(* The pass fails for as long as users change nothing: the PodProfile is   *)
(* missing, a patch does not apply to it, or the API server refuses what   *)
(* comes out (lines 130-142, 176-180).                                     *)
Hopeless ==
  \/ ~Constructible(job, profile)
  \/ BatchJobSpec(job, profile) \in Rejected

(* When the users leave a Job and its PodProfile alone, and ask for        *)
(* something that can be made, a batch Job with the spec they ask for is   *)
(* generated and stays the newest one, through failed calls and crashes    *)
(* and however long the passes have failed before.  (A batch Job created   *)
(* when the bounded clock has stopped cannot finish; only that one may run *)
(* for ever.)                                                              *)
EventuallyGenerated ==
  <>[](Live(job) /\ ~Hopeless =>
         \E b \in Latest(batch) : ~SpecChanged(b, BatchJobSpec(job, profile)))

(* A pass that fails is retried, but not for ever: the worker comes to     *)
(* rest again and again, with no event and no request but one for later,   *)
(* unless the Job cannot be served as it stands.                           *)
Resting ==
  /\ pc = "idle" /\ ~Ready
  /\ jobEvents = <<>> /\ profileEvents = <<>> /\ batchEvents = <<>>

ComesToRest == []<>(Resting \/ (Live(job) /\ Hopeless))
=============================================================================
