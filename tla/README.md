# k8s-job-wrapper in TLA+

A specification of the controllers of k8s-job-wrapper, checked with TLC and
partly proved with TLAPS. Line numbers refer to
`src/internal/controller/job_controller.go` unless another file is named.

## The system

k8s-job-wrapper is a Kubernetes operator. A *PodProfile* holds a pod template.
A *Job* (`pixiv.net/v1`) refers to a PodProfile, adds job parameters and
patches, and is turned into Kubernetes' own *batch Jobs*; a *CronJob* is turned
into a batch CronJob.

| Component | State | Operations | Talks to |
|---|---|---|---|
| Job controller (`job_controller.go`) | none of its own; the Job's status (conditions, collisionCount), the batch Jobs and their `ttl-expired` annotation | `Reconcile`: read, construct, TTL pass, history pass, create, status update; three watches | API server (writes), informer caches (reads), request queue |
| Construction (`internal/construct`, `internal/util`) | none | spec, name, labels and TTL annotation of the next batch Job | patch runner |
| CronJob controller (`cronjob_controller.go`) | the batch CronJob and who owns its fields | create or server-side apply | API server |
| PodProfile controller | none | `Reconcile` does nothing | |
| Patch runner (`kustomize`, `kubectl`) | a temporary directory, a child process | `kubectl kustomize` | file system, pipes |
| Manager (`cmd/main.go`) | caches, queues, one worker per controller | start, stop, crash | |
| Types, CRDs, charts, tests | | | |

What each has to get right, and what makes it hard:

- **Job controller.** A Job runs once per spec: the first time, and again when
  its spec or PodProfile changes, after the previous run has ended. No two runs
  overlap, no run is repeated, no change is lost, clean-up (history limit, TTL)
  neither deletes a running batch Job nor triggers a run. Hard because a pass is
  a sequence of a dozen API calls with users, the batch Job controller, the
  garbage collector and the clock acting between them; because it reads from
  caches that lag behind its own writes; because clean-up errors are only logged;
  because deletions are events that may start the next pass; because calls fail
  and the manager restarts.
- **Construction.** Equal inputs give equal names and hashes; different specs
  with one pod template share a name, which the collision count resolves.
- **CronJob controller.** The batch CronJob follows the CronJob and the
  PodProfile whatever the order of events, the status never claims what was not
  applied, and a deleted CronJob leaves nothing behind. Hard because every pass
  applies from cached copies, because a request may take effect after its sender
  gave up, and because server-side apply goes by who set a field.
- **Patch runner.** A call gives the patches of its own request applied to its
  own template, or an error; it returns, and leaves neither a process nor a
  directory behind. Hard because two controllers call it at once, because the
  parent and the child share two bounded pipes that the parent empties one after
  the other, because each of a dozen system calls may fail, and because the
  manager may stop, and kill the child, between any two steps.

`PROJECT.json` lists the hazards at their lines.

## Modules

| Module | Models |
|---|---|
| `BatchJobs` | the decisions on a listing, as operators on sets: next batch Job, latest one, spec changed, what expires, what is deleted |
| `ListingLoops`, `MCListingLoops` | the loops of the code over a sorted listing, one iteration per step, against the rules of `BatchJobs` |
| `Cluster` | external: API server store and watch events, users, batch Job controller, garbage collector, clock |
| `JobController`, `MCJobController` | `JobReconciler`: its watches and `Reconcile` as a sequence of API calls |
| `JobPromise` | abstract: what the documentation of Job promises (`api/v1/job_types.go`, 329-332) |
| `CronCluster` | external: as `Cluster`, for CronJobs, with server-side apply and field managers |
| `CronJobController`, `MCCronJobController` | `CronJobReconciler`: its watches and `Reconcile` as a sequence of API calls |
| `Patches` | patches written against the pod template and applied to the manifest of a batch Job: path rewriting, and RFC 6902 (external) on flat documents |
| `PatchService` | abstract: what a call that patches is to the controllers, who take it for one step |
| `PatchRunner`, `MCPatchRunner` | `PatchRunner.Patch` and `Command.Run` call by call: directory, files, child process, pipes, cancelled context |
| `BatchJobsProofs`, `JobControllerProofs`, `JobCopiesProofs`, `JobRemainsProofs`, `JobRestProofs`, `ListingLoopsProofs`, `CronJobControllerProofs`, `PatchRunnerProofs` | lemmas, invariants and theorems |

`JobController` extends `Cluster`, which extends `BatchJobs`; `CronJobController`
extends `CronCluster`. In both, `Next` interleaves `Reconcile`, `Deliver`, `Resync`,
`CrashRestart` and `ClusterNext`. `PatchRunner` extends `Patches`. The two
controllers share PodProfiles, which neither writes, and one `PatchRunner`: that is
the composition `PatchRunner` is about, with one worker for each. In the
controllers a patch succeeds or fails in one step. That it may be taken for one is the
refinement `ServesPatches`: calls that run side by side, with their directories, processes and
pipes, look to their callers like `PatchService`, in which each worker has its own request
patched or gets an error, and nobody sees the other.

### JobController against the code

One Job is modelled; Jobs do not interact (a listing selects by the Job's name,
a generated name begins with it). `pc` is the place in `Reconcile`:

| `pc` | Action | Code |
|---|---|---|
| `idle` | `SkipReconcile`, `StartReconcile` | 75-126: get the Job, set the conditions to OK in memory |
| `profile` | `ConstructBatchJob` | 128-142: get the PodProfile, construct (kubectl may fail, once or always) |
| `ttl` | `ListForTTL` | 264-276, 353-379: list, decide what expires and when to come back |
| `mark` | `MarkExpired` | 381-391: one annotation per step, newest first |
| `sweep` | `DeleteExpired` | 284-300: one deletion per step, oldest first |
| `prune` | `ListHistory` | 224-245 |
| `pruning` | `DeleteOld` | 247-258: one deletion per step, newest first |
| `list` | `ListExisting` | 153-172: list, create or skip |
| `create` | `CreateBatchJob` | 176, 193-221; refused, or the answer may be lost |
| `bump` | `BumpCollision` | 203-215 |
| `failed` | `ReportFailure` | conditions, status update with ignored error, return the error |
| `succeeded` | `ReportSuccess` | 171, 184: status update, RequeueAfter |

`snap` is the `job` variable of `Reconcile`, `template` stands for `nextJob`,
`mark` and `todo` for what the loops still have to do, `wait` for RequeueAfter,
`due` for the entry of the request queue. `generated` and `dropped` are history
variables that only properties read; `dropped` notes an event that was not served
(577-580, 549-552) until the next pass begins, and a clean-up error that was only logged. Merged into one step: reading the
PodProfile and patching it (nothing is written in between), and the listing with
the decisions taken on it.

Data are abstract: parameters, templates and names are model values, the name of
a batch Job is a function of template and collision count (the pod template
hash), and the spec hash a function of the spec. A condition pair is
`unknown`, `ok` or `failed` with its transition time. Times are whole seconds,
like the timestamps of Kubernetes. The listing is a set; where the code depends
on the order, ties may be broken either way, because the sort is not stable and
timestamps are coarse. That the rules allow whatever the loops of the code do is what
`ListingLoops` is about.

`CachedReads = TRUE` is the deployed program: `mgr.GetClient()` reads the
informers' caches. `FALSE` is the tests' client. `cacheJob`, `cacheProfile` and
`cacheBatch` change when an event of their watch is delivered, in order per watch
and in any order between watches; `MaxLag` bounds how far each lags.

### CronJobController against the code

Lines of `cronjob_controller.go`. One CronJob is modelled, hence one name of a batch
CronJob (`construct/cronjob.go`, 51).

| `pc` | Action | Code |
|---|---|---|
| `idle` | `SkipReconcile`, `StartReconcile` | 66-117: get the CronJob, set the conditions to OK in memory |
| `profile` | `ConstructBatchCronJob` | 119-133: get the PodProfile, construct (kubectl may fail, once or always) |
| `get` | `GetBatchCronJob` | 153-167: is there one in the cache? |
| `create`, `apply` | `CreateBatchCronJob`, `ApplyBatchCronJob` | 156, 169-193 |
| `failed` | `ReportFailure` | 93-104, status update with ignored error, return the error |
| `succeeded` | `ReportSuccess` | 143 |

A manifest is a function from fields to settings: `CronFields` are the optional
parameters of the CronJob, `PodFields` the parts of the template, which the
PodProfile and the patches decide; they are the two inputs of the construction.
The required parts of a manifest (schedule, containers) never leave it and
behave as fields that are always set. `managers` and `owners` of a
batch CronJob are its managedFields: which manager set a field or an owner
reference. `create` is the manager of a plain create (the executable's name),
`apply` is `pixiv-job-controller`. The controller looks at nothing of the cached
batch CronJob but its existence: the comparison of line 181 is of an
`*unstructured.Unstructured` with an `*applyconfigurations.CronJobApplyConfiguration`,
is never true, and has no branch in the model.

`late` holds requests whose sender saw a timeout or crashed: they may be served
later, in any order, or never. `missed` remembers that a PodProfile's event was
dropped (245) and no pass has begun since.

### PatchRunner against the code

`step[w]` is where the call of worker `w` stands. Lines of `internal/kustomize/kustomize.go`
up to `start`, of `internal/kubectl/command.go` from there.

| `step` | Action | Code |
|---|---|---|
| `idle` | `Ask` | `construct/job.go` 159-180: no patches, no call |
| `mkdir` | `MakeDir` | 59-62 |
| `resource`, `patches`, `kustomization` | `WriteFile` | 67-77, 108-119: creating a file may fail, a short write goes unnoticed |
| `start` | `StartCommand` | 49-64 |
| `stdout`, `stderr` | `ReadStdout`, `ReadStderr` | 66-75: `io.ReadAll` of one pipe, then of the other |
| `wait` | `Wait` | 77-80 |
| `abort` | `Abort` | 68, 73: a read failed; the deferred `Wait` |
| `remove` | `RemoveDir` | 63-65: the deferred `RemoveAll`, its error ignored |

`Kubectl` is the child: it loads the directory, applies one patch per step, writes
its output chunk by chunk to pipes that hold `Cap` chunks, and exits. `Kill` is what
`exec.CommandContext` does when the manager's context is cancelled (`Stop`), until `Wait` is through:
it also fails the call of a kubectl that had just exited. `answer` is
what `Patch` returned. A file is the request it was written from and whether it is
whole; `Loads` says what kubectl may make of files cut short. A document is a function
from the paths of its fields to opaque values: a field is a sequence of keys, so
`InTemplate` is the prefixing of `construct/job.go` 172-176 and not an abstraction of it.
`meant` is a history variable: the same patches, unrewritten, applied step by step to the
template alone. It is what the user wrote them for, and `PatchedAsWritten` compares the two.

## Runs

| Run | Shows |
|---|---|
| `listing` | whatever the loops of the code decide, iteration by iteration, the rules of `BatchJobs` allow, for every sorted listing of up to 3 and limits -1..2 |
| `fresh` | reads from the store, through an edit, a failing call and a crash: the controller implements `JobPromise`, no two batch Jobs run at once, clean-up leaves one, only batch Jobs that outlived their TTL are annotated and no TTL is forgotten at rest; a wanted batch Job is eventually generated, also after passes that could not succeed; the worker comes to rest unless its passes cannot succeed |
| `cached` | caches two events behind, a failing call and a crash: at rest a first batch Job has been generated, the newest is the wanted one and the history limit holds; stale copies never undo a collision bump, delete a running batch Job or report Available for an older spec |
| `overlap_stale` | violation of 423: two batch Jobs run at once with a stale cache |
| `rerun_annotation` | violation of `job_types.go` 329-332: an unchanged spec runs again after an annotation that failed |
| `available_early` | violation of `job_types.go` 304: Available although the create was refused |
| `recreated_job` | violation of `job_types.go` 331: a re-created Job generates nothing |
| `cronjob` | lost events: at rest, the batch CronJob is applied, the status OK and nothing an earlier apply has set left over, also after a crash with a request on its way |
| `cron_liveness` | applied in the end, also after passes that could not succeed, gone in the end, Available is earned, the worker comes to rest unless its passes cannot succeed |
| `patch_runner` | two workers at once, a failing system call and a shutdown: own patches on own template, every child reaped, every directory removed, every call returns unless kubectl fills the pipe that is not read; it implements `PatchService` |
| `patch_from` | violation of `job_types.go` 272-274: a copied value comes from another field than its user named |
| `cron_leftover` | violation of `cronjob_types.go` 45: a removed parameter stays |

Every property of a passing run has a mutant in the modules (operators marked
"Mutant" in front of the definition they replace) with which TLC finds it
violated.

**Bounds.** `Edits`, `Removals`, `Faults` and `Crashes` limit what users and
failures do, `MaxUid` the objects created, `MaxTime` the clock, `MaxLag` the
undelivered events per watch, `MaxCollisions` the count (never reached in the
runs). Two values of parameters or templates are enough for "same" and
"different" spec; three objects allow a Job, a batch Job and its successor,
`fresh` has four. One edit, one failing call and one crash in every order with all
other steps cover the races listed as hazards; each mutant needs fewer steps
than the bounds allow. `cached` has `MaxLag = 2`, because a name is taken over while
the controller still lists its old holder only when a deletion and a creation
are both undelivered, and a history limit of 0 for the deletion; it has no TTL. What `fresh` checks of TTLs with
reads from the store, `ExpiryIsJustified` and `RestsOnlyWhenTTLsServed` prove for caches of
any age. `rerun_annotation` and `fresh` have four objects, for a third batch Job. `Slack` (3 seconds in the code) is 1.
`MCItems` has, under three uids, every combination of what the loops look at, with two
creation times for ties. Parameters are symmetric in the runs without liveness: they are only compared.
The run `cronjob` has two PodProfiles and two values, for a change of reference beside a
change of template, and no CronJob parameters, which take the same path as
template fields; `cron_leftover` has one parameter. `cron_liveness` has one with three values, of
which the patches do not apply to one and the API server refuses another; `fresh` has two
job parameters more for the same.
`patch_runner` has the two workers of the program, one failure, three directories (two
under way and one left behind), pipes of one chunk, and a kubectl that writes two chunks
to stdout, or two to stderr before stdout, which is what it takes to block; the field
`deadline` is both a field of a pod and a parameter of the batch Job, as
`activeDeadlineSeconds` is.
Deadlock is checked in `patch_runner`, where a worker may always ask again, so that
every state in which nothing can go on any more would show. In the controllers it is not,
since they are supposed to come to rest and the bounded clock stops.

**Assumptions of runs.** `KeepsPromise` (run `fresh`) does not hold for all instances:
when two batch Jobs expire together and only the newer one gets its annotation,
because the second annotation fails or the manager stops,
the next pass deletes the newer and keeps the older, so an unchanged spec runs
again: `rerun_annotation`. A TTL that is set after the first run has the same effect without any failure
(finding 2). With a limit of 1, one TTL and `MaxTime = 3`, as in `fresh`, no two batch Jobs expire together;
`KeepsPromiseWithTTL` proves the promise of every instance in which neither happens.
In `JobController` a create takes effect before its sender learns that it failed or the manager
restarts, or never; one that arrives later is modelled for the CronJob controller
(`late`) only. It would be one more way to a second running batch Job beside `overlap_stale`.
`Converged` speaks of passes begun since an event was dropped: one of a PodProfile
whose Jobs could not be listed (577), or the deletion of an expired batch Job, which the
watch ignores on purpose (549-552; a user who deletes the only batch Job after it expired, or
`recreated_job`, leaves a Job that generates nothing until something else happens);
`HistorySettled` and `TTLSettled` of a last
pass that swallowed no error (lines 145-151), because a logged clean-up error
asks for no retry. With a history limit of 0 every finished batch Job is deleted and
the Job runs again for ever; the properties about rest then say nothing, and the
runs about repetition use a limit of at least 1. `PatchedAsWritten` excludes calls with a
short write: a kustomization cut after its resources gives the unpatched manifest and
no error. `patch_runner` has no copy and move, which `patch_from` refutes it for.

**Fairness** (`fresh`, `cron_liveness`, `patch_runner`). The worker (`WF` of `Reconcile`): controller-runtime
serves a ready request. The watches (`Deliver`): informers deliver. Kubernetes
(`FinishBatch`, garbage collection): a batch Job is assumed to end. The clock.
Users, failures, crashes and resyncs are never required. Retries come after a
backoff in the code, at any time in the model. A failure is
either one of `Faults`, which does not come back, or lasts until users change something (`Hopeless`):
a missing PodProfile, a patch that does not apply (`Unpatchable`), a spec or
manifest the API server refuses (`Rejected`). `ComesToRest` excludes the latter, for both controllers: each failing
pass changes the conditions' transition time, its own status update is an event, and the
passes never end (line 132 in the hazards). `EventuallyGenerated` and `EventuallyApplied` say that
a repair gets the controller out of this.
`cron_liveness` assumes the same of the worker, each watch (one `WF` per watch: they
are separate informers), the garbage collector and the clock. A late request is
never required to arrive. `patch_runner` assumes that a call goes on when it can, that
kubectl runs, and that it is killed once the context is cancelled; requests and the
shutdown are never required. `Returns` therefore makes one exception: a kubectl that
waits for a full pipe nobody reads (`Blocked`) while the manager runs, which the code
allows (66-75 read stdout to its end first, and after a failed read nobody reads).

## Findings

1. `overlap_stale`. 423 says no new batch Job is created beside an active one. A
   batch Job the cache does not show yet makes `Create` answer AlreadyExists;
   that is taken for a hash collision, collisionCount is bumped, and
   a retry before the cache catches up creates a second one.
2. `rerun_annotation`. The documentation has a batch Job generated only for a spec
   that differs from the most recently generated one. Annotations are written newest
   first; when the one on an older batch Job fails (382), or the manager stops before it, the next
   listing has one annotated batch Job, the newest, and one that is not, so `allowDelete`
   (282) lets the newest be deleted. A later pass compares with the older one, which has another
   spec, and the unchanged spec runs again. With `TTLs = {NoTTL, 1}` and `MaxTime = 5` it takes no
   failure: a TTL set after the first run expires the newer batch Job alone.
3. `recreated_job`. A Job re-created under its name skips because it lists its
   predecessor's annotated batch Job; that one's garbage collection is ignored
   (551). The Job waits for another event or the informer's resync.
4. `available_early`. 304 says Available means the Job applied successfully. The conditions are set
   to OK in memory when a pass begins (116-126), and the status update that stores a bumped
   collisionCount (209) writes them too, in a pass whose create was just refused. The
   end of the pass corrects it, unless the manager stops or that update fails as well.
5. `cron_leftover`. A time zone (or another optional parameter) that the CronJob had
   when its batch CronJob was created and that is removed later stays: the create
   (156) has no field manager name, so the API server counts it to the
   executable, and an apply (188) only removes what its own manager has set.
6. `patch_from`, a bug. `job_types.go` 272-274 has patches written against the pod
   template. `construct/job.go` 175 prefixes `path` with `/spec/template` but not
   `from`, so a `copy` or `move` from `/spec/activeDeadlineSeconds` takes the batch Job's
   own parameter, and one from a field that only a pod has fails.

Not formalised, as it is one omission on a straight path: `spec.cronJobMetadata`
(`api/v1/cronjob_types.go`, 35-37, "Additional `cronjobs.v1.batch.metadata`") is never read;
`construct/cronjob.go` 92-93 copies `spec.jobProfile.jobMetadata` instead.

## Proofs

`tlapm` checks every obligation of the eight proof modules.
Assumed are the named assumptions on constants only (`TTLAssumption`,
`NameAssumption`, ...), which TLC evaluates in every run.

- `TypeCorrect`: `Spec => []TypeOK`. `TypeOK` is inductive as it stands: each
  action writes values of the right type, one lemma per group of actions. The only
  step that needs more is the delay of the TTL pass, a minimum of naturals
  (`MinNat`, from the well-foundedness of `<`).
- `ExpiryIsJustified`: `Spec => []ExpiryJustified`. The strengthening `ExpiryInv`
  adds that the batch Jobs still to be annotated (`mark`) have outlived their TTL.
  It holds for any age of the caches: the annotation is only written when
  the copy equals the stored object, and time does not go back. `BatchSteps`
  reduces the twenty actions to the five things a step may do to the batch Jobs.
- `FreshReadsNeverOverlap`: for reads from the store and batch Jobs that run at
  least one second, `Spec => []NoConcurrentRuns`. The decision looks only at a newest
  batch Job, so the invariant `RunsInv` says that a running one is strictly
  newest, that a finished one was created before now, and that none runs while
  `Reconcile` is about to create. Both assumptions are needed:
  `overlap_stale` refutes it with caches, and two batch Jobs of one second may hide
  each other.
- `TTLKeepsOne`: for every listing the TTL pass deletes annotated batch Jobs only
  and never all of them.
- `TypeCorrect` of `CronJobControllerProofs`: the same for the CronJob controller.
- `AvailableOnlyForPresentParams`: `Spec => AvailableIsEarned`, for caches of any age.
  The status update is refused unless the copy has the current uid and
  resourceVersion, so the invariant has to say that this makes the copy the
  present CronJob: `CopiesInv`, every copy (in the cache, in the pass, in an undelivered
  event) has an older version, or is of a CronJob gone for good, or agrees with the
  stored one in parameters and reference. `Announced` reduces a step to what it may do to
  the CronJob and its events; `OnlySuccessMakesAvailable` shows that no
  other action makes the condition true.
- `AvailableOnlyForPresentSpec` (`JobCopiesProofs`): `Spec => AvailableIsCurrent`, the same for the Job
  controller, in the form that survives `available_early`: Available may turn true too early in a
  pass, but only in one that works with the spec the Job has at that moment.
- `CollisionCountNeverFalls`: `Spec => CollisionCountKept`, along the same lines as
  the last one, in `JobCopiesProofs`: a copy with the present resourceVersion has a count that is
  not behind (`CopiesInv`); a bump that failed to be written is ahead by one.
- `RunningIsNeverDeleted`: `Spec => NeverDeletesRunning`, for listings of any age. The
  invariant `DoneInv` relates every copy of a batch Job (in the cache, in an event, still to
  be deleted) to the store: its uid has been given out, and if it is done or
  annotated, so is every batch Job with that uid in the store. `FromBatch`, where the batch Jobs of the
  store come from in a step, keeps that; `ExpiryInv` supplies that annotated means done.
  The theorem then needs the uid precondition: by name alone it is false.
- `OneAlwaysRemains`: for reads from the store, no deletions by users and positive
  history limits, `Spec => []OneRemains`. While a pass still has batch Jobs to delete, one
  is left that is not among them (`LeavesOne`), by uid, since a batch Job may be annotated or finish
  between the listing and the deletion. `TTLKeepsOne` and `HistoryKeepsOne` give it for a
  fresh listing; nothing else removes a batch Job of a Job that nobody deletes
  (`Undisturbed`). Each assumption is needed: users may delete the last one, a limit of 0
  asks for it, and with caches the history pass may still list, and keep, the batch Job that the
  TTL pass has just deleted, and delete the other one.
- `TypeCorrect`, `EveryChildReaped`, `EveryDirCleaned` of `PatchRunnerProofs`, from one inductive
  invariant `Sound`: types, `ChildReaped` and `CleansUp` together. Types need the
  others: a step writes to `tmp[dir[w]]`, which is a directory only because nobody else has
  removed it.
- `PatchesAsWritten`: `Spec => []PatchedAsWritten` for every document, any number of workers,
  any sequence of patches that do not copy or move (`PlainRequests`; `patch_from` refutes the rest).
  The invariant `Faithful` says what each step of a call leaves for the next: files hold this
  call's own request, and the document kubectl has reached is the template's, embedded
  (`Embed`). `PatchCommutes` is the heart: applying a rewritten patch to the embedded
  template is embedding the result of the patch, and it applies in the one just
  when it applies in the other. No induction over the patches is needed, because the model
  applies them one per step on both sides.
- `ImplementsPatchService`: `Spec => ServesPatches`. An answer that is not an error is
  right by `Faithful`. What is left is that errors are earned: `Excused` says that as long as
  nothing has failed and the manager runs (`Calm`), no call is on an error path and a child
  gives up only over a patch that does not apply to the template either. `calm` in `PatchService` is
  what lets a call fail without such a reason, and what counts a document cut short as lost.
  `PlainRequests` is needed for the same reason as above.

- `RestsOnlyWhenApplied` of `CronJobControllerProofs`: `Spec => []Converged`. A state at rest says
  nothing about how it was reached, so the invariant has to speak of all states. `SeenInv`: each
  cache shows what the last event on its way shows, or what the store holds when none is. `WorkInv`:
  unless a request is queued or an event on its way, a pass that has made its reads
  works with what the caches show (`PassInv`), and a resting controller has applied
  that and said so (`RestInv`). At rest there is no event, so the caches are the store.
- `LeftoversAreNotApplied`: `Spec => []ApplyLeavesNothing`, the bound on `cron_leftover`. An apply that
  changed nothing shows that its manager has no unwanted field (`AppliedFor`); that such a field
  with a value then has another setter needs `SetterInv`, that every setting is
  somebody's, through creates, applies in any order, late ones, and users' edits.
- `RestsOnlyWhenConverged` (`JobRestProofs`): `Spec => []Converged` for the Job controller, along
  the same lines. Three things are harder. Batch Jobs come and go under many names, so `BatchSeen`
  is stated per name, and needs that a name is held once (`UniqueNames`) and a uid keeps
  its name. The decision is taken on a listing and the newest batch Job of the listing must
  still be one at rest (`RestSpec`). And a status is written from a copy: `Announced` of
  `JobCopiesProofs` says that every change of a Job is the last event of its watch. The clause on
  `dropped` is needed (see "Assumptions of runs"); a clause about orphans, which the runs had
  used before, turned out not to be.
- `RestsOnlyWhenHistoryFits` and `RestsOnlyWhenTTLsServed`: `Spec => []HistorySettled`,
  `Spec => []TTLSettled`. A pass decides once, on a listing that may be stale, and deletes
  one by one while batch Jobs finish and disappear. `Calm` says that what has happened since is neither
  queued nor on its way; while it holds, what the store has besides the
  batch Jobs still to be deleted (`Left`) fits the limit (`Fits`), for every way of
  breaking ties, or is what the TTL pass keeps (`Swept`) with its wake-up no later than the next
  TTL. When it does not hold, another pass is certain, and nothing has to be said of this one.
  Both need `SeenInv` and that the listing is finite.

- `KeepsPromiseWithTTL` (`JobRemainsProofs`): `Spec /\ [][NoneLeftBehind]_vars => KeepsPromise`, the
  refinement of `JobPromise`, through edits, failing calls, lost answers and restarts. The abstract
  `active` is "some batch Job is not done", `last` the spec generated last, a history variable; but
  the controller compares with what it lists. `LastInv` ties the two: the batch Job generated last
  is in the store, strictly newest, and no pass means to delete it (`IsLast`), and a pass about to
  create has compared with it (`Decided`). `PromiseStep` maps each step to `Generate`, `Complete` or
  a stutter. That the TTL pass spares the newest is the hard part: it may delete all but one of
  what has expired, so the newest must never expire alone. `AgeInv` has every batch Job finished
  before a newer one was created, so that with equal TTLs an older one expires no later
  (`OlderExpires`), and `OldestFirst` that what is annotated, or about to be, is so before anything
  newer. The last breaks just when an annotation is given up on after a newer one was written, and
  `NoneLeftBehind` says that this does not happen. Each hypothesis is needed: with caches the newest one
  need not be listed (`overlap_stale`); a user may delete it, and so does a limit of 0;
  batch Jobs generated within one second may hide each other; with different TTLs a newer one may
  expire alone, and so it may without `NoneLeftBehind` (`rerun_annotation`, finding 2).
- `ImplementsPromise` follows: without TTLs nothing is ever annotated (`NothingMarked`), so
  `NoneLeftBehind` holds of itself, and failures and restarts are unrestricted.
- `NeverRunsAgain`, under the hypotheses of `KeepsPromiseWithTTL`: `NoRerun`, which compares hashes of
  specs as the code does.
- `FirstIsGenerated`: as long as users delete nothing, `Spec => []GeneratesFirst`, for caches of any
  age, dropped events, failures and restarts; what `recreated_job` refutes otherwise. It needs
  nothing of the argument about caches above: as long as nothing was generated there is no batch Job in the
  store, a cache or an event, so a pass can only succeed by creating one, and every other way
  out of a pass leaves a request in the queue (`Unstarted`).
- `TTLLoopIsRule`, `HistoryLoopIsRule`, `LatestLoopIsRule` (`ListingLoopsProofs`): the loops of the
  code decide within the rules on sets that `JobController` is built from, for listings of any
  length and any limit. One iteration is one step, so an invariant over what lies on either side
  of the index (`Newer`, `Older`) replaces induction over the listing. The TTL loop deletes oldest first
  up to one less than the length of the listing, and the point is that this counter never holds back
  before the last entry (`DeletionsInv`); the history loop has kept the newest finished
  ones so far, all of them unless the limit is reached (`HistoryInv`). Equal timestamps need
  `Sorted` to be weak, and the rules to allow every order of ties. `TypeCorrect` of that module
  keeps the index inside the listing.

Only model-checked: liveness of both controllers and `Returns` (temporal reasoning under
fairness). Every other property of a passing run is a theorem, under the hypotheses given here.
The `Converged` pair and the other properties of rest are safety:
that the controllers do come to rest is `ComesToRest`, checked by TLC.

## Not modelled

- In kubectl: YAML and what it drops of unknown fields, nested documents. The quoting
  of the kustomization's path with `shellescape` (`kubectl/command.go`), which no shell
  undoes: a temporary directory with special characters in its name would not be found.
- Leader election and two managers at once.
- Labels and annotations a user adds in `profile.metadata`, except that they do not
  override the controller's; a user editing batch Jobs by hand other than deleting.
- PodProfile controller (does nothing), generated code, manifests, test helpers.
- Overflow of collisionCount: it takes 2^31 bumps of one Job.

## Plan

Done: `BatchJobs`, `Cluster`, `JobController`, `JobPromise`, `ListingLoops`,
`CronCluster`, `CronJobController`, `Patches`, `PatchService`, `PatchRunner`, the runs and
the theorems above. Left:

1. Two managers without leader election, as a second worker of `JobController`.
2. An abstract specification of a CronJob's batch CronJob, implemented by
   `CronJobController` in the steps that serve a request, and the theorem that it is.
3. A create that takes effect after its sender gave up, in `JobController`.
