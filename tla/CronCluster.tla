----------------------------- MODULE CronCluster -----------------------------
(***************************************************************************)
(* What surrounds the CronJob controller: the CronJob, the PodProfiles and *)
(* the batch CronJob in the API server, with server-side apply and its     *)
(* field managers, the watches, the users, the garbage collector and the   *)
(* clock.  It is modelled from how CronJobReconciler uses it.              *)
(*                                                                         *)
(* There is one CronJob, hence one name of a batch CronJob.  A manifest is *)
(* a function from fields to settings; Unset stands for a field that is    *)
(* absent, or has the value the API server gives an absent one.            *)
(***************************************************************************)
EXTENDS Integers, Sequences

CONSTANTS
  CronFields,   \* optional parameters of a CronJob (timeZone, suspend, ...)
  PodFields,    \* optional parts of a pod template
  Values, Unset,
  Profiles,     \* names of PodProfiles
  Rejected,     \* manifests the API server refuses
  NoCron, NoProfile, NoBatch,  \* the object does not exist
  MaxUid,       \* bound: CronJobs created
  MaxTime,      \* bound: the clock
  MaxLag,       \* bound: events of one watch not yet delivered
  Edits,        \* bound: user edits and (re)creations
  Removals      \* bound: user deletions

ASSUME BoundAssumption ==
  /\ MaxUid \in Nat /\ MaxTime \in Nat /\ MaxLag \in Nat
  /\ Edits \in Nat /\ Removals \in Nat

ASSUME RejectedAssumption == Rejected \subseteq [CronFields \cup PodFields -> Values \cup {Unset}]

ASSUME FieldAssumption == CronFields \cap PodFields = {} /\ Unset \notin Values

VARIABLES
  cron,       \* the CronJob in the store, or NoCron
  profiles,   \* the pod template of each PodProfile, or NoProfile
  batch,      \* the batch CronJob in the store, or NoBatch
  cronEvents, profileEvents, batchEvents,  \* changes the watches have yet to deliver
  nextUid, now,
  edits, removals

storeVars == <<cron, profiles, batch, cronEvents, profileEvents, batchEvents, nextUid>>
clusterVars == <<storeVars, now, edits, removals>>

Fields == CronFields \cup PodFields
Settings == Values \cup {Unset}
Params == [CronFields -> Settings]
Templates == [PodFields -> Settings]
Manifest == [Fields -> Settings]

(* cond, since and rv are as in the Job of Cluster.                        *)
CronJob ==
  [uid : Nat, ref : Profiles, params : Params,
   cond : {"unknown", "ok", "failed"}, since : Nat, rv : Nat, deleting : BOOLEAN]

(* Who set a field: the controller's Create (an update in the name of the  *)
(* executable), its apply (in the name "pixiv-job-controller"), or a user. *)
Managers == {"create", "apply", "user"}

BatchCronJob ==
  [values : Manifest, managers : SUBSET (Fields \X Managers),
   owners : SUBSET (Nat \X Managers)]

ProfileEvent == [name : Profiles, template : Templates \cup {NoProfile}]

ASSUME AbsentAssumption ==
  NoCron \notin CronJob /\ NoProfile \notin Templates /\ NoBatch \notin BatchCronJob

ClusterTypeOK ==
  /\ cron \in CronJob \cup {NoCron}
  /\ profiles \in [Profiles -> Templates \cup {NoProfile}]
  /\ batch \in BatchCronJob \cup {NoBatch}
  /\ cronEvents \in Seq(CronJob \cup {NoCron})
  /\ profileEvents \in Seq(ProfileEvent)
  /\ batchEvents \in Seq(BOOLEAN)
  /\ nextUid \in Nat /\ now \in Nat
  /\ edits \in Nat /\ removals \in Nat

(***************************************************************************)
(* Writes to the store: each is one event of its watch, delivered in       *)
(* order.  Of a batch CronJob the event only says whether it exists.       *)
(***************************************************************************)
PutCron(c) ==
  /\ Len(cronEvents) < MaxLag
  /\ cron' = c
  /\ cronEvents' = Append(cronEvents, c)

UpdateCron(c) == PutCron([c EXCEPT !.rv = @ + 1])

PutProfile(n, t) ==
  /\ Len(profileEvents) < MaxLag
  /\ profiles' = [profiles EXCEPT ![n] = t]
  /\ profileEvents' = Append(profileEvents, [name |-> n, template |-> t])

PutBatch(b) ==
  /\ Len(batchEvents) < MaxLag
  /\ batch' = b
  /\ batchEvents' = Append(batchEvents, b # NoBatch)

CronUnchanged == UNCHANGED <<cron, cronEvents>>
ProfilesUnchanged == UNCHANGED <<profiles, profileEvents>>
BatchUnchanged == UNCHANGED <<batch, batchEvents>>

(***************************************************************************)
(* A request to create or to apply a batch CronJob.  An apply with Force   *)
(* sets every field of the manifest; a field it set before and now leaves  *)
(* out is removed, unless another manager has set it to the same value.    *)
(* Two controllers among the owners are refused.  A batch CronJob that is  *)
(* being deleted in the foreground is one that a user or the collector     *)
(* deletes later: neither request looks at its deletionTimestamp.          *)
(***************************************************************************)
Request == [op : {"create", "apply"}, owners : SUBSET Nat, fields : Manifest]

SetIn(m) == {f \in Fields : m[f] # Unset}

Fresh(r) ==
  [values |-> r.fields, managers |-> SetIn(r.fields) \X {r.op},
   owners |-> r.owners \X {r.op}]

Merged(b, r) ==
  LET others == {fm \in b.managers :
                   /\ fm[2] # "apply"
                   /\ fm[1] \in SetIn(r.fields) => b.values[fm[1]] = r.fields[fm[1]]}
      removed == {f \in Fields : /\ <<f, "apply">> \in b.managers
                                 /\ \A m \in Managers : <<f, m>> \notin others}
  IN  [values |-> [f \in Fields |-> IF f \in SetIn(r.fields) \cup removed
                                      THEN r.fields[f] ELSE b.values[f]],
       managers |-> others \cup (SetIn(r.fields) \X {"apply"}),
       owners |-> {o \in b.owners : o[2] # "apply"} \cup (r.owners \X {"apply"})]

Result(r) == IF batch = NoBatch THEN Fresh(r) ELSE Merged(batch, r)

OwnerUids(b) == {o[1] : o \in b.owners}

Valid(b) == b.values \notin Rejected

Accepted(r) ==
  /\ batch # NoBatch => r.op = "apply" /\ \A u, v \in OwnerUids(Result(r)) : u = v
  /\ Valid(Result(r))

(* A write without a change leaves no trace.                               *)
Serve(r) ==
  /\ Accepted(r)
  /\ IF Result(r) = batch THEN BatchUnchanged ELSE PutBatch(Result(r))

(***************************************************************************)
(* Users.                                                                  *)
(***************************************************************************)
NewCron(u, n, p) ==
  [uid |-> u, ref |-> n, params |-> p, cond |-> "unknown", since |-> 0,
   rv |-> 1, deleting |-> FALSE]

Edit == edits > 0 /\ edits' = edits - 1 /\ UNCHANGED <<now, removals>>
Remove == removals > 0 /\ removals' = removals - 1 /\ UNCHANGED <<now, edits>>

CreateCron ==
  /\ cron = NoCron /\ nextUid <= MaxUid
  /\ Edit
  /\ \E n \in Profiles, p \in Params : PutCron(NewCron(nextUid, n, p))
  /\ nextUid' = nextUid + 1
  /\ ProfilesUnchanged /\ BatchUnchanged

EditCron ==
  /\ cron # NoCron
  /\ Edit
  /\ \E n \in Profiles, p \in Params :
       LET edited == [cron EXCEPT !.ref = n, !.params = p]
       IN  edited # cron /\ UpdateCron(edited)
  /\ ProfilesUnchanged /\ BatchUnchanged /\ UNCHANGED nextUid

(* In the background the CronJob is gone at once, in the foreground it     *)
(* waits for its batch CronJob with a deletionTimestamp.                   *)
DeleteCron ==
  /\ cron # NoCron
  /\ Remove
  /\ \/ PutCron(NoCron)
     \/ ~cron.deleting /\ UpdateCron([cron EXCEPT !.deleting = TRUE])
  /\ ProfilesUnchanged /\ BatchUnchanged /\ UNCHANGED nextUid

EditProfile ==
  /\ \E n \in Profiles :
       \/ Edit /\ \E t \in Templates \ {profiles[n]} : PutProfile(n, t)
       \/ Remove /\ profiles[n] # NoProfile /\ PutProfile(n, NoProfile)
  /\ CronUnchanged /\ BatchUnchanged /\ UNCHANGED nextUid

EditBatch ==
  /\ batch # NoBatch
  /\ Edit
  /\ \E f \in Fields, v \in Settings :
       LET edited == [batch EXCEPT
                        !.values[f] = v,
                        !.managers = {fm \in @ : fm[1] # f}
                                       \cup (IF v = Unset THEN {} ELSE {<<f, "user">>})]
       IN  batch.values[f] # v /\ Valid(edited) /\ PutBatch(edited)
  /\ CronUnchanged /\ ProfilesUnchanged /\ UNCHANGED nextUid

DeleteBatch ==
  /\ batch # NoBatch
  /\ Remove
  /\ PutBatch(NoBatch)
  /\ CronUnchanged /\ ProfilesUnchanged /\ UNCHANGED nextUid

Users ==
  \/ CreateCron
  \/ EditCron
  \/ DeleteCron
  \/ EditProfile
  \/ EditBatch
  \/ DeleteBatch

(***************************************************************************)
(* Garbage collection, the clock.                                          *)
(***************************************************************************)
Orphan(b) == b.owners # {} /\ (cron # NoCron => cron.uid \notin OwnerUids(b))

CollectBatch ==
  /\ batch # NoBatch
  /\ Orphan(batch) \/ (cron # NoCron /\ cron.deleting /\ cron.uid \in OwnerUids(batch))
  /\ PutBatch(NoBatch)
  /\ CronUnchanged

FinalizeCron ==
  /\ cron # NoCron /\ cron.deleting
  /\ batch # NoBatch => Orphan(batch)
  /\ PutCron(NoCron)
  /\ BatchUnchanged

CollectGarbage ==
  /\ CollectBatch \/ FinalizeCron
  /\ ProfilesUnchanged
  /\ UNCHANGED <<nextUid, now, edits, removals>>

Tick ==
  /\ now < MaxTime
  /\ now' = now + 1
  /\ UNCHANGED <<storeVars, edits, removals>>

ClusterInit ==
  /\ cron \in {NewCron(1, n, p) : n \in Profiles, p \in Params}
  /\ profiles \in [Profiles -> Templates \cup {NoProfile}]
  /\ batch = NoBatch
  /\ cronEvents = <<>> /\ profileEvents = <<>> /\ batchEvents = <<>>
  /\ nextUid = 2 /\ now = 1
  /\ edits = Edits /\ removals = Removals

ClusterNext ==
  \/ Users
  \/ CollectGarbage
  \/ Tick
=============================================================================
