---------------------------- MODULE ListingLoops ----------------------------
(***************************************************************************)
(* The loops of processBatchJobsTTL, deleteOldBatchJobs and Reconcile over *)
(* a listing sorted newest first, one iteration per step, against the      *)
(* rules on sets that JobController is built from.  A behaviour builds a   *)
(* listing and runs one of the loops over it; the API calls that a loop    *)
(* makes on the way are steps of JobController.                            *)
(***************************************************************************)
EXTENDS BatchJobs, Sequences

CONSTANTS
  Items,        \* the batch Jobs a listing may hold
  MaxListing,   \* bound: batch Jobs in a listing
  MaxClock      \* bound: seconds

ASSUME ListingAssumption == Items \subseteq BatchJob /\ MaxListing \in Nat /\ MaxClock \in Nat

VARIABLES
  listing,         \* what listBatchJobsOrderByCreationTimestampDesc returns
  loop, i,         \* the loop that runs and its index
  time, limit,     \* the time of the TTL pass, the limit of the history pass
  marked, delays,  \* to be annotated, to be looked at again
  count,           \* deleted in the TTL pass, kept in the history pass
  victims          \* to be deleted

results == <<marked, delays>>
deletions == <<count, victims>>
vars == <<listing, loop, i, time, limit, results, deletions>>

TypeOK ==
  /\ listing \in Seq(BatchJob)
  /\ loop \in {"listing", "results", "ttl", "history", "latest"}
  /\ i \in 0 .. Len(listing) + 1
  /\ time \in Nat /\ limit \in Int
  /\ marked \subseteq BatchJob /\ delays \subseteq Nat
  /\ count \in Nat /\ victims \subseteq BatchJob

Init ==
  /\ listing = <<>> /\ loop = "listing" /\ i = 0
  /\ time = 0 /\ limit = 0
  /\ marked = {} /\ delays = {} /\ count = 0 /\ victims = {}

(* One more batch Job, where the sort puts it.                             *)
List ==
  /\ loop = "listing" /\ Len(listing) < MaxListing
  /\ \E b \in Items :
       /\ \A k \in DOMAIN listing : listing[k].uid # b.uid /\ b.created <= listing[k].created
       /\ listing' = Append(listing, b)
  /\ UNCHANGED <<loop, i, time, limit, results, deletions>>

Start(which) ==
  /\ loop = "listing"
  /\ loop' = which
  /\ i' = 1
  /\ UNCHANGED <<listing, results, deletions>>

StartTTL == Start("results") /\ time' \in 1 .. MaxClock /\ UNCHANGED limit
StartHistory == Start("history") /\ limit' \in Limits /\ UNCHANGED time
StartLatest == Start("latest") /\ UNCHANGED <<time, limit>>

AtItem == i \in DOMAIN listing

(***************************************************************************)
(* processBatchJobsTTL: first every entry is looked at, newest first; the  *)
(* results are then gone through oldest first.                             *)
(***************************************************************************)
ProcessTTL ==
  /\ loop = "results" /\ AtItem
  /\ LET b == listing[i]
         waits == ExpireAt(b) - time > 0
     IN  \/ (b.expired \/ ~HasExpireTime(b)) /\ UNCHANGED results
         \/ /\ ~b.expired /\ HasExpireTime(b) /\ waits
            /\ delays' = delays \cup {ExpireAt(b) - time + Slack} /\ UNCHANGED marked
         \/ /\ ~b.expired /\ HasExpireTime(b) /\ ~waits
            /\ marked' = marked \cup {b} /\ UNCHANGED delays
  /\ i' = i + 1
  /\ UNCHANGED <<listing, loop, time, limit, deletions>>

ReverseResults ==
  /\ loop = "results" /\ ~AtItem
  /\ loop' = "ttl"
  /\ i' = Len(listing)
  /\ UNCHANGED <<listing, time, limit, results, deletions>>

TakeOut == count' = count + 1 /\ victims' = victims \cup {listing[i]}

(* Mutant: the last one may go, too.                                       *)
DeleteEveryExpired ==
  /\ loop = "ttl" /\ AtItem
  /\ \/ listing[i].expired /\ TakeOut
     \/ ~listing[i].expired /\ UNCHANGED deletions
  /\ i' = i - 1
  /\ UNCHANGED <<listing, loop, time, limit, results>>

DeleteTTL ==
  /\ loop = "ttl" /\ AtItem
  /\ LET allowDelete == Len(listing) - 1
     IN  \/ listing[i].expired /\ count < allowDelete /\ TakeOut
         \/ ~(listing[i].expired /\ count < allowDelete) /\ UNCHANGED deletions
  /\ i' = i - 1
  /\ UNCHANGED <<listing, loop, time, limit, results>>

(***************************************************************************)
(* deleteOldBatchJobs.                                                     *)
(***************************************************************************)
(* Mutant: one that is being deleted takes up a place.                     *)
SkippedRunning(b) == ~b.done

(* One that runs or is being deleted neither counts nor goes.              *)
Skipped(b) == ~b.done \/ b.deleting

PruneHistory ==
  /\ loop = "history" /\ AtItem
  /\ LET b == listing[i]
     IN  \/ Skipped(b) /\ UNCHANGED deletions
         \/ ~Skipped(b) /\ count < limit /\ count' = count + 1 /\ UNCHANGED victims
         \/ ~Skipped(b) /\ count >= limit /\ victims' = victims \cup {b} /\ UNCHANGED count
  /\ i' = i + 1
  /\ UNCHANGED <<listing, loop, time, limit, results>>

(* Mutant: whatever comes next is not looked at.                           *)
SkipTwo ==
  /\ loop = "latest" /\ AtItem /\ listing[i].deleting
  /\ i' = i + 2
  /\ UNCHANGED <<listing, loop, time, limit, results, deletions>>

(* Mutant: one that still runs is passed over, too.                        *)
SkipUnfinished ==
  /\ loop = "latest" /\ AtItem /\ (listing[i].deleting \/ ~listing[i].done)
  /\ i' = i + 1
  /\ UNCHANGED <<listing, loop, time, limit, results, deletions>>

(* The search for the latest batch Job (slices.IndexFunc in Reconcile).    *)
SkipDeleting ==
  /\ loop = "latest" /\ AtItem /\ listing[i].deleting
  /\ i' = i + 1
  /\ UNCHANGED <<listing, loop, time, limit, results, deletions>>

Next ==
  \/ List
  \/ StartTTL \/ ProcessTTL \/ ReverseResults \/ DeleteTTL
  \/ StartHistory \/ PruneHistory
  \/ StartLatest \/ SkipDeleting

Spec == Init /\ [][Next]_vars

-----------------------------------------------------------------------------
Listed == {listing[k] : k \in DOMAIN listing}

(* The deletion counter of the TTL loop amounts to the rule TTLVictims,    *)
(* whatever order ties are listed in: a listing that is annotated all over *)
(* keeps its first entry and any other loses every annotated one; what is  *)
(* annotated and waited for does not depend on the order at all.           *)
TTLLoopFollowsRule ==
  loop = "ttl" /\ i = 0 =>
    /\ victims \in TTLVictims(Listed)
    /\ marked = ToExpire(Listed, time)
    /\ delays = Delays(Listed, time)

(* The history loop keeps exactly the newest finished batch Jobs up to the *)
(* limit, and an entry it does not count (running or being deleted) never  *)
(* uses up a place.                                                        *)
HistoryLoopFollowsRule ==
  loop = "history" /\ ~AtItem => victims \in HistoryVictims(Listed, limit)

(* The first entry without a deletionTimestamp is a newest one of those,   *)
(* and if the search finds none there is none.                             *)
LatestLoopFollowsRule ==
  loop = "latest" =>
    IF AtItem THEN ~listing[i].deleting => listing[i] \in Latest(Listed)
              ELSE Latest(Listed) = {}
=============================================================================
