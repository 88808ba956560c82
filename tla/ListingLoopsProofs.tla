------------------------- MODULE ListingLoopsProofs -------------------------
(***************************************************************************)
(* The loops over a listing do what the rules of BatchJobs say, for every  *)
(* sorted listing of any length, every time and every limit.               *)
(***************************************************************************)
EXTENDS ListingLoops, BatchJobsProofs, FiniteSetTheorems

LEMMA InitTypeOK == Init => TypeOK
BY DEF Init, TypeOK

LEMMA EntryType ==
  ASSUME TypeOK, NEW k \in DOMAIN listing
  PROVE  listing[k] \in BatchJob /\ listing[k].created \in Nat
<1>1. listing[k] \in BatchJob
  BY DEF TypeOK
<1> QED BY <1>1 DEF BatchJob

LEMMA ExpireAtType ==
  ASSUME NEW b \in BatchJob, HasExpireTime(b)
  PROVE  ExpireAt(b) \in Int
<1>1. b.ttl \in TTLs /\ b.ttl # NoTTL /\ b.finishedAt \in Nat
  BY DEF BatchJob, HasExpireTime
<1>2. b.ttl \in Int
  BY <1>1, TTLAssumption
<1> QED BY <1>1, <1>2 DEF ExpireAt

(* An entry is a batch Job; the rest of the index is within the listing.   *)
LEMMA ItemType ==
  ASSUME TypeOK, AtItem
  PROVE  /\ listing[i] \in BatchJob /\ listing[i].created \in Nat
         /\ i \in Nat /\ Len(listing) \in Nat /\ 1 <= i /\ i <= Len(listing)
         /\ HasExpireTime(listing[i]) => ExpireAt(listing[i]) \in Int
<1>1. listing[i] \in BatchJob /\ i \in 1 .. Len(listing) /\ Len(listing) \in Nat
  BY DEF TypeOK, AtItem
<1>2. HasExpireTime(listing[i]) => ExpireAt(listing[i]) \in Int
  BY <1>1, ExpireAtType
<1> QED BY <1>1, <1>2 DEF BatchJob

LEMMA NextTypeOK == TypeOK /\ [Next]_vars => TypeOK'
<1> SUFFICES ASSUME TypeOK, [Next]_vars PROVE TypeOK'
  OBVIOUS
<1> USE DEF vars, results, deletions
<1>0. Len(listing) \in Nat /\ listing \in Seq(BatchJob)
  BY DEF TypeOK
<1>1. CASE List
  <2>1. PICK b \in Items : listing' = Append(listing, b)
    BY <1>1 DEF List
  <2>2. b \in BatchJob
    BY ListingAssumption
  <2>3. listing' \in Seq(BatchJob) /\ Len(listing') = Len(listing) + 1
    BY <1>0, <2>1, <2>2
  <2> QED BY <1>0, <1>1, <2>3 DEF List, TypeOK
<1>2. CASE StartTTL \/ StartHistory \/ StartLatest
  <2>1. /\ i' = 1 /\ loop' \in {"results", "history", "latest"}
        /\ UNCHANGED <<listing, results, deletions>>
    BY <1>2 DEF StartTTL, StartHistory, StartLatest, Start
  <2>2. 1 \in 0 .. Len(listing) + 1 /\ 1 .. MaxClock \subseteq Nat
    BY <1>0, ListingAssumption
  <2>3. time' \in Nat /\ limit' \in Int
    BY <1>2, <2>2, LimitAssumption DEF StartTTL, StartHistory, StartLatest, TypeOK
  <2> QED BY <2>1, <2>2, <2>3 DEF TypeOK
<1>3. CASE ProcessTTL
  <2>1. /\ i + 1 \in 0 .. Len(listing) + 1
        /\ HasExpireTime(listing[i]) /\ ExpireAt(listing[i]) - time > 0
             => ExpireAt(listing[i]) - time + Slack \in Nat
    BY <1>3, ItemType, SlackAssumption DEF ProcessTTL, TypeOK
  <2> QED BY <1>3, <2>1, ItemType DEF ProcessTTL, TypeOK
<1>4. CASE ReverseResults
  BY <1>0, <1>4 DEF ReverseResults, TypeOK
<1>5. CASE DeleteTTL
  BY <1>5, ItemType DEF DeleteTTL, TakeOut, TypeOK
<1>6. CASE PruneHistory
  BY <1>6, ItemType DEF PruneHistory, TypeOK
<1>7. CASE SkipDeleting
  BY <1>7, ItemType DEF SkipDeleting, TypeOK
<1>8. CASE UNCHANGED vars
  BY <1>8 DEF TypeOK
<1> QED BY <1>1, <1>2, <1>3, <1>4, <1>5, <1>6, <1>7, <1>8 DEF Next

THEOREM TypeCorrect == Spec => []TypeOK
<1> QED BY InitTypeOK, NextTypeOK, PTL DEF Spec
-----------------------------------------------------------------------------
(***************************************************************************)
(* The listing is sorted and lists nothing twice; the entries on the two   *)
(* sides of the index.                                                     *)
(***************************************************************************)
Sorted ==
  \A j, k \in DOMAIN listing :
    j < k => /\ listing[k].created <= listing[j].created
             /\ listing[j].uid # listing[k].uid

Newer == {listing[k] : k \in {j \in DOMAIN listing : j < i}}
Older == {listing[k] : k \in {j \in DOMAIN listing : i < j}}

LEMMA NextSorted == TypeOK /\ Sorted /\ [Next]_vars => Sorted'
<1> SUFFICES ASSUME TypeOK, Sorted, [Next]_vars PROVE Sorted'
  OBVIOUS
<1>1. CASE List
  <2>1. PICK b \in Items :
          /\ \A k \in DOMAIN listing : listing[k].uid # b.uid /\ b.created <= listing[k].created
          /\ listing' = Append(listing, b)
    BY <1>1 DEF List
  <2>2. listing \in Seq(BatchJob) /\ b \in BatchJob
    BY ListingAssumption DEF TypeOK
  <2>3. /\ DOMAIN listing = 1 .. Len(listing) /\ Len(listing) \in Nat
        /\ DOMAIN listing' = 1 .. Len(listing) + 1
        /\ \A k \in DOMAIN listing : listing'[k] = listing[k]
        /\ listing'[Len(listing) + 1] = b
    BY <2>1, <2>2
  <2> QED BY <2>1, <2>3 DEF Sorted
<1>2. CASE UNCHANGED listing
  BY <1>2 DEF Sorted
<1> QED
  BY <1>1, <1>2 DEF Next, vars, StartTTL, StartHistory, StartLatest, Start, ProcessTTL,
     ReverseResults, DeleteTTL, PruneHistory, SkipDeleting

(* What a step of an index adds to the entries already met.                *)
LEMMA NewerGrows ==
  ASSUME TypeOK, AtItem, listing' = listing, i' = i + 1
  PROVE  Newer' = Newer \cup {listing[i]}
<1>1. i \in DOMAIN listing /\ DOMAIN listing \subseteq Int
  BY DEF TypeOK, AtItem
<1>2. {j \in DOMAIN listing : j < i + 1} = {j \in DOMAIN listing : j < i} \cup {i}
  BY <1>1
<1> QED BY <1>2 DEF Newer

LEMMA OlderGrows ==
  ASSUME TypeOK, AtItem, listing' = listing, i' = i - 1
  PROVE  Older' = Older \cup {listing[i]}
<1>1. i \in DOMAIN listing /\ DOMAIN listing \subseteq Int
  BY DEF TypeOK, AtItem
<1>2. {j \in DOMAIN listing : i - 1 < j} = {j \in DOMAIN listing : i < j} \cup {i}
  BY <1>1
<1> QED BY <1>2 DEF Older

LEMMA NewerAtFirst ==
  ASSUME TypeOK, i = 1
  PROVE  Newer = {}
BY DEF TypeOK, Newer

LEMMA NewerAtEnd ==
  ASSUME TypeOK, ~AtItem, i # 0
  PROVE  Newer = Listed
<1>1. DOMAIN listing = 1 .. Len(listing) /\ Len(listing) \in Nat /\ i = Len(listing) + 1
  BY DEF TypeOK, AtItem
<1>2. {j \in DOMAIN listing : j < i} = DOMAIN listing
  BY <1>1
<1> QED BY <1>2 DEF Newer, Listed

LEMMA OlderAtEnd ==
  ASSUME TypeOK, i = 0
  PROVE  Older = Listed
<1>1. DOMAIN listing = 1 .. Len(listing) /\ Len(listing) \in Nat
  BY DEF TypeOK
<1>2. {j \in DOMAIN listing : i < j} = DOMAIN listing
  BY <1>1
<1> QED BY <1>2 DEF Older, Listed

LEMMA EntriesAreBatchJobs ==
  ASSUME TypeOK
  PROVE  Newer \subseteq BatchJob /\ Older \subseteq BatchJob /\ Listed \subseteq BatchJob
BY DEF TypeOK, Newer, Older, Listed

(* Entries met earlier are newer, entries met later older.                 *)
LEMMA MetInOrder ==
  ASSUME TypeOK, Sorted, AtItem
  PROVE  /\ \A b \in Newer : listing[i].created <= b.created /\ b # listing[i]
         /\ \A b \in Older : b.created <= listing[i].created /\ b # listing[i]
BY DEF TypeOK, Sorted, AtItem, Newer, Older
-----------------------------------------------------------------------------
(***************************************************************************)
(* The TTL pass.                                                           *)
(***************************************************************************)
LEMMA ExpireMore ==
  ASSUME NEW L, NEW B, NEW M, M = L \cup B, NEW t
  PROVE  /\ ToExpire(M, t) = ToExpire(L, t) \cup ToExpire(B, t)
         /\ Delays(M, t) = Delays(L, t) \cup Delays(B, t)
<1>1. Pending(M) = Pending(L) \cup Pending(B)
  BY DEF Pending
<1>2. ToExpire(M, t) = ToExpire(L, t) \cup ToExpire(B, t)
  BY <1>1 DEF ToExpire
<1>3. Pending(M) \ ToExpire(M, t) = (Pending(L) \ ToExpire(L, t)) \cup (Pending(B) \ ToExpire(B, t))
  BY <1>1 DEF ToExpire
<1>4. Delays(M, t) = Delays(L, t) \cup Delays(B, t)
  BY <1>3 DEF Delays
<1> QED BY <1>2, <1>4

ResultsOf(L) == marked = ToExpire(L, time) /\ delays = Delays(L, time)

ResultsInv ==
  /\ loop = "listing" => marked = {} /\ delays = {}
  /\ loop = "results" => ResultsOf(Newer) /\ i # 0
  /\ loop = "ttl" => ResultsOf(Listed)

LEMMA ResultsStep == TypeOK /\ ResultsInv /\ [Next]_vars => ResultsInv'
<1> SUFFICES ASSUME TypeOK, ResultsInv, [Next]_vars PROVE ResultsInv'
  OBVIOUS
<1> USE DEF vars, results, deletions
<1>1. CASE StartTTL
  <2>1. Newer' = {}
    BY <1>1, NewerAtFirst, NextTypeOK DEF StartTTL, Start, Newer, TypeOK
  <2>2. ToExpire({}, time') = {} /\ Delays({}, time') = {}
    BY DEF ToExpire, Delays, Pending
  <2> QED BY <1>1, <2>1, <2>2 DEF StartTTL, Start, ResultsInv, ResultsOf
<1>2. CASE ProcessTTL
  <2> DEFINE b == listing[i]
             t == time
  <2>1. Newer' = Newer \cup {b} /\ time' = t /\ loop' = "results" /\ i' # 0
    BY <1>2, NewerGrows, ItemType DEF ProcessTTL
  <2>2. ResultsOf(Newer) /\ t \in Nat
    BY <1>2 DEF ProcessTTL, ResultsInv, TypeOK
  <2>3. marked' = marked \cup ToExpire({b}, t) /\ delays' = delays \cup Delays({b}, t)
    <3>1. CASE b.expired \/ ~HasExpireTime(b)
      <4>1. Pending({b}) = {}
        BY <3>1 DEF Pending
      <4>2. ToExpire({b}, t) = {} /\ Delays({b}, t) = {}
        BY <4>1 DEF ToExpire, Delays
      <4> QED BY <1>2, <3>1, <4>2 DEF ProcessTTL
    <3>2. CASE ~b.expired /\ HasExpireTime(b)
      <4>1. Pending({b}) = {b} /\ ExpireAt(b) \in Int
        BY <1>2, <3>2, ItemType DEF Pending, ProcessTTL
      <4>2. CASE ExpireAt(b) - t > 0
        <5>1. ToExpire({b}, t) = {}
          BY <2>2, <4>1, <4>2 DEF ToExpire
        <5>2. Delays({b}, t) = {ExpireAt(b) - t + Slack}
          BY <4>1, <5>1 DEF Delays
        <5> QED BY <1>2, <3>2, <4>2, <5>1, <5>2 DEF ProcessTTL
      <4>3. CASE ~(ExpireAt(b) - t > 0)
        <5>1. ToExpire({b}, t) = {b}
          BY <2>2, <4>1, <4>3 DEF ToExpire
        <5>2. Delays({b}, t) = {}
          BY <4>1, <5>1 DEF Delays
        <5> QED BY <1>2, <3>2, <4>3, <5>1, <5>2 DEF ProcessTTL
      <4> QED BY <4>2, <4>3
    <3> QED BY <3>1, <3>2
  <2>4. /\ ToExpire(Newer', t) = ToExpire(Newer, t) \cup ToExpire({b}, t)
        /\ Delays(Newer', t) = Delays(Newer, t) \cup Delays({b}, t)
    <3>1. PICK L, B, M : L = Newer /\ B = {b} /\ M = Newer' /\ M = L \cup B
      BY <2>1
    <3>2. /\ ToExpire(M, t) = ToExpire(L, t) \cup ToExpire(B, t)
          /\ Delays(M, t) = Delays(L, t) \cup Delays(B, t)
      BY <3>1, ExpireMore
    <3> QED BY <3>1, <3>2
  <2>5. ResultsOf(Newer)'
    BY <2>1, <2>2, <2>3, <2>4 DEF ResultsOf
  <2> QED BY <2>1, <2>5 DEF ResultsInv
<1>3. CASE ReverseResults
  <2>1. Newer = Listed /\ Listed' = Listed
    BY <1>3, NewerAtEnd DEF ReverseResults, ResultsInv, Listed
  <2> QED BY <1>3, <2>1 DEF ReverseResults, ResultsInv, ResultsOf
<1>4. CASE DeleteTTL \/ UNCHANGED vars
  BY <1>4 DEF DeleteTTL, ResultsInv, ResultsOf, Listed, Newer
<1>5. CASE List \/ StartHistory \/ PruneHistory \/ StartLatest \/ SkipDeleting
  BY <1>5 DEF List, StartHistory, PruneHistory, StartLatest, Start, SkipDeleting, ResultsInv
<1> QED BY <1>1, <1>2, <1>3, <1>4, <1>5 DEF Next

(* Before the last entry the counter never holds a deletion back: there    *)
(* are fewer older entries than it allows deletions.                       *)
DeletionsInv ==
  /\ loop \in {"listing", "results"} => count = 0 /\ victims = {}
  /\ loop = "ttl" => i <= Len(listing)
  /\ loop = "ttl" /\ i # 0 =>
       /\ victims = {b \in Older : b.expired}
       /\ count <= Len(listing) - i
       /\ count = Len(listing) - i <=> \A b \in Older : b.expired
  /\ loop = "ttl" /\ i = 0 => victims \in TTLVictims(Listed)

LEMMA FirstIsNewest ==
  ASSUME TypeOK, Sorted, 1 \in DOMAIN listing
  PROVE  listing[1] \in NewestOf(Listed)
<1>1. \A k \in DOMAIN listing : k = 1 \/ 1 < k
  BY DEF TypeOK
<1>2. \A k \in DOMAIN listing : listing[k].created \in Nat
  BY EntryType
<1> QED BY <1>1, <1>2 DEF NewestOf, Listed, Sorted

LEMMA DeletionsStep == TypeOK /\ Sorted /\ DeletionsInv /\ [Next]_vars => DeletionsInv'
<1> SUFFICES ASSUME TypeOK, Sorted, DeletionsInv, [Next]_vars PROVE DeletionsInv'
  OBVIOUS
<1> USE DEF vars, results, deletions
<1>0. Len(listing) \in Nat
  BY DEF TypeOK
<1>1. CASE ReverseResults
  <2>1. /\ loop' = "ttl" /\ i' = Len(listing) /\ UNCHANGED listing
        /\ count' = 0 /\ victims' = {}
    BY <1>1 DEF ReverseResults, DeletionsInv
  <2>2. Older' = {}
    BY <1>0, <2>1 DEF Older, TypeOK
  <2>3. ASSUME Len(listing) = 0 PROVE TTLVictims(Listed') = {{}}
    <3>1. Listed' = {}
      BY <2>1, <2>3 DEF Listed, TypeOK
    <3> QED BY <3>1 DEF TTLVictims
  <2> QED BY <1>0, <2>1, <2>2, <2>3 DEF DeletionsInv
<1>2. CASE DeleteTTL
  <2> DEFINE b == listing[i]
             n == Len(listing)
  <2>1. /\ loop = "ttl" /\ loop' = "ttl" /\ AtItem /\ i' = i - 1 /\ UNCHANGED listing
        /\ \/ /\ b.expired /\ count < n - 1
              /\ count' = count + 1 /\ victims' = victims \cup {b}
           \/ ~(b.expired /\ count < n - 1) /\ UNCHANGED deletions
    BY <1>2 DEF DeleteTTL, TakeOut
  <2>2. i \in Nat /\ 1 <= i /\ i <= n /\ n \in Nat /\ count \in Nat
    BY <2>1, ItemType DEF TypeOK
  <2>3. /\ victims = {x \in Older : x.expired}
        /\ count <= n - i
        /\ count = n - i <=> \A x \in Older : x.expired
    BY <2>1, <2>2 DEF DeletionsInv
  <2>4. Older' = Older \cup {b} /\ b \notin Older
    BY <2>1, OlderGrows, MetInOrder
  <2>5. CASE i # 1
    <3>1. count < n - 1 /\ i' # 0
      BY <2>1, <2>2, <2>3, <2>5
    <3>2. victims' = {x \in Older' : x.expired}
      BY <2>1, <2>3, <2>4, <3>1
    <3>3. count' <= n - i'
      BY <2>1, <2>2, <2>3
    <3>4. count' = n - i' <=> \A x \in Older' : x.expired
      <4>1. CASE b.expired
        <5>1. count' = count + 1 /\ n - i' = (n - i) + 1
          BY <2>1, <2>2, <3>1, <4>1
        <5> QED BY <2>2, <2>3, <2>4, <4>1, <5>1
      <4>2. CASE ~b.expired
        BY <2>1, <2>2, <2>3, <2>4, <4>2
      <4> QED BY <4>1, <4>2
    <3> QED BY <2>1, <2>2, <3>1, <3>2, <3>3, <3>4 DEF DeletionsInv
  <2>6. CASE i = 1
    <3>1. i' = 0 /\ Older' = Listed /\ Listed' = Listed
      <4>1. i' = 0 /\ DOMAIN listing = 1 .. n
        BY <2>1, <2>6 DEF TypeOK
      <4>2. {j \in DOMAIN listing : i' < j} = DOMAIN listing
        BY <2>2, <4>1
      <4> QED BY <2>1, <4>1, <4>2 DEF Older, Listed
    <3>2. victims' \in TTLVictims(Listed) => DeletionsInv'
      <4> SUFFICES ASSUME victims' \in TTLVictims(Listed) PROVE DeletionsInv'
        OBVIOUS
      <4>1. (victims \in TTLVictims(Listed))'
        BY <3>1
      <4>2. i' <= Len(listing')
        BY <1>0, <2>1, <3>1
      <4> QED BY <2>1, <3>1, <4>1, <4>2 DEF DeletionsInv
    <3> DEFINE E == {x \in Listed : x.expired}
    <3>3. CASE b.expired /\ \A x \in Older : x.expired
      <4>1. victims' = Older /\ E = Listed
        <5>1. count = n - 1
          BY <2>3, <2>6, <3>3
        <5>2. victims' = victims
          BY <2>1, <2>2, <5>1
        <5>3. E = Listed
          BY <2>4, <3>1, <3>3
        <5> QED BY <2>3, <3>3, <5>2, <5>3
      <4>2. b \in NewestOf(Listed) /\ Listed \ {b} = Older
        BY <2>1, <2>4, <2>6, <3>1, FirstIsNewest DEF AtItem
      <4>3. Listed # {}
        BY <2>4, <3>1
      <4>4. victims' \in TTLVictims(Listed)
        BY <4>1, <4>2, <4>3 DEF TTLVictims
      <4> QED BY <3>2, <4>4
    <3>4. CASE ~(b.expired /\ \A x \in Older : x.expired)
      <4>1. E # Listed
        BY <2>4, <3>1, <3>4
      <4>2. victims' = E
        <5>1. CASE b.expired
          <6>1. count < n - 1
            BY <2>2, <2>3, <2>6, <3>4, <5>1
          <6> QED BY <2>1, <2>3, <2>4, <3>1, <5>1, <6>1
        <5>2. CASE ~b.expired
          BY <2>1, <2>3, <2>4, <3>1, <5>2
        <5> QED BY <5>1, <5>2
      <4>3. victims' \in TTLVictims(Listed)
        BY <4>1, <4>2 DEF TTLVictims
      <4> QED BY <3>2, <4>3
    <3> QED BY <3>3, <3>4
  <2> QED BY <2>5, <2>6
<1>3. CASE UNCHANGED vars
  BY <1>3 DEF DeletionsInv, Older, Listed
<1>4. CASE List \/ StartTTL \/ ProcessTTL
  BY <1>4 DEF List, StartTTL, Start, ProcessTTL, DeletionsInv
<1>5. CASE StartHistory \/ PruneHistory \/ StartLatest \/ SkipDeleting
  BY <1>5 DEF StartHistory, PruneHistory, StartLatest, Start, SkipDeleting, DeletionsInv
<1> QED BY <1>1, <1>2, <1>3, <1>4, <1>5 DEF Next

(* The TTL pass over a sorted listing of any length annotates, waits for   *)
(* and deletes what the rules of BatchJobs say (lines 264-322).            *)
THEOREM TTLLoopIsRule == Spec => []TTLLoopFollowsRule
<1>1. Init => Sorted /\ ResultsInv /\ DeletionsInv
  BY DEF Init, Sorted, ResultsInv, DeletionsInv
<1>2. ResultsInv /\ DeletionsInv => TTLLoopFollowsRule
  BY DEF ResultsInv, ResultsOf, DeletionsInv, TTLLoopFollowsRule
<1> QED
  BY <1>1, <1>2, NextSorted, ResultsStep, DeletionsStep, TypeCorrect, PTL DEF Spec
-----------------------------------------------------------------------------
(***************************************************************************)
(* The history pass: what it has kept so far is newer than what it has not,*)
(* and it keeps nothing any more once it has found something to delete.    *)
(***************************************************************************)
Kept == Finished(Newer) \ victims

HistoryInv ==
  /\ loop = "listing" => count = 0 /\ victims = {}
  /\ loop = "history" =>
       /\ i # 0
       /\ victims \subseteq Finished(Newer)
       /\ IsFiniteSet(Kept) /\ IsFiniteSet(victims)
       /\ Cardinality(Kept) = count
       /\ count = 0 \/ count <= limit
       /\ victims # {} => limit <= count
       /\ \A d \in victims, k \in Kept : d.created <= k.created

LEMMA HistoryStep == TypeOK /\ Sorted /\ HistoryInv /\ [Next]_vars => HistoryInv'
<1> SUFFICES ASSUME TypeOK, Sorted, HistoryInv, [Next]_vars PROVE HistoryInv'
  OBVIOUS
<1> USE DEF vars, results, deletions
<1>1. CASE StartHistory
  <2>1. i' = 1 /\ count' = 0 /\ victims' = {}
    BY <1>1 DEF StartHistory, Start, HistoryInv
  <2>2. Newer' = {}
    BY <2>1, NewerAtFirst, NextTypeOK DEF TypeOK, Newer
  <2>3. Kept' = {}
    BY <2>2 DEF Kept, Finished
  <2> QED BY <1>1, <2>1, <2>3, FS_EmptySet DEF StartHistory, Start, HistoryInv
<1>2. CASE PruneHistory
  <2> DEFINE b == listing[i]
  <2>1. /\ loop = "history" /\ loop' = "history" /\ AtItem /\ i' = i + 1
        /\ UNCHANGED <<listing, limit>> /\ i' # 0
    BY <1>2, ItemType DEF PruneHistory
  <2>2. /\ victims \subseteq Finished(Newer)
        /\ IsFiniteSet(Kept) /\ IsFiniteSet(victims)
        /\ Cardinality(Kept) = count
        /\ count = 0 \/ count <= limit
        /\ victims # {} => limit <= count
        /\ \A d \in victims, k \in Kept : d.created <= k.created
    BY <2>1 DEF HistoryInv
  <2>3. count \in Nat /\ limit \in Int
    BY DEF TypeOK
  <2>4. /\ Newer' = Newer \cup {b} /\ b \notin Newer
        /\ \A k \in Newer : b.created <= k.created
    BY <2>1, NewerGrows, MetInOrder
  <2>5. Finished(Newer) \subseteq Newer
    BY DEF Finished
  <2>6. CASE Skipped(b)
    <3>1. UNCHANGED deletions
      BY <1>2, <2>6 DEF PruneHistory
    <3>2. Finished(Newer') = Finished(Newer)
      BY <2>4, <2>6 DEF Finished, Skipped
    <3>3. Kept' = Kept
      BY <3>1, <3>2 DEF Kept
    <3> QED BY <2>1, <2>2, <3>1, <3>2, <3>3 DEF HistoryInv
  <2>7. CASE ~Skipped(b)
    <3>1. Finished(Newer') = Finished(Newer) \cup {b}
      BY <2>4, <2>7 DEF Finished, Skipped
    <3>2. CASE count < limit
      <4>1. count' = count + 1 /\ victims' = victims /\ victims = {}
        BY <1>2, <2>2, <2>3, <2>7, <3>2 DEF PruneHistory
      <4>2. Kept' = Kept \cup {b} /\ b \notin Kept
        BY <2>4, <2>5, <3>1, <4>1 DEF Kept
      <4>3. IsFiniteSet(Kept') /\ Cardinality(Kept') = count + 1
        BY <2>2, <4>2, FS_AddElement
      <4> QED BY <2>1, <2>2, <2>3, <3>2, <4>1, <4>3 DEF HistoryInv
    <3>3. CASE ~(count < limit)
      <4>1. count' = count /\ victims' = victims \cup {b}
        BY <1>2, <2>3, <2>7, <3>3 DEF PruneHistory
      <4>2. Kept' = Kept
        BY <2>4, <2>5, <3>1, <4>1 DEF Kept
      <4>3. IsFiniteSet(victims')
        BY <2>2, <4>1, FS_AddElement
      <4>4. \A d \in victims', k \in Kept' : d.created <= k.created
        BY <2>2, <2>4, <2>5, <4>1, <4>2 DEF Kept
      <4>5. victims' \subseteq Finished(Newer')
        BY <2>2, <3>1, <4>1
      <4> HIDE DEF b
      <4> QED BY <2>1, <2>2, <2>3, <3>3, <4>1, <4>2, <4>3, <4>4, <4>5 DEF HistoryInv
    <3> QED BY <3>2, <3>3
  <2> QED BY <2>6, <2>7
<1>3. CASE UNCHANGED vars
  BY <1>3 DEF HistoryInv, Kept, Newer
<1>4. CASE List \/ StartTTL \/ ProcessTTL \/ ReverseResults
  BY <1>4 DEF List, StartTTL, Start, ProcessTTL, ReverseResults, HistoryInv
<1>5. CASE DeleteTTL \/ StartLatest \/ SkipDeleting
  BY <1>5 DEF DeleteTTL, StartLatest, Start, SkipDeleting, HistoryInv
<1> QED BY <1>1, <1>2, <1>3, <1>4, <1>5 DEF Next

(* At the end all finished ones have been met.                             *)
LEMMA HistoryAtEnd ==
  ASSUME TypeOK, HistoryInv
  PROVE  HistoryLoopFollowsRule
<1> SUFFICES ASSUME loop = "history", ~AtItem PROVE victims \in HistoryVictims(Listed, limit)
  BY DEF HistoryLoopFollowsRule
<1> DEFINE F == Finished(Listed)
<1>1. /\ i # 0
      /\ victims \subseteq Finished(Newer)
      /\ IsFiniteSet(Kept) /\ IsFiniteSet(victims)
      /\ Cardinality(Kept) = count
      /\ count = 0 \/ count <= limit
      /\ victims # {} => limit <= count
      /\ \A d \in victims, k \in Kept : d.created <= k.created
  BY DEF HistoryInv
<1>2. Kept = F \ victims /\ victims \subseteq F
  BY <1>1, NewerAtEnd DEF Kept
<1>3. count \in Nat /\ limit \in Int
  BY DEF TypeOK
<1> HIDE DEF F
<1>4. F = Kept \cup victims
  BY <1>2
<1>5. IsFiniteSet(F)
  BY <1>1, <1>4, FS_Union
<1>6. Cardinality(F) \in Nat /\ count <= Cardinality(F)
  BY <1>1, <1>2, <1>5, FS_CardinalityType, FS_Subset
<1>7. Max({0, Min({limit, Cardinality(F)})}) = count
  <2>1. CASE victims = {}
    <3>1. Cardinality(F) = count
      BY <1>1, <1>2, <2>1
    <3> QED BY <1>1, <1>3, <1>6, <3>1, MinOfTwo, MaxOfZero
  <2>2. CASE victims # {}
    BY <1>1, <1>3, <1>6, <2>2, MinOfTwo, MaxOfZero
  <2> QED BY <2>1, <2>2
<1> QED BY <1>1, <1>2, <1>7 DEF HistoryVictims, F

(* The history pass over a sorted listing of any length keeps the newest   *)
(* finished batch Jobs up to the limit and no others (lines 223-260), for  *)
(* every limit, negative ones included.                                    *)
THEOREM HistoryLoopIsRule == Spec => []HistoryLoopFollowsRule
<1>1. Init => Sorted /\ HistoryInv
  BY DEF Init, Sorted, HistoryInv
<1> QED BY <1>1, NextSorted, HistoryStep, HistoryAtEnd, TypeCorrect, PTL DEF Spec
-----------------------------------------------------------------------------
(***************************************************************************)
(* The latest batch Job.                                                   *)
(***************************************************************************)
SearchInv == loop = "latest" => i # 0 /\ \A b \in Newer : b.deleting

LEMMA SearchStep == TypeOK /\ SearchInv /\ [Next]_vars => SearchInv'
<1> SUFFICES ASSUME TypeOK, SearchInv, [Next]_vars PROVE SearchInv'
  OBVIOUS
<1>1. CASE StartLatest
  <2>1. i' = 1
    BY <1>1 DEF StartLatest, Start
  <2>2. Newer' = {}
    BY <2>1, NextTypeOK DEF TypeOK, Newer
  <2> QED BY <2>1, <2>2 DEF SearchInv
<1>2. CASE SkipDeleting
  <2>1. Newer' = Newer \cup {listing[i]} /\ i' # 0
    BY <1>2, NewerGrows, ItemType DEF SkipDeleting
  <2> QED BY <1>2, <2>1 DEF SkipDeleting, SearchInv
<1>3. CASE UNCHANGED vars
  BY <1>3 DEF vars, SearchInv, Newer
<1>4. CASE List \/ StartTTL \/ ProcessTTL \/ ReverseResults \/ DeleteTTL
  BY <1>4 DEF List, StartTTL, Start, ProcessTTL, ReverseResults, DeleteTTL, SearchInv
<1>5. CASE StartHistory \/ PruneHistory
  BY <1>5 DEF StartHistory, Start, PruneHistory, SearchInv
<1> QED BY <1>1, <1>2, <1>3, <1>4, <1>5 DEF Next

LEMMA SearchFindsLatest ==
  ASSUME TypeOK, Sorted, SearchInv
  PROVE  LatestLoopFollowsRule
<1> SUFFICES ASSUME loop = "latest"
             PROVE  IF AtItem THEN ~listing[i].deleting => listing[i] \in Latest(Listed)
                              ELSE Latest(Listed) = {}
  BY DEF LatestLoopFollowsRule
<1>1. i # 0 /\ \A b \in Newer : b.deleting
  BY DEF SearchInv
<1>2. CASE AtItem /\ ~listing[i].deleting
  <2>1. i \in DOMAIN listing /\ DOMAIN listing \subseteq Int /\ listing[i].created \in Nat
    BY <1>2, EntryType DEF TypeOK, AtItem
  <2>2. \A k \in DOMAIN listing :
          ~listing[k].deleting => listing[k].created <= listing[i].created
    <3> SUFFICES ASSUME NEW k \in DOMAIN listing, ~listing[k].deleting
                 PROVE  listing[k].created <= listing[i].created
      OBVIOUS
    <3>1. ~(k < i)
      BY <1>1 DEF Newer
    <3>2. k = i \/ i < k
      BY <2>1, <3>1
    <3> QED BY <2>1, <3>2 DEF Sorted
  <2> QED BY <1>2, <2>1, <2>2 DEF Latest, NewestOf, Listed
<1>3. CASE ~AtItem
  <2>1. {b \in Listed : ~b.deleting} = {}
    BY <1>1, <1>3, NewerAtEnd
  <2> QED BY <1>3, <2>1 DEF Latest, NewestOf
<1> QED BY <1>2, <1>3

(* The first entry of a sorted listing that is not being deleted is a      *)
(* latest batch Job, and none is found only if there is none (lines        *)
(* 161-166), for listings of any length.                                   *)
THEOREM LatestLoopIsRule == Spec => []LatestLoopFollowsRule
<1>1. Init => Sorted /\ SearchInv
  BY DEF Init, Sorted, SearchInv
<1> QED BY <1>1, NextSorted, SearchStep, SearchFindsLatest, TypeCorrect, PTL DEF Spec
=============================================================================
