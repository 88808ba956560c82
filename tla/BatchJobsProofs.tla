-------------------------- MODULE BatchJobsProofs --------------------------
(***************************************************************************)
(* Facts about the decisions of BatchJobs, for every listing.              *)
(***************************************************************************)
EXTENDS BatchJobs, WellFoundedInduction, TLAPS

(* A set of naturals with a member has a least one, and Min returns it.    *)
LEMMA MinNat ==
  ASSUME NEW S \in SUBSET Nat, S # {}
  PROVE  Min(S) \in S /\ \A y \in S : Min(S) <= y
<1> DEFINE R == OpToRel(<, Nat)
<1>1. PICK x \in S : \A y \in S : ~(<<y, x>> \in R)
  <2>1. IsWellFoundedOn(R, Nat)
    BY NatLessThanWellFounded
  <2> HIDE DEF R
  <2> QED BY <2>1, WFMin
<1>2. \A y \in S : ~(y < x)
  BY <1>1 DEF OpToRel
<1>3. \A y \in S : x <= y
  BY <1>2
<1> QED BY <1>3 DEF Min

(* The bounds that the history limit is kept in.                           *)
LEMMA MaxOfZero ==
  ASSUME NEW n \in Int
  PROVE  Max({0, n}) = IF n >= 0 THEN n ELSE 0
<1>1. \E x \in {0, n} : \A y \in {0, n} : x >= y
  OBVIOUS
<1>2. Max({0, n}) \in {0, n} /\ Max({0, n}) >= 0 /\ Max({0, n}) >= n
  BY <1>1 DEF Max
<1> QED BY <1>2

LEMMA MinOfTwo ==
  ASSUME NEW m \in Int, NEW n \in Int
  PROVE  Min({m, n}) = IF m <= n THEN m ELSE n
<1>1. \E x \in {m, n} : \A y \in {m, n} : x =< y
  OBVIOUS
<1>2. Min({m, n}) \in {m, n} /\ Min({m, n}) <= m /\ Min({m, n}) <= n
  BY <1>1 DEF Min
<1> QED BY <1>2

(* The manifest of the next batch Job is a batch Job (construct.BatchJob). *)
LEMMA NextBatchJobType ==
  ASSUME NEW j, j.uid \in Nat, j.params \in Params, j.ttl \in TTLs,
         j.collisions \in 0 .. MaxCollisions,
         NEW t \in Templates
  PROVE  /\ NextBatchJob(j, t) \in BatchJob
         /\ ~NextBatchJob(j, t).done
         /\ ~NextBatchJob(j, t).deleting
         /\ ~NextBatchJob(j, t).expired
<1>1. NameOf[<<t, j.collisions>>] \in Names
  BY NameAssumption
<1> QED BY <1>1 DEF NextBatchJob, BatchJob, BatchJobSpec, BatchSpec

(* What the TTL pass marks has finished, has a TTL and has outlived it     *)
(* (batchJobExpireAt and the comparison of processBatchJobTTL).            *)
LEMMA ToExpireJustified ==
  ASSUME NEW L, NEW time, NEW b \in ToExpire(L, time)
  PROVE  b \in L /\ b.done /\ b.ttl # NoTTL /\ b.finishedAt + b.ttl <= time
BY DEF ToExpire, Pending, HasExpireTime, ExpireAt

(* The delays of the TTL pass are natural numbers: the request is never    *)
(* put back with a negative RequeueAfter.                                  *)
LEMMA DelaysNat ==
  ASSUME NEW L \in SUBSET BatchJob, NEW time \in Nat
  PROVE  Delays(L, time) \subseteq Nat
<1> SUFFICES ASSUME NEW b \in Pending(L) \ ToExpire(L, time)
             PROVE  ExpireAt(b) - time + Slack \in Nat
  BY DEF Delays
<1>1. b \in BatchJob /\ b.ttl # NoTTL
  BY DEF Pending, HasExpireTime
<1>2. b.finishedAt \in Nat /\ b.ttl \in Int
  BY <1>1, TTLAssumption DEF BatchJob
<1>3. ~(ExpireAt(b) <= time)
  BY DEF ToExpire
<1> QED BY <1>2, <1>3, SlackAssumption DEF ExpireAt

(* What the TTL pass deletes was annotated when it was listed, and it      *)
(* never deletes a whole listing: "even if the TTL is expired, one Job     *)
(* will remain" (job_controller.go, processBatchJobsTTL).                  *)
THEOREM TTLKeepsOne ==
  ASSUME NEW L, NEW V \in TTLVictims(L)
  PROVE  /\ V \subseteq {b \in L : b.expired}
         /\ L # {} => V # L
<1> DEFINE E == {b \in L : b.expired}
<1>1. CASE E = L /\ L # {}
  <2>1. PICK b \in NewestOf(L) : V = L \ {b}
    BY <1>1 DEF TTLVictims
  <2>2. b \in L
    BY DEF NewestOf
  <2> QED BY <1>1, <2>1, <2>2
<1>2. CASE ~(E = L /\ L # {})
  <2>1. V = E
    BY <1>2 DEF TTLVictims
  <2> QED BY <1>2, <2>1
<1> QED BY <1>1, <1>2

(* What the history pass deletes has finished and is not being deleted     *)
(* (deleteOldBatchJobs).                                                   *)
LEMMA HistoryVictimsFinished ==
  ASSUME NEW L, NEW limit, NEW V \in HistoryVictims(L, limit)
  PROVE  V \subseteq {b \in L : b.done /\ ~b.deleting}
BY DEF HistoryVictims, Finished
=============================================================================
