--------------------------- MODULE MCListingLoops ---------------------------
(* Values for the constants of ListingLoops that a cfg cannot spell.       *)
EXTENDS ListingLoops

MCNames == Templates \X (0 .. MaxCollisions)
MCNameOf == [x \in MCNames |-> x]
MCSpecHash == [s \in BatchSpec |-> s]
MCLimits == {-1, 0, 1, 2}

(* Every combination of what the loops look at, under three uids: of a     *)
(* batch Job that runs or is annotated they look at neither the TTL nor    *)
(* the time it finished.                                                   *)
MCItems ==
  LET items ==
        {[uid |-> u, owner |-> 1, name |-> CHOOSE n \in MCNames : TRUE,
          spec |-> CHOOSE s \in BatchSpec : TRUE, ttl |-> ttl, created |-> c,
          done |-> done, finishedAt |-> at, deleting |-> deleting, expired |-> expired] :
            u \in 1 .. MaxListing, c \in 1 .. 2, ttl \in TTLs, at \in {0, 2},
            done, deleting, expired \in BOOLEAN}
  IN  {b \in items : (b.done /\ ~b.expired) \/ (b.ttl = NoTTL /\ b.finishedAt = 0)}
=============================================================================
