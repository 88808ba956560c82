----------------------------- MODULE JobPromise -----------------------------
(***************************************************************************)
(* What the documentation of Job promises (api/v1/job_types.go, lines      *)
(* 329-332): a batch Job is generated the first time, and then only with a *)
(* spec that differs from the most recently generated one, once that one   *)
(* has completed.                                                          *)
(***************************************************************************)
CONSTANTS
  Specs,    \* specs of batch Jobs
  None      \* no batch Job was generated yet

VARIABLES
  last,     \* the spec of the most recently generated batch Job
  active    \* it has not completed

vars == <<last, active>>

TypeOK == last \in Specs \cup {None} /\ active \in BOOLEAN

Init == last = None /\ active = FALSE

Generate ==
  /\ ~active
  /\ last' \in Specs \ {last}
  /\ active' = TRUE

Complete ==
  /\ active
  /\ active' = FALSE
  /\ UNCHANGED last

Next == Generate \/ Complete

Spec == Init /\ [][Next]_vars
=============================================================================
