--------------------------- MODULE MCPatchRunner ---------------------------
(* Values for the constants of PatchRunner that a cfg cannot spell: a pod  *)
(* field "deadline" that is also a parameter of the batch Job, and a field *)
(* "node" that is not.                                                     *)
EXTENDS PatchRunner, TLC

CONSTANTS
  v1, v2, v3,     \* values
  job, cron,      \* the two workers
  Ops             \* operations of the patches of the Job controller

MCKeys == STRING
MCPodFields == {"deadline", "node"}
MCParamFields == {"deadline"}

MCPatch(op, field, from) ==
  [op |-> op, path |-> <<"spec", field>>, value |-> v2, from |-> <<"spec", from>>]

MCTemplate == (<<"spec", "deadline">> :> v1) @@ (<<"spec", "node">> :> None)
MCParams == (<<"spec", "deadline">> :> v3)

MCRequest(patches) == [params |-> MCParams, template |-> MCTemplate, patches |-> patches]

(* The Job controller patches both fields or none; the other worker's      *)
(* patch has a result of its own.                                          *)
MCRequests ==
  (job :> {MCRequest(<<>>)} \cup
            {MCRequest(<<MCPatch("add", "deadline", "deadline"), MCPatch(op, "node", "deadline")>>) :
               op \in Ops})
    @@ (cron :> {MCRequest(<<MCPatch("replace", "deadline", "deadline")>>)})

MCOutputs == {<<"out", "out">>, <<"err", "err", "out">>}
MCComplaints == {<<"err">>}
=============================================================================
