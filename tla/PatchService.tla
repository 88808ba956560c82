---------------------------- MODULE PatchService ----------------------------
(***************************************************************************)
(* What a call that patches is to the controllers, who take it for one     *)
(* step: every worker has its own request patched, patch by patch and as   *)
(* its user wrote it for the pod template (job_types.go, 272-274), and     *)
(* sees nothing of directories, processes and other workers.  Until        *)
(* something fails, a call fails only if a patch does not apply.           *)
(***************************************************************************)
EXTENDS Patches

CONSTANTS Workers, Requests

VARIABLES
  serving,   \* worker -> the request it waits for, or None
  progress,  \* worker -> its template as far as it is patched, or None
  answer,    \* worker -> the answer to its last request, or None
  calm       \* nothing has failed

vars == <<serving, progress, answer, calm>>

Init ==
  /\ serving = [w \in Workers |-> None] /\ progress = [w \in Workers |-> None]
  /\ answer = [w \in Workers |-> None]
  /\ calm = TRUE

Ask(w) ==
  /\ serving[w] = None
  /\ \E r \in Requests[w] :
       /\ progress' = [progress EXCEPT ![w] = [doc |-> r.template, left |-> r.patches]]
       /\ IF r.patches = <<>>
          THEN answer' = [answer EXCEPT ![w] = Seed(r)] /\ UNCHANGED serving
          ELSE answer' = [answer EXCEPT ![w] = None] /\ serving' = [serving EXCEPT ![w] = r]
  /\ UNCHANGED calm

Apply(w) ==
  /\ serving[w] # None /\ progress[w] # None
  /\ progress' = [progress EXCEPT ![w] = ApplyNext(progress[w])]
  /\ UNCHANGED <<serving, answer, calm>>

(* The template is lost when the disk is full; what comes out is a batch   *)
(* Job, but not the one that was asked for.                                *)
Lose(w) ==
  /\ serving[w] # None
  /\ progress' = [progress EXCEPT ![w] = None]
  /\ calm' = FALSE
  /\ UNCHANGED <<serving, answer>>

Return(w, doc) ==
  /\ serving[w] # None
  /\ serving' = [serving EXCEPT ![w] = None]
  /\ answer' = [answer EXCEPT ![w] = doc]
  /\ UNCHANGED progress

Succeed(w) ==
  /\ \/ /\ progress[w] # None /\ progress[w].left = <<>> /\ progress[w].doc # Failed
        /\ Return(w, Embed(serving[w].params, progress[w].doc))
     \/ progress[w] = None /\ \E doc \in Manifest : Return(w, doc)
  /\ UNCHANGED calm

Fail(w) ==
  /\ Return(w, Failed)
  /\ \/ progress[w] = GivenUp /\ UNCHANGED calm
     \/ calm' = FALSE

Disturb == calm' = FALSE /\ UNCHANGED <<serving, progress, answer>>

Next ==
  \/ \E w \in Workers : Ask(w) \/ Apply(w) \/ Lose(w) \/ Succeed(w) \/ Fail(w)
  \/ Disturb

Spec == Init /\ [][Next]_vars
=============================================================================
