---------------------------- MODULE PatchRunner ----------------------------
(***************************************************************************)
(* PatchRunner.Patch (internal/kustomize/kustomize.go) and Command.Run     *)
(* (internal/kubectl/command.go), as BatchJobSpec calls them: a temporary  *)
(* directory with the manifest and the patches, kubectl kustomize run on   *)
(* it as a child process, its output read from two pipes.                  *)
(*                                                                         *)
(* The Job and the CronJob controller share one PatchRunner; each worker   *)
(* is in at most one call.  The kubectl process is the environment.        *)
(***************************************************************************)
EXTENDS Patches

CONSTANTS
  Workers,    \* the controllers that patch
  Requests,   \* worker -> what it may ask for
  Dirs,       \* names of temporary directories, enough for all
  Cap,        \* chunks of output a pipe holds
  Outputs,    \* what kubectl writes, chunk by chunk, when it succeeds
  Complaints, \* and when it fails
  Faults      \* bound: calls of the system that fail

Streams == {"out", "err"}

ASSUME AskAssumption == Requests \in [Workers -> SUBSET Request]
ASSUME CapAssumption == Cap \in Nat \ {0}
ASSUME OutputAssumption ==
  Outputs \subseteq Seq(Streams) /\ Complaints \subseteq Seq(Streams)
ASSUME FaultAssumption == Faults \in Nat

VARIABLES
  step,    \* where the worker's call stands
  input,   \* the request of the call, or of the last one
  answer,  \* what the last call returned, None while there is none
  dir,     \* the directory of the call
  tmp,     \* directory -> its files; None: there is none, Failed: left behind
  child,   \* the kubectl process of the call
  meant,   \* history: the patches applied to the template itself, None when
           \* a write was cut short
  stopped, \* the manager is shutting down: its context is cancelled
  faults   \* what is left of the bound

callVars == <<step, input, answer, dir>>
vars == <<callVars, tmp, child, meant, stopped, faults>>

Files == {"resource", "patches", "kustomization"}
WithChild == {"stdout", "stderr", "wait", "abort"}
WithDir == Files \cup {"start", "remove"} \cup WithChild
Steps == {"idle", "mkdir"} \cup WithDir

Written == [of : Request, whole : BOOLEAN]
Directory == [Files -> Written \cup {None}]

(* A kubectl process: run is the document it patches, todo what it still   *)
(* writes, pipe what nobody has read yet.                                  *)
Process ==
  [at : {"loading", "patching", "writing", "exited", "killed"},
   run : Application(Manifest),
   todo : Seq(Streams),
   pipe : [Streams -> 0 .. Cap]]

ASSUME AbsentAssumption ==
  /\ None \notin Dirs \cup Written \cup Directory \cup Process \cup Application(Template)
  /\ Failed \notin Directory

TypeOK ==
  /\ step \in [Workers -> Steps]
  /\ input \in [Workers -> Request \cup {None}]
  /\ answer \in [Workers -> Manifest \cup {Failed, None}]
  /\ dir \in [Workers -> Dirs \cup {None}]
  /\ \A w \in Workers : step[w] # "idle" => input[w] # None
  /\ \A w \in Workers : step[w] \in WithDir => dir[w] # None
  /\ tmp \in [Dirs -> Directory \cup {None, Failed}]
  /\ child \in [Workers -> Process \cup {None}]
  /\ meant \in [Workers -> Application(Template) \cup {None}]
  /\ stopped \in BOOLEAN
  /\ faults \in Nat

Fault == faults > 0 /\ faults' = faults - 1

Goto(w, next) == step' = [step EXCEPT ![w] = next]

Answer(w, doc) == answer' = [answer EXCEPT ![w] = doc]

Become(w, process) == child' = [child EXCEPT ![w] = process]

(* Mutant: the directory is only removed after a success.                  *)
FailWithoutRemoving(w) == Answer(w, Failed) /\ Goto(w, "idle")

(* An error of the call, which leaves it through the deferred RemoveAll.   *)
Fail(w) == Answer(w, Failed) /\ Goto(w, "remove")

(***************************************************************************)
(* A worker in BatchJobSpec.  Without patches there is nothing to call.    *)
(***************************************************************************)
Ask(w) ==
  /\ step[w] = "idle"
  /\ \E r \in Requests[w] :
       /\ input' = [input EXCEPT ![w] = r]
       /\ meant' = [meant EXCEPT ![w] = [doc |-> r.template, left |-> r.patches]]
       /\ \/ r.patches = <<>> /\ Answer(w, Seed(r)) /\ UNCHANGED step
          \/ r.patches # <<>> /\ Answer(w, None) /\ Goto(w, "mkdir")
  /\ UNCHANGED <<dir, tmp, child, stopped, faults>>

NewDir(w, d) ==
  /\ dir' = [dir EXCEPT ![w] = d]
  /\ tmp' = [tmp EXCEPT ![d] = [f \in Files |-> None]]

(* Mutant: every call uses the same directory.                             *)
MakeSharedDir(w) ==
  /\ step[w] = "mkdir"
  /\ NewDir(w, CHOOSE d \in Dirs : TRUE) /\ Goto(w, "resource")
  /\ UNCHANGED <<input, answer, child, meant, stopped, faults>>

(* MkdirTemp picks a name that is not in use; they are all alike.          *)
Unused == {d \in Dirs : tmp[d] = None}

(* Mutant: the error of MkdirTemp is not looked at.                        *)
MakeDirAnyway(w) ==
  /\ step[w] = "mkdir"
  /\ \/ Unused # {} /\ NewDir(w, CHOOSE d \in Unused : TRUE) /\ UNCHANGED faults
     \/ Fault /\ UNCHANGED <<dir, tmp>>
  /\ Goto(w, "resource")
  /\ UNCHANGED <<input, answer, child, meant, stopped>>

MakeDir(w) ==
  /\ step[w] = "mkdir"
  /\ \/ /\ Unused # {} /\ NewDir(w, CHOOSE d \in Unused : TRUE)
        /\ Goto(w, "resource") /\ UNCHANGED <<answer, faults>>
     \/ /\ Fault
        /\ Answer(w, Failed) /\ Goto(w, "idle") /\ UNCHANGED <<dir, tmp>>
  /\ UNCHANGED <<input, child, meant, stopped>>

After == [resource |-> "patches", patches |-> "kustomization", kustomization |-> "start"]

(* writeToFile reports a file it cannot create; a write that is cut short  *)
(* goes unnoticed.                                                         *)
WriteFile(w) ==
  LET file == step[w]
      Write(whole) ==
        /\ tmp' = [tmp EXCEPT ![dir[w]][file] = [of |-> input[w], whole |-> whole]]
        /\ Goto(w, After[file]) /\ UNCHANGED answer
  IN  /\ file \in Files
      /\ \/ Write(TRUE) /\ UNCHANGED <<meant, faults>>
         \/ Fault /\ Write(FALSE) /\ meant' = [meant EXCEPT ![w] = None]
         \/ Fault /\ Fail(w) /\ UNCHANGED <<tmp, meant>>
      /\ UNCHANGED <<input, dir, child, stopped>>

(***************************************************************************)
(* Command.Run.                                                            *)
(***************************************************************************)
Launched ==
  [at |-> "loading", run |-> GivenUp, todo |-> <<>>,
   pipe |-> [s \in Streams |-> 0]]

(* Mutant: stderr is read first.                                           *)
StartReadingStderr(w) ==
  /\ step[w] = "start" /\ ~stopped
  /\ Become(w, Launched) /\ Goto(w, "stderr")
  /\ UNCHANGED <<input, answer, dir, tmp, meant, stopped, faults>>

(* Start fails at once when the context is already cancelled.              *)
StartCommand(w) ==
  /\ step[w] = "start"
  /\ \/ /\ ~stopped
        /\ Become(w, Launched) /\ Goto(w, "stdout") /\ UNCHANGED <<answer, faults>>
     \/ stopped /\ Fail(w) /\ UNCHANGED <<child, faults>>
     \/ Fault /\ Fail(w) /\ UNCHANGED child
  /\ UNCHANGED <<input, dir, tmp, meant, stopped>>

Ended(w) == child[w].at \in {"exited", "killed"}

(* io.ReadAll: to the end of one stream, whatever the other one holds; the *)
(* end comes when kubectl has.  A read that fails leaves Run after Wait.   *)
Read(w, stream, next) ==
  LET held == child[w].pipe[stream]
  IN  /\ \/ /\ held > 0
            /\ Become(w, [child[w] EXCEPT !.pipe[stream] = held - 1])
            /\ UNCHANGED <<step, faults>>
         \/ held = 0 /\ Ended(w) /\ Goto(w, next) /\ UNCHANGED <<child, faults>>
         \/ Fault /\ Goto(w, "abort") /\ UNCHANGED child
      /\ UNCHANGED <<input, answer, dir, tmp, meant, stopped>>

ReadStdout(w) == step[w] = "stdout" /\ Read(w, "out", "stderr")
ReadStderr(w) == step[w] = "stderr" /\ Read(w, "err", "wait")

(* Mutant: how kubectl ended is not looked at.                             *)
WaitForOutput(w) ==
  /\ step[w] = "wait"
  /\ Ended(w) /\ Become(w, None)
  /\ Answer(w, child[w].run.doc)
  /\ Goto(w, "remove")
  /\ UNCHANGED <<input, dir, tmp, meant, stopped, faults>>

(* The manifest counts only when kubectl exited with status 0.             *)
Wait(w) ==
  /\ step[w] = "wait"
  /\ Ended(w) /\ Become(w, None)
  /\ Answer(w, IF child[w].at = "exited" THEN child[w].run.doc ELSE Failed)
  /\ Goto(w, "remove")
  /\ UNCHANGED <<input, dir, tmp, meant, stopped, faults>>

(* Mutant: a failed read returns without Wait.                             *)
AbortWithoutWait(w) ==
  /\ step[w] = "abort" /\ Fail(w)
  /\ UNCHANGED <<input, dir, tmp, child, meant, stopped, faults>>

(* A failed read: Wait, while nobody reads any more.                       *)
Abort(w) ==
  /\ step[w] = "abort"
  /\ Ended(w) /\ Become(w, None)
  /\ Fail(w)
  /\ UNCHANGED <<input, dir, tmp, meant, stopped, faults>>

(* The deferred RemoveAll; its error is ignored.                           *)
RemoveDir(w) ==
  /\ step[w] = "remove"
  /\ \/ tmp' = [tmp EXCEPT ![dir[w]] = None] /\ UNCHANGED faults
     \/ Fault /\ tmp' = [tmp EXCEPT ![dir[w]] = Failed]
  /\ dir' = [dir EXCEPT ![w] = None]
  /\ Goto(w, "idle")
  /\ UNCHANGED <<input, answer, child, meant, stopped>>

Call(w) ==
  \/ MakeDir(w) \/ WriteFile(w) \/ StartCommand(w)
  \/ ReadStdout(w) \/ ReadStderr(w) \/ Wait(w) \/ Abort(w)
  \/ RemoveDir(w)

(***************************************************************************)
(* kubectl kustomize: it reads the directory, applies the patches, writes  *)
(* its output and exits; it is killed when the context is cancelled.       *)
(***************************************************************************)
(* What there is to apply, and what to apply it to; a file cut short holds *)
(* less: the manifest ends with the template, the kustomization with the   *)
(* patches.                                                                *)
Loads(files) ==
  LET Whole(f) == files[f].whole
      patches == Rewrite(files["patches"].of.patches)
      cuts == IF Whole("patches") THEN {Len(patches)} ELSE 0 .. Len(patches)
      skips == IF Whole("kustomization") THEN {} ELSE {0}
      losses == IF Whole("resource") THEN {{}} ELSE {{}, ManifestPaths \ ParamPaths, ManifestPaths}
      seed == Seed(files["resource"].of)
  IN  {[doc |-> [p \in ManifestPaths |-> IF p \in lost THEN None ELSE seed[p]],
        left |-> SubSeq(patches, 1, n)] : lost \in losses, n \in cuts \cup skips}

Complete(files) == \A f \in Files : files[f] # None /\ files[f].whole

(* Load what is there, or fail: over an incomplete directory or otherwise. *)
Load(w) ==
  LET files == tmp[dir[w]]
  IN  /\ child[w].at = "loading"
      /\ \/ /\ \A f \in Files : files[f] # None
            /\ \E run \in Loads(files) :
                 Become(w, [child[w] EXCEPT !.at = "patching", !.run = run])
            /\ UNCHANGED faults
         \/ /\ (~Complete(files) /\ UNCHANGED faults) \/ Fault
            /\ Become(w, [child[w] EXCEPT !.at = "patching"])
      /\ UNCHANGED meant

(* The same patch, as its user wrote it, goes to the template of meant.    *)
ApplyPatch(w) ==
  /\ child[w].at = "patching" /\ child[w].run.left # <<>>
  /\ Become(w, [child[w] EXCEPT !.run = ApplyNext(child[w].run)])
  /\ \/ meant[w] = None /\ UNCHANGED meant
     \/ meant[w] # None /\ meant' = [meant EXCEPT ![w] = ApplyNext(meant[w])]
  /\ UNCHANGED faults

Speak(w) ==
  /\ child[w].at = "patching" /\ child[w].run.left = <<>>
  /\ \E words \in IF child[w].run.doc = Failed THEN Complaints ELSE Outputs :
       Become(w, [child[w] EXCEPT !.at = "writing", !.todo = words])
  /\ UNCHANGED <<meant, faults>>

(* A full pipe makes it wait.                                              *)
WriteChunk(w) ==
  /\ child[w].at = "writing" /\ child[w].todo # <<>>
  /\ LET stream == Head(child[w].todo)
         held == child[w].pipe[stream]
     IN  /\ held < Cap
         /\ Become(w, [child[w] EXCEPT !.todo = Tail(child[w].todo), !.pipe[stream] = held + 1])
  /\ UNCHANGED <<meant, faults>>

Exit(w) ==
  /\ child[w].at = "writing" /\ child[w].todo = <<>>
  /\ Become(w, [child[w] EXCEPT !.at = "exited"])
  /\ UNCHANGED <<meant, faults>>

Kubectl(w) ==
  /\ child[w] # None
  /\ Load(w) \/ ApplyPatch(w) \/ Speak(w) \/ WriteChunk(w) \/ Exit(w)
  /\ UNCHANGED <<callVars, tmp, stopped>>

(* Through the context the command was made with: until kubectl has been   *)
(* waited for, Wait reports the context's error, also for a kubectl that   *)
(* had come to its end before.                                             *)
Kill(w) ==
  /\ stopped
  /\ child[w] # None /\ child[w].at # "killed"
  /\ Become(w, [child[w] EXCEPT !.at = "killed"])
  /\ UNCHANGED <<callVars, tmp, meant, stopped, faults>>

(* The manager is told to stop; the workers finish what they are at.       *)
Stop ==
  /\ ~stopped /\ stopped' = TRUE
  /\ UNCHANGED <<callVars, tmp, child, meant, faults>>

Init ==
  /\ step = [w \in Workers |-> "idle"]
  /\ input = [w \in Workers |-> None] /\ answer = [w \in Workers |-> None]
  /\ dir = [w \in Workers |-> None] /\ tmp = [d \in Dirs |-> None]
  /\ child = [w \in Workers |-> None] /\ meant = [w \in Workers |-> None]
  /\ stopped = FALSE
  /\ faults = Faults

Next ==
  \/ \E w \in Workers : Ask(w) \/ Call(w) \/ Kubectl(w) \/ Kill(w)
  \/ Stop

Spec == Init /\ [][Next]_vars

(***************************************************************************)
(* A call goes on whenever it can, kubectl runs and is killed; requests    *)
(* and the shutdown may never come.                                        *)
(***************************************************************************)
Fairness ==
  \A w \in Workers :
    WF_vars(Call(w)) /\ WF_vars(Kubectl(w)) /\ WF_vars(Kill(w))

FairSpec == Spec /\ Fairness

-----------------------------------------------------------------------------
(***************************************************************************)
(* Properties.                                                             *)
(***************************************************************************)

(* A batch Job comes back with the patches its own user wrote, applied to  *)
(* the template, and its parameters untouched, whatever another worker     *)
(* patches meanwhile, unless a write was cut short (job.go 128-133 and     *)
(* 172-176, job_types.go 272-274, kustomize.go 58-77).                     *)
PatchedAsWritten ==
  \A w \in Workers :
    step[w] = "idle" /\ answer[w] \notin {None, Failed} /\ meant[w] # None =>
      meant[w].left = <<>> /\ answer[w] = Embed(input[w].params, meant[w].doc)

(* What happens in a call, with its directory, process and pipes, is to    *)
(* its caller what PatchService says: no answer before the request is      *)
(* served, none that is taken back or that another worker's call, a failed *)
(* step or a killed kubectl has spoilt, and no error without a reason      *)
(* (job.go 128-133, kustomize.go 58-103, command.go 49-83).                *)
Service == INSTANCE PatchService WITH
  serving <- [w \in Workers |-> IF step[w] \in {"idle", "remove"} THEN None ELSE input[w]],
  progress <- meant,
  calm <- faults = Faults /\ ~stopped

ServesPatches == Service!Spec

(* No call removes its directory or returns before its kubectl has ended   *)
(* and been waited for (command.go 66-80 under kustomize.go 63-65).        *)
ChildReaped ==
  \A w \in Workers : child[w] # None <=> step[w] \in WithChild

(* The directories left are those of the calls under way, one each, and    *)
(* those that could not be removed: no error path leaks one, no call is in *)
(* another one's directory (kustomize.go 59-69).                           *)
CleansUp ==
  \A d \in Dirs :
    LET users == {w \in Workers : step[w] \in WithDir /\ dir[w] = d}
    IN  /\ tmp[d] \notin {None, Failed} <=> users # {}
        /\ \A v, w \in users : v = w

(* kubectl waits for a reader and its reader for kubectl: stderr is full   *)
(* while stdout is read to its end, or nobody reads after a failed read.   *)
Blocked(w) ==
  /\ child[w] # None /\ child[w].at = "writing" /\ child[w].todo # <<>>
  /\ LET stream == Head(child[w].todo)
     IN  /\ child[w].pipe[stream] = Cap
         /\ step[w] = "abort" \/ (step[w] = "stdout" /\ stream = "err")

(* Every call returns, unless kubectl fills the pipe that is not read; and *)
(* when the manager stops a blocked call returns as well: the context      *)
(* kills kubectl and its pipes come to their end (command.go 53, 66-80).   *)
Returns ==
  \A w \in Workers :
    step[w] # "idle" ~> step[w] = "idle" \/ (Blocked(w) /\ ~stopped)
=============================================================================
