------------------------------ MODULE Patches ------------------------------
(***************************************************************************)
(* The patches of a Job (internal/construct/job.go, BatchJobSpec): the     *)
(* user writes them against the pod template, BatchJobSpec prefixes their  *)
(* paths and has them applied to the manifest of a whole batch Job.        *)
(*                                                                         *)
(* A document is a function from the paths of its fields, sequences of     *)
(* keys, to what they hold; a value is opaque.  The containers of the      *)
(* fields are always there.  A name may be a field both of a pod's spec    *)
(* and of a batch Job's spec, as activeDeadlineSeconds is.                 *)
(***************************************************************************)
EXTENDS Integers, Sequences

CONSTANTS
  Keys,        \* keys a path is made of
  PodFields,   \* fields of a pod's spec
  ParamFields, \* fields of a batch Job's spec that jobParams set
  Values,      \* what a field may hold
  None,        \* a field left unset
  Failed       \* the document of an operation that does not apply

ASSUME FieldAssumption ==
  /\ {"spec", "template"} \cup PodFields \cup ParamFields \subseteq Keys
  /\ "template" \notin ParamFields
ASSUME ValueAssumption == None \notin Values

Content == Values \cup {None}

InTemplate(path) == <<"spec", "template">> \o path

PodPaths == {<<"spec", f>> : f \in PodFields}
ParamPaths == {<<"spec", f>> : f \in ParamFields}
ManifestPaths == ParamPaths \cup {InTemplate(p) : p \in PodPaths}

Template == [PodPaths -> Content]
JobParams == [ParamPaths -> Content]
Manifest == [ManifestPaths -> Content]

Operations == {"add", "replace", "remove", "test", "copy", "move"}

Patch == [op : Operations, path : Seq(Keys), value : Values, from : Seq(Keys)]

(* What a controller asks BatchJobSpec to patch.                           *)
Request == [params : JobParams, template : Template, patches : Seq(Patch)]

ASSUME RequestAssumption == None \notin Request
ASSUME FailedAssumption == Failed \notin Template \cup Manifest \cup {None}

(* The batch Job before it is patched.                                     *)
Embed(params, template) ==
  [p \in ManifestPaths |->
     IF p \in ParamPaths THEN params[p] ELSE template[Tail(Tail(p))]]

Seed(r) == Embed(r.params, r.template)

(* Mutant: the paths stay as the user wrote them.                          *)
PathsAsGiven(patches) == patches

(* Only path is rewritten; from stays as the user wrote it.                *)
Rewrite(patches) ==
  [i \in DOMAIN patches |-> [patches[i] EXCEPT !.path = InTemplate(@)]]

(***************************************************************************)
(* Kustomize: the operations of RFC 6902, one after the other; the first   *)
(* that does not apply fails the whole.                                    *)
(***************************************************************************)
Has(doc, path) == path \in DOMAIN doc /\ doc[path] # None

Applies(doc, x) ==
  \/ x.op = "add" /\ x.path \in DOMAIN doc
  \/ x.op \in {"replace", "remove"} /\ Has(doc, x.path)
  \/ x.op = "test" /\ Has(doc, x.path) /\ doc[x.path] = x.value
  \/ x.op \in {"copy", "move"} /\ Has(doc, x.from) /\ x.path \in DOMAIN doc

Result(doc, x) ==
  CASE x.op \in {"add", "replace"} -> [doc EXCEPT ![x.path] = x.value]
    [] x.op = "remove" -> [doc EXCEPT ![x.path] = None]
    [] x.op = "copy" -> [doc EXCEPT ![x.path] = doc[x.from]]
    [] x.op = "move" -> [doc EXCEPT ![x.from] = None, ![x.path] = doc[x.from]]
    [] OTHER -> doc

(* A document and the operations still to be applied to it.                *)
GivenUp == [doc |-> Failed, left |-> <<>>]

Application(docs) == [doc : docs, left : Seq(Patch)] \cup {GivenUp}

ApplyNext(s) ==
  IF s.left = <<>> THEN s
  ELSE IF Applies(s.doc, Head(s.left))
  THEN [doc |-> Result(s.doc, Head(s.left)), left |-> Tail(s.left)]
  ELSE GivenUp
=============================================================================
