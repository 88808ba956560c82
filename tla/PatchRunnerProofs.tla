------------------------- MODULE PatchRunnerProofs -------------------------
(* Theorems about PatchRunner, for any number of workers, any documents    *)
(* and patches, whatever fails and whenever the manager stops.             *)
EXTENDS PatchRunner, TLAPS

(***************************************************************************)
(* Documents and patches.                                                  *)
(***************************************************************************)
(* A path in the template and the same path in the manifest.               *)
LEMMA InTemplateTail ==
  ASSUME NEW path \in Seq(Keys)
  PROVE  Tail(Tail(InTemplate(path))) = path
<1>1. Tail(InTemplate(path)) = <<"template">> \o path
  BY DEF InTemplate
<1>2. Tail(<<"template">> \o path) = path
  BY SMTT(30)
<1> QED BY <1>1, <1>2

(* No parameter's path is the path of a template's field.                  *)
LEMMA InTemplateNotParam ==
  ASSUME NEW path \in Seq(Keys)
  PROVE  InTemplate(path) \notin ParamPaths
<1> SUFFICES ASSUME NEW f \in ParamFields, InTemplate(path) = <<"spec", f>>
             PROVE  FALSE
  BY DEF ParamPaths
<1>1. Tail(InTemplate(path)) = <<"template">> \o path /\ Tail(<<"spec", f>>) = <<f>>
  BY DEF InTemplate
<1>2. (<<"template">> \o path)[1] = "template" /\ <<f>>[1] = f
  OBVIOUS
<1> QED BY <1>1, <1>2, FieldAssumption

LEMMA PodPathsAreSeqs == PodPaths \subseteq Seq(Keys)
<1> SUFFICES ASSUME NEW f \in PodFields PROVE <<"spec", f>> \in Seq(Keys)
  BY DEF PodPaths
<1>1. "spec" \in Keys /\ f \in Keys
  BY FieldAssumption
<1> QED BY <1>1

(* A path is a field of the template when the prefixed one is a field of   *)
(* the manifest, and then both documents hold the same.                    *)
LEMMA EmbedTemplate ==
  ASSUME NEW params \in JobParams, NEW template \in Template, NEW path \in Seq(Keys)
  PROVE  /\ InTemplate(path) \in ManifestPaths <=> path \in PodPaths
         /\ path \in PodPaths =>
              Embed(params, template)[InTemplate(path)] = template[path]
<1>1. ASSUME InTemplate(path) \in ManifestPaths PROVE path \in PodPaths
  <2>1. PICK p \in PodPaths : InTemplate(path) = InTemplate(p)
    BY <1>1, InTemplateNotParam DEF ManifestPaths
  <2> QED BY <2>1, InTemplateTail, PodPathsAreSeqs
<1>2. path \in PodPaths => InTemplate(path) \in ManifestPaths
  BY DEF ManifestPaths
<1>3. ASSUME path \in PodPaths
      PROVE  Embed(params, template)[InTemplate(path)] = template[path]
  BY <1>2, <1>3, InTemplateNotParam, InTemplateTail DEF Embed
<1> QED BY <1>1, <1>2, <1>3

LEMMA EmbedType ==
  ASSUME NEW params \in JobParams, NEW template \in Template
  PROVE  Embed(params, template) \in Manifest
<1> SUFFICES ASSUME NEW p \in ManifestPaths
             PROVE  (IF p \in ParamPaths THEN params[p] ELSE template[Tail(Tail(p))]) \in Content
  BY DEF Embed, Manifest
<1>1. CASE p \in ParamPaths
  BY <1>1 DEF JobParams
<1>2. CASE p \notin ParamPaths
  <2>1. PICK q \in PodPaths : p = InTemplate(q)
    BY <1>2 DEF ManifestPaths
  <2>2. Tail(Tail(p)) = q
    BY <2>1, InTemplateTail, PodPathsAreSeqs
  <2> QED BY <1>2, <2>2 DEF Template
<1> QED BY <1>1, <1>2

(* Changing a field of the template is changing it in the manifest.        *)
LEMMA EmbedUpdate ==
  ASSUME NEW params \in JobParams, NEW template \in Template,
         NEW path \in PodPaths, NEW c \in Content
  PROVE  [Embed(params, template) EXCEPT ![InTemplate(path)] = c]
           = Embed(params, [template EXCEPT ![path] = c])
<1> DEFINE new == [template EXCEPT ![path] = c]
           whole == [Embed(params, template) EXCEPT ![InTemplate(path)] = c]
<1>1. new \in Template
  BY DEF Template
<1>3. ASSUME NEW p \in ManifestPaths PROVE whole[p] = Embed(params, new)[p]
  <2>1. CASE p \in ParamPaths
    <3>1. p # InTemplate(path)
      BY <2>1, InTemplateNotParam, PodPathsAreSeqs
    <3> QED BY <2>1, <3>1 DEF Embed
  <2>2. CASE p \notin ParamPaths
    <3>1. PICK q \in PodPaths : p = InTemplate(q)
      BY <2>2 DEF ManifestPaths
    <3>2. Tail(Tail(p)) = q
      BY <3>1, InTemplateTail, PodPathsAreSeqs
    <3>3. p = InTemplate(path) <=> q = path
      BY <3>1, InTemplateTail, PodPathsAreSeqs
    <3>4. Embed(params, new)[p] = new[q] /\ Embed(params, template)[p] = template[q]
      BY <2>2, <3>2 DEF Embed
    <3>5. new[q] = IF q = path THEN c ELSE template[q]
      BY DEF Template
    <3>6. whole[p] = IF p = InTemplate(path) THEN c ELSE Embed(params, template)[p]
      BY DEF Embed
    <3> QED BY <3>3, <3>4, <3>5, <3>6
  <2> QED BY <2>1, <2>2
<1>4. whole \in Manifest /\ Embed(params, new) \in Manifest
  BY <1>1, EmbedType DEF Manifest
<1> HIDE DEF whole, new
<1>5. whole = Embed(params, new)
  BY <1>3, <1>4 DEF Manifest
<1> QED BY <1>5 DEF whole, new

LEMMA ResultType ==
  ASSUME NEW D, NEW doc \in [D -> Content], NEW x \in Patch, Applies(doc, x)
  PROVE  Result(doc, x) \in [D -> Content]
<1> USE DEF Content, Applies, Has
<1>1. x.op \in Operations /\ x.value \in Content
  BY DEF Patch
<1>2. CASE x.op \in {"add", "replace"}
  BY <1>1, <1>2 DEF Result
<1>3. CASE x.op = "remove"
  BY <1>3 DEF Result
<1>4. CASE x.op = "copy"
  <2>1. x.from \in D /\ doc[x.from] \in Values \cup {None}
    BY <1>4
  <2>2. Result(doc, x) = [doc EXCEPT ![x.path] = doc[x.from]]
    BY <1>4 DEF Result
  <2> QED BY <2>1, <2>2
<1>5. CASE x.op = "move"
  BY <1>5 DEF Result
<1>6. CASE x.op = "test"
  BY <1>6 DEF Result
<1> QED BY <1>1, <1>2, <1>3, <1>4, <1>5, <1>6 DEF Operations

LEMMA ApplyNextType ==
  ASSUME NEW D, NEW s \in Application([D -> Content])
  PROVE  ApplyNext(s) \in Application([D -> Content])
<1>1. CASE s.left = <<>>
  BY <1>1 DEF ApplyNext
<1>2. CASE s.left # <<>>
  <2>1. s \in [doc : [D -> Content], left : Seq(Patch)]
    BY <1>2 DEF Application, GivenUp
  <2>2. Head(s.left) \in Patch /\ Tail(s.left) \in Seq(Patch)
    BY <1>2, <2>1
  <2>3. CASE Applies(s.doc, Head(s.left))
    <3>1. Result(s.doc, Head(s.left)) \in [D -> Content]
      BY <2>1, <2>2, <2>3, ResultType
    <3> QED BY <1>2, <2>2, <2>3, <3>1 DEF ApplyNext, Application
  <2>4. CASE ~Applies(s.doc, Head(s.left))
    BY <1>2, <2>4 DEF ApplyNext, Application
  <2> QED BY <2>3, <2>4
<1> QED BY <1>1, <1>2

Rewritten(x) == [x EXCEPT !.path = InTemplate(@)]

LEMMA RewrittenType ==
  ASSUME NEW x \in Patch
  PROVE  /\ Rewritten(x) \in Patch
         /\ Rewritten(x).op = x.op /\ Rewritten(x).value = x.value
         /\ Rewritten(x).path = InTemplate(x.path)
<1>1. x.path \in Seq(Keys) /\ <<"spec", "template">> \in Seq(Keys)
  BY FieldAssumption DEF Patch
<1>2. InTemplate(x.path) \in Seq(Keys)
  BY <1>1 DEF InTemplate
<1> QED BY <1>2 DEF Rewritten, Patch

LEMMA RewriteType ==
  ASSUME NEW s \in Seq(Patch)
  PROVE  /\ Rewrite(s) \in Seq(Patch) /\ Len(Rewrite(s)) = Len(s)
         /\ \A i \in 1 .. Len(s) : Rewrite(s)[i] = Rewritten(s[i])
<1>1. \A i \in 1 .. Len(s) : s[i] \in Patch
  OBVIOUS
<1>2. Rewrite(s) = [i \in 1 .. Len(s) |-> Rewritten(s[i])]
  BY DEF Rewrite, Rewritten
<1>3. \A i \in 1 .. Len(s) : Rewritten(s[i]) \in Patch
  BY <1>1, RewrittenType
<1>4. Len(s) \in Nat
  OBVIOUS
<1> QED BY <1>2, <1>3, <1>4

(* The patches are rewritten one by one.                                   *)
LEMMA RewriteNext ==
  ASSUME NEW s \in Seq(Patch), s # <<>>
  PROVE  /\ Rewrite(s) # <<>>
         /\ Head(Rewrite(s)) = Rewritten(Head(s))
         /\ Tail(Rewrite(s)) = Rewrite(Tail(s))
<1>1. Len(s) >= 1 /\ Tail(s) \in Seq(Patch) /\ Len(Tail(s)) = Len(s) - 1
  OBVIOUS
<1>2. Rewrite(s) # <<>> /\ Head(Rewrite(s)) = Rewritten(Head(s))
  BY <1>1, RewriteType
<1>3. /\ Tail(Rewrite(s)) \in Seq(Patch) /\ Rewrite(Tail(s)) \in Seq(Patch)
      /\ Len(Tail(Rewrite(s))) = Len(Rewrite(Tail(s)))
  <2>1. Rewrite(s) \in Seq(Patch) /\ Len(Rewrite(s)) = Len(s)
    BY RewriteType
  <2>2. Rewrite(Tail(s)) \in Seq(Patch) /\ Len(Rewrite(Tail(s))) = Len(Tail(s))
    BY <1>1, RewriteType
  <2> QED BY <1>1, <1>2, <2>1, <2>2
<1>4. ASSUME NEW i \in 1 .. Len(s) - 1
      PROVE  Tail(Rewrite(s))[i] = Rewrite(Tail(s))[i]
  <2>1. Tail(Rewrite(s))[i] = Rewrite(s)[i + 1] /\ Tail(s)[i] = s[i + 1]
    BY <1>1, <1>2, RewriteType
  <2>2. Rewrite(s)[i + 1] = Rewritten(s[i + 1])
    BY <1>1, RewriteType
  <2>3. Rewrite(Tail(s))[i] = Rewritten(Tail(s)[i])
    BY <1>1, RewriteType
  <2> QED BY <2>1, <2>2, <2>3
<1>5. Len(Tail(Rewrite(s))) = Len(s) - 1
  BY <1>1, <1>3, RewriteType
<1> QED BY <1>2, <1>3, <1>4, <1>5

(***************************************************************************)
(* A patch that is neither a copy nor a move does to the manifest what its *)
(* user wanted it to do to the template.                                   *)
(***************************************************************************)
Plain(x) == x.op \notin {"copy", "move"}

LEMMA PatchCommutes ==
  ASSUME NEW params \in JobParams, NEW template \in Template,
         NEW x \in Patch, Plain(x)
  PROVE  /\ Applies(Embed(params, template), Rewritten(x)) <=> Applies(template, x)
         /\ Applies(template, x) =>
              Result(Embed(params, template), Rewritten(x))
                = Embed(params, Result(template, x))
<1> DEFINE whole == Embed(params, template)
           y == Rewritten(x)
<1>1. DOMAIN whole = ManifestPaths /\ DOMAIN template = PodPaths
  BY DEF Embed, Template
<1>2. y.op = x.op /\ y.value = x.value /\ y.path = InTemplate(x.path)
  BY RewrittenType
<1>3. x.path \in Seq(Keys) /\ x.op \in {"add", "replace", "remove", "test"}
      /\ x.value \in Content
  BY DEF Patch, Plain, Operations, Content
<1>4. y.path \in DOMAIN whole <=> x.path \in DOMAIN template
  BY <1>1, <1>2, <1>3, EmbedTemplate
<1>5. x.path \in DOMAIN template => whole[y.path] = template[x.path]
  BY <1>1, <1>2, <1>3, EmbedTemplate
<1>6. \A c \in Content : x.path \in DOMAIN template =>
        [whole EXCEPT ![y.path] = c] = Embed(params, [template EXCEPT ![x.path] = c])
  <2>1. y.path = InTemplate(x.path)
    BY <1>2
  <2>2. ASSUME NEW c \in Content, x.path \in PodPaths
        PROVE  [whole EXCEPT ![InTemplate(x.path)] = c]
                 = Embed(params, [template EXCEPT ![x.path] = c])
    <3> DEFINE path == x.path
    <3>1. path \in PodPaths
      BY <2>2
    <3> HIDE DEF path
    <3>2. [Embed(params, template) EXCEPT ![InTemplate(path)] = c]
            = Embed(params, [template EXCEPT ![path] = c])
      BY <3>1, EmbedUpdate
    <3> QED BY <3>2 DEF path
  <2> HIDE DEF y, whole
  <2> QED BY <1>1, <2>1, <2>2
<1>7. None \in Content
  BY DEF Content
<1> HIDE DEF whole, y
<1>8. Applies(whole, y) <=> Applies(template, x)
  BY <1>2, <1>3, <1>4, <1>5 DEF Applies, Has
<1>9. ASSUME Applies(template, x)
      PROVE  Result(whole, y) = Embed(params, Result(template, x))
  <2>1. x.path \in DOMAIN template
    BY <1>3, <1>9 DEF Applies, Has
  <2>2. CASE x.op \in {"add", "replace"}
    BY <1>2, <1>3, <1>6, <2>1, <2>2 DEF Result
  <2>3. CASE x.op = "remove"
    BY <1>2, <1>6, <1>7, <2>1, <2>3 DEF Result
  <2>4. CASE x.op = "test"
    BY <1>2, <2>4 DEF Result, whole
  <2> QED BY <1>3, <2>2, <2>3, <2>4
<1> QED BY <1>8, <1>9 DEF whole, y

(***************************************************************************)
(* Processes and directories: one invariant for the types, for who has a   *)
(* child process and for who has a directory.                              *)
(***************************************************************************)
Sound == TypeOK /\ ChildReaped /\ CleansUp

LEMMA OwnDir ==
  ASSUME Sound, NEW w \in Workers, step[w] \in WithDir
  PROVE  /\ dir[w] \in Dirs /\ tmp[dir[w]] \in Directory
         /\ \A v \in Workers : step[v] \in WithDir /\ dir[v] = dir[w] => v = w
<1>1. dir[w] \in Dirs
  BY DEF Sound, TypeOK
<1>2. tmp[dir[w]] \notin {None, Failed}
  BY <1>1 DEF Sound, CleansUp
<1> QED BY <1>1, <1>2 DEF Sound, TypeOK, CleansUp

LEMMA OwnChild ==
  ASSUME Sound, NEW w \in Workers, step[w] \in WithChild \/ child[w] # None
  PROVE  child[w] \in Process /\ step[w] \in WithChild /\ step[w] \in WithDir
BY DEF Sound, TypeOK, ChildReaped, WithDir

LEMMA DirsKept ==
  ASSUME CleansUp, dir' = dir,
         \A w \in Workers : step'[w] \in WithDir <=> step[w] \in WithDir,
         \A d \in Dirs : tmp'[d] \in {None, Failed} <=> tmp[d] \in {None, Failed}
  PROVE  CleansUp'
<1> SUFFICES ASSUME NEW d \in Dirs
    PROVE  LET users == {w \in Workers : step'[w] \in WithDir /\ dir'[w] = d}
           IN  /\ tmp'[d] \notin {None, Failed} <=> users # {}
               /\ \A v, w \in users : v = w
  BY DEF CleansUp
<1>1. {w \in Workers : step'[w] \in WithDir /\ dir'[w] = d}
        = {w \in Workers : step[w] \in WithDir /\ dir[w] = d}
  OBVIOUS
<1> QED BY <1>1 DEF CleansUp

LEMMA ChildrenKept ==
  ASSUME ChildReaped,
         \A w \in Workers : step'[w] \in WithChild <=> step[w] \in WithChild,
         \A w \in Workers : child'[w] # None <=> child[w] # None
  PROVE  ChildReaped'
BY DEF ChildReaped

(* What a worker may load is a manifest and patches for it.                *)
LEMMA LoadsType ==
  ASSUME NEW files \in Directory, \A f \in Files : files[f] # None
  PROVE  Loads(files) \subseteq [doc : Manifest, left : Seq(Patch)]
<1> DEFINE patches == Rewrite(files["patches"].of.patches)
           seed == Seed(files["resource"].of)
<1>1. \A f \in Files : files[f] \in Written
  BY DEF Directory
<1>2. files["patches"].of \in Request /\ files["resource"].of \in Request
  BY <1>1 DEF Files, Written
<1>3. patches \in Seq(Patch)
  BY <1>2, RewriteType DEF Request
<1>4. seed \in Manifest
  BY <1>2, EmbedType DEF Request, Seed
<1>5. ASSUME NEW lost
      PROVE  [p \in ManifestPaths |-> IF p \in lost THEN None ELSE seed[p]] \in Manifest
  BY <1>4 DEF Manifest, Content
<1>6. ASSUME NEW n \in 0 .. Len(patches) PROVE SubSeq(patches, 1, n) \in Seq(Patch)
  BY <1>3, <1>6, SMTT(30)
<1>7. Len(patches) \in Nat
  BY <1>3
<1> HIDE DEF patches, seed
<1>8. ASSUME NEW run \in Loads(files)
      PROVE  run \in [doc : Manifest, left : Seq(Patch)]
  <2> DEFINE cuts == IF files["patches"].whole THEN {Len(patches)} ELSE 0 .. Len(patches)
             skips == IF files["kustomization"].whole THEN {} ELSE {0}
             losses == IF files["resource"].whole THEN {{}}
                       ELSE {{}, ManifestPaths \ ParamPaths, ManifestPaths}
  <2>1. PICK lost \in losses, n \in cuts \cup skips :
          run = [doc |-> [p \in ManifestPaths |-> IF p \in lost THEN None ELSE seed[p]],
                 left |-> SubSeq(patches, 1, n)]
    <3>1. Loads(files)
            = {[doc |-> [p \in ManifestPaths |-> IF p \in lost THEN None ELSE seed[p]],
                left |-> SubSeq(patches, 1, n)] : lost \in losses, n \in cuts \cup skips}
      BY DEF Loads, patches, seed
    <3> HIDE DEF losses, cuts, skips
    <3> QED BY <1>8, <3>1
  <2>2. n \in 0 .. Len(patches)
    BY <1>7, <2>1
  <2> QED BY <1>5, <1>6, <2>1, <2>2
<1> QED BY <1>8

LEMMA SoundInit == ASSUME Init PROVE Sound
<1>1. TypeOK
  BY FaultAssumption DEF Init, TypeOK, Steps, WithDir, Files, WithChild
<1>2. ChildReaped
  BY DEF Init, ChildReaped, WithChild
<1>3. CleansUp
  BY DEF Init, CleansUp, WithDir, Files, WithChild
<1> QED BY <1>1, <1>2, <1>3 DEF Sound

LEMMA SoundAsk ==
  ASSUME Sound, NEW w \in Workers, Ask(w)
  PROVE  Sound'
<1>1. PICK r \in Requests[w] :
        /\ input' = [input EXCEPT ![w] = r]
        /\ meant' = [meant EXCEPT ![w] = [doc |-> r.template, left |-> r.patches]]
        /\ \/ r.patches = <<>> /\ Answer(w, Seed(r)) /\ UNCHANGED step
           \/ r.patches # <<>> /\ Answer(w, None) /\ Goto(w, "mkdir")
  BY DEF Ask
<1>2. r \in Request
  BY AskAssumption
<1>3. Seed(r) \in Manifest /\ [doc |-> r.template, left |-> r.patches] \in Application(Template)
  BY <1>2, EmbedType DEF Seed, Request, Application
<1>4. step' \in [Workers -> Steps] /\ step[w] = "idle"
      /\ step' = [step EXCEPT ![w] = step'[w]] /\ step'[w] \in {"idle", "mkdir"}
  BY <1>1 DEF Ask, Goto, Sound, TypeOK, Steps
<1>5. TypeOK'
  <2>1. answer' \in [Workers -> Manifest \cup {Failed, None}]
    BY <1>1, <1>3 DEF Answer, Sound, TypeOK
  <2>2. input' \in [Workers -> Request \cup {None}]
        /\ meant' \in [Workers -> Application(Template) \cup {None}]
    BY <1>1, <1>2, <1>3 DEF Sound, TypeOK
  <2>3. /\ \A v \in Workers : step'[v] # "idle" => input'[v] # None
        /\ \A v \in Workers : step'[v] \in WithDir => dir'[v] # None
    <3>1. \A v \in Workers : v # w => step'[v] = step[v] /\ input'[v] = input[v]
      BY <1>1, <1>4 DEF Sound, TypeOK
    <3>2. input'[w] # None
      BY <1>1, <1>2, RequestAssumption DEF Sound, TypeOK
    <3>3. step'[w] \notin WithDir
      BY <1>4 DEF WithDir, Files, WithChild
    <3> QED BY <3>1, <3>2, <3>3 DEF Ask, Sound, TypeOK
  <2>4. UNCHANGED <<dir, tmp, child, stopped, faults>>
    BY DEF Ask
  <2> QED BY <1>4, <2>1, <2>2, <2>3, <2>4 DEF Sound, TypeOK
<1>6. \A v \in Workers : /\ step'[v] \in WithDir <=> step[v] \in WithDir
                         /\ step'[v] \in WithChild <=> step[v] \in WithChild
  BY <1>4 DEF Sound, TypeOK, WithDir, Files, WithChild
<1>7. CleansUp'
  BY <1>6, DirsKept DEF Ask, Sound
<1>8. ChildReaped'
  BY <1>6, ChildrenKept DEF Ask, Sound
<1> QED BY <1>5, <1>7, <1>8 DEF Sound

LEMMA SoundMakeDir ==
  ASSUME Sound, NEW w \in Workers, MakeDir(w)
  PROVE  Sound'
<1>1. CASE /\ Unused # {} /\ NewDir(w, CHOOSE d \in Unused : TRUE)
           /\ Goto(w, "resource") /\ UNCHANGED <<answer, faults>>
  <2> DEFINE d == CHOOSE d \in Unused : TRUE
  <2>1. d \in Dirs /\ tmp[d] = None
    BY <1>1 DEF Unused
  <2> HIDE DEF d
  <2>2. /\ dir' = [dir EXCEPT ![w] = d]
        /\ tmp' = [tmp EXCEPT ![d] = [f \in Files |-> None]]
        /\ step' = [step EXCEPT ![w] = "resource"]
    BY <1>1 DEF NewDir, Goto, d
  <2>3. step[w] = "mkdir" /\ UNCHANGED <<input, answer, child, meant, stopped, faults>>
    BY <1>1 DEF MakeDir
  <2>4. input[w] # None
    BY <2>3 DEF Sound, TypeOK
  <2>5. [f \in Files |-> None] \in Directory
    BY DEF Directory
  <2>6. TypeOK'
    <3>1. step' \in [Workers -> Steps]
      BY <2>2 DEF Sound, TypeOK, Steps, WithDir, Files
    <3>2. dir' \in [Workers -> Dirs \cup {None}]
      BY <2>1, <2>2 DEF Sound, TypeOK
    <3>3. tmp' \in [Dirs -> Directory \cup {None, Failed}]
      BY <2>1, <2>2, <2>5 DEF Sound, TypeOK
    <3>4. /\ \A v \in Workers : step'[v] # "idle" => input'[v] # None
          /\ \A v \in Workers : step'[v] \in WithDir => dir'[v] # None
      BY <2>1, <2>2, <2>3, <2>4, AbsentAssumption DEF Sound, TypeOK
    <3>5. UNCHANGED <<input, answer, child, meant, stopped, faults>>
      BY <2>3
    <3>6. /\ input' \in [Workers -> Request \cup {None}]
          /\ answer' \in [Workers -> Manifest \cup {Failed, None}]
          /\ child' \in [Workers -> Process \cup {None}]
          /\ meant' \in [Workers -> Application(Template) \cup {None}]
          /\ stopped' \in BOOLEAN /\ faults' \in Nat
      BY <3>5 DEF Sound, TypeOK
    <3> QED BY <3>1, <3>2, <3>3, <3>4, <3>6 DEF TypeOK
  <2>7. ChildReaped'
    BY <2>2, <2>3, ChildrenKept DEF Sound, TypeOK, WithChild
  <2>8. CleansUp'
    <3>1. SUFFICES ASSUME NEW e \in Dirs
          PROVE  LET users == {v \in Workers : step'[v] \in WithDir /\ dir'[v] = e}
                 IN  /\ tmp'[e] \notin {None, Failed} <=> users # {}
                     /\ \A u, v \in users : u = v
      BY DEF CleansUp
    <3> DEFINE old == {v \in Workers : step[v] \in WithDir /\ dir[v] = e}
               new == {v \in Workers : step'[v] \in WithDir /\ dir'[v] = e}
    <3>2. \A v \in Workers : v # w => step'[v] = step[v] /\ dir'[v] = dir[v]
      BY <2>2 DEF Sound, TypeOK
    <3>3. step[w] \notin WithDir /\ step'[w] \in WithDir /\ dir'[w] = d
      BY <2>2, <2>3 DEF Sound, TypeOK, WithDir, Files, WithChild
    <3>4. /\ tmp[e] \notin {None, Failed} <=> old # {}
          /\ \A u, v \in old : u = v
      BY DEF Sound, CleansUp
    <3>5. CASE e = d
      <4>1. old = {}
        BY <2>1, <3>4, <3>5
      <4>2. new = {w}
        BY <3>2, <3>3, <3>5, <4>1
      <4>3. tmp'[e] \notin {None, Failed}
        BY <2>1, <2>2, <2>5, <3>5, AbsentAssumption DEF Sound, TypeOK
      <4> QED BY <4>2, <4>3
    <3>6. CASE e # d
      <4>1. new = old
        BY <3>2, <3>3, <3>6
      <4>2. tmp'[e] = tmp[e]
        BY <2>2, <3>6 DEF Sound, TypeOK
      <4> QED BY <3>4, <4>1, <4>2
    <3> QED BY <3>5, <3>6
  <2> QED BY <2>6, <2>7, <2>8 DEF Sound
<1>2. CASE /\ Fault
           /\ Answer(w, Failed) /\ Goto(w, "idle") /\ UNCHANGED <<dir, tmp>>
  <2>1. step[w] = "mkdir" /\ UNCHANGED <<input, child, meant, stopped>>
    BY DEF MakeDir
  <2>2. /\ step' = [step EXCEPT ![w] = "idle"] /\ answer' = [answer EXCEPT ![w] = Failed]
        /\ faults' \in Nat
    BY <1>2 DEF Goto, Answer, Fault, Sound, TypeOK
  <2>3. TypeOK'
    BY <1>2, <2>1, <2>2 DEF Sound, TypeOK, Steps, WithDir, Files, WithChild
  <2>4. ChildReaped'
    BY <2>1, <2>2, ChildrenKept DEF Sound, TypeOK, WithChild
  <2>5. CleansUp'
    BY <1>2, <2>1, <2>2, DirsKept DEF Sound, TypeOK, WithDir, Files, WithChild
  <2> QED BY <2>3, <2>4, <2>5 DEF Sound
<1> QED BY <1>1, <1>2 DEF MakeDir

(* A step inside a call: it stays in its directory, changes no one else's  *)
(* and keeps or gains nothing but what the types allow.                    *)
LEMMA SoundStep ==
  ASSUME Sound, NEW w \in Workers, step[w] \in WithDir,
         NEW s \in WithDir, step' = [step EXCEPT ![w] = s],
         answer' = answer \/ \E doc \in Manifest \cup {Failed} : Answer(w, doc),
         NEW c \in Process \cup {None}, child' = [child EXCEPT ![w] = c],
         c # None <=> s \in WithChild,
         NEW m \in Application(Template) \cup {None}, meant' = [meant EXCEPT ![w] = m],
         NEW files \in Directory, tmp' = [tmp EXCEPT ![dir[w]] = files],
         faults' \in Nat, UNCHANGED <<input, dir, stopped>>
  PROVE  Sound'
<1>1. dir[w] \in Dirs /\ tmp[dir[w]] \in Directory
  BY OwnDir
<1>2. TypeOK'
  <2>1. step' \in [Workers -> Steps]
    BY DEF Sound, TypeOK, Steps
  <2>2. answer' \in [Workers -> Manifest \cup {Failed, None}]
    BY DEF Answer, Sound, TypeOK
  <2>3. child' \in [Workers -> Process \cup {None}]
    BY DEF Sound, TypeOK
  <2>4. meant' \in [Workers -> Application(Template) \cup {None}]
    BY DEF Sound, TypeOK
  <2>5. tmp' \in [Dirs -> Directory \cup {None, Failed}]
    BY <1>1 DEF Sound, TypeOK
  <2>6. /\ \A v \in Workers : step'[v] # "idle" => input'[v] # None
        /\ \A v \in Workers : step'[v] \in WithDir => dir'[v] # None
    BY DEF Sound, TypeOK, WithDir, Files, WithChild
  <2> QED BY <2>1, <2>2, <2>3, <2>4, <2>5, <2>6 DEF Sound, TypeOK
<1>3. ChildReaped'
  BY DEF Sound, TypeOK, ChildReaped
<1>4. CleansUp'
  <2>1. \A d \in Dirs : tmp'[d] \in {None, Failed} <=> tmp[d] \in {None, Failed}
    BY <1>1, AbsentAssumption DEF Sound, TypeOK
  <2>2. \A v \in Workers : step'[v] \in WithDir <=> step[v] \in WithDir
    BY DEF Sound, TypeOK
  <2> QED BY <2>1, <2>2, DirsKept DEF Sound
<1> QED BY <1>2, <1>3, <1>4 DEF Sound

(* What a step leaves alone is what it would write back.                   *)
LEMMA Unmoved ==
  ASSUME Sound, NEW w \in Workers, step[w] \in WithDir
  PROVE  /\ UNCHANGED child => child' = [child EXCEPT ![w] = child[w]]
         /\ UNCHANGED meant => meant' = [meant EXCEPT ![w] = meant[w]]
         /\ UNCHANGED tmp => tmp' = [tmp EXCEPT ![dir[w]] = tmp[dir[w]]]
         /\ UNCHANGED step => step' = [step EXCEPT ![w] = step[w]]
         /\ child[w] \in Process \cup {None}
         /\ meant[w] \in Application(Template) \cup {None}
         /\ faults \in Nat /\ (Fault => faults' \in Nat)
         /\ child[w] # None <=> step[w] \in WithChild
BY DEF Sound, TypeOK, ChildReaped, Fault

LEMMA SoundWriteFile ==
  ASSUME Sound, NEW w \in Workers, WriteFile(w)
  PROVE  Sound'
<1>1. step[w] \in Files /\ step[w] \in WithDir /\ step[w] \notin WithChild
  BY DEF WriteFile, WithDir, Files, WithChild
<1>2. UNCHANGED <<input, dir, child, stopped>>
  BY DEF WriteFile
<1>3. tmp[dir[w]] \in Directory
  BY <1>1, OwnDir
<1>4. ASSUME NEW whole \in BOOLEAN,
             tmp' = [tmp EXCEPT ![dir[w]][step[w]] = [of |-> input[w], whole |-> whole]],
             Goto(w, After[step[w]]), UNCHANGED answer,
             NEW m \in Application(Template) \cup {None}, meant' = [meant EXCEPT ![w] = m],
             faults' \in Nat
      PROVE  Sound'
  <2> DEFINE file == [of |-> input[w], whole |-> whole]
             files == [tmp[dir[w]] EXCEPT ![step[w]] = file]
             s == After[step[w]]
  <2>1. file \in Written
    BY <1>1 DEF Sound, TypeOK, Written, Files
  <2>2. files \in Directory
    BY <1>1, <1>3, <2>1 DEF Directory
  <2>3. tmp' = [tmp EXCEPT ![dir[w]] = files]
    BY <1>4
  <2>4. s \in WithDir /\ s \notin WithChild /\ step' = [step EXCEPT ![w] = s]
    BY <1>1, <1>4 DEF After, Goto, WithDir, Files, WithChild
  <2> HIDE DEF files, s
  <2> QED BY <1>1, <1>2, <1>4, <2>2, <2>3, <2>4, Unmoved, SoundStep
<1>5. CASE Fault /\ Fail(w) /\ UNCHANGED <<tmp, meant>>
  <2>1. step' = [step EXCEPT ![w] = "remove"] /\ Answer(w, Failed)
        /\ "remove" \in WithDir /\ "remove" \notin WithChild
    BY <1>5 DEF Fail, Goto, WithDir, WithChild
  <2> QED BY <1>1, <1>2, <1>3, <1>5, <2>1, Unmoved, SoundStep
<1>6. meant[w] \in Application(Template) \cup {None} /\ faults \in Nat
  BY <1>1, Unmoved
<1> QED BY <1>1, <1>4, <1>5, <1>6, Unmoved DEF WriteFile

LEMMA LaunchedType == Launched \in Process
<1>1. GivenUp \in Application(Manifest) /\ 0 \in 0 .. Cap /\ <<>> \in Seq(Streams)
  BY CapAssumption DEF Application
<1> QED BY <1>1 DEF Launched, Process

LEMMA SoundStartCommand ==
  ASSUME Sound, NEW w \in Workers, StartCommand(w)
  PROVE  Sound'
<1>1. step[w] = "start" /\ step[w] \in WithDir /\ step[w] \notin WithChild
      /\ UNCHANGED <<input, dir, tmp, meant, stopped>>
  BY DEF StartCommand, WithDir, WithChild
<1>2. tmp[dir[w]] \in Directory
  BY <1>1, OwnDir
<1>3. CASE ~stopped /\ Become(w, Launched) /\ Goto(w, "stdout") /\ UNCHANGED <<answer, faults>>
  <2>1. /\ step' = [step EXCEPT ![w] = "stdout"] /\ child' = [child EXCEPT ![w] = Launched]
        /\ "stdout" \in WithDir /\ "stdout" \in WithChild
        /\ Launched \in Process /\ Launched # None
    BY <1>3, LaunchedType, AbsentAssumption DEF Goto, Become, WithDir, WithChild
  <2> QED BY <1>1, <1>2, <1>3, <2>1, Unmoved, SoundStep
<1>4. CASE Fail(w) /\ UNCHANGED child /\ (UNCHANGED faults \/ Fault)
  <2>1. step' = [step EXCEPT ![w] = "remove"] /\ Answer(w, Failed)
        /\ "remove" \in WithDir /\ "remove" \notin WithChild
    BY <1>4 DEF Fail, Goto, WithDir, WithChild
  <2>2. faults' \in Nat
    BY <1>1, <1>4, Unmoved
  <2> QED BY <1>1, <1>2, <1>4, <2>1, <2>2, Unmoved, SoundStep
<1> QED BY <1>3, <1>4 DEF StartCommand

LEMMA SoundRead ==
  ASSUME Sound, NEW w \in Workers, step[w] \in WithChild,
         NEW stream \in Streams, NEW next \in WithChild, Read(w, stream, next)
  PROVE  Sound'
<1>1. child[w] \in Process /\ child[w] # None /\ step[w] \in WithDir /\ next \in WithDir
  BY OwnChild, AbsentAssumption DEF WithDir
<1>2. tmp[dir[w]] \in Directory /\ UNCHANGED <<input, answer, dir, tmp, meant, stopped>>
  BY <1>1, OwnDir DEF Read
<1>3. CASE /\ child[w].pipe[stream] > 0 /\ UNCHANGED <<step, faults>>
           /\ Become(w, [child[w] EXCEPT !.pipe[stream] = child[w].pipe[stream] - 1])
  <2> DEFINE c == [child[w] EXCEPT !.pipe[stream] = child[w].pipe[stream] - 1]
  <2>1. child[w].pipe[stream] \in 0 .. Cap /\ child[w].pipe \in [Streams -> 0 .. Cap]
    BY <1>1 DEF Process
  <2>2. [child[w].pipe EXCEPT ![stream] = child[w].pipe[stream] - 1] \in [Streams -> 0 .. Cap]
    BY <1>3, <2>1, CapAssumption
  <2>3. c \in Process
    BY <1>1, <2>2 DEF Process
  <2>4. c # None /\ child' = [child EXCEPT ![w] = c]
    BY <1>3, <2>3, AbsentAssumption DEF Become
  <2> HIDE DEF c
  <2> QED BY <1>1, <1>2, <1>3, <2>3, <2>4, Unmoved, SoundStep
<1>4. ASSUME NEW s \in WithChild, Goto(w, s), UNCHANGED child, UNCHANGED faults \/ Fault
      PROVE  Sound'
  <2>1. step' = [step EXCEPT ![w] = s] /\ s \in WithDir
    BY <1>4 DEF Goto, WithDir
  <2>2. faults' \in Nat
    BY <1>1, <1>4, Unmoved
  <2> QED BY <1>1, <1>2, <1>4, <2>1, <2>2, Unmoved, SoundStep
<1>5. "abort" \in WithChild
  BY DEF WithChild
<1> QED BY <1>3, <1>4, <1>5 DEF Read

(* The end of a run of kubectl: it is waited for and forgotten.            *)
LEMMA SoundWait ==
  ASSUME Sound, NEW w \in Workers, Wait(w) \/ Abort(w)
  PROVE  Sound'
<1>1. /\ step[w] \in WithChild /\ step[w] \in WithDir
      /\ step' = [step EXCEPT ![w] = "remove"]
      /\ child' = [child EXCEPT ![w] = None]
      /\ "remove" \in WithDir /\ "remove" \notin WithChild
      /\ UNCHANGED <<input, dir, tmp, meant, stopped, faults>>
  BY DEF Wait, Abort, Become, Goto, Fail, WithChild, WithDir
<1>2. child[w] \in Process /\ tmp[dir[w]] \in Directory
  BY <1>1, OwnChild, OwnDir
<1>3. child[w].run.doc \in Manifest \cup {Failed}
  BY <1>2 DEF Process, Application, GivenUp
<1>4. PICK doc \in Manifest \cup {Failed} : Answer(w, doc)
  BY <1>3 DEF Wait, Abort, Fail
<1> QED BY <1>1, <1>2, <1>4, Unmoved, SoundStep

LEMMA SoundRemoveDir ==
  ASSUME Sound, NEW w \in Workers, RemoveDir(w)
  PROVE  Sound'
<1>1. /\ step[w] = "remove" /\ step[w] \in WithDir /\ step[w] \notin WithChild
      /\ step' = [step EXCEPT ![w] = "idle"] /\ dir' = [dir EXCEPT ![w] = None]
      /\ UNCHANGED <<input, answer, child, meant, stopped>>
      /\ "idle" \notin WithDir /\ "idle" \notin WithChild
  BY DEF RemoveDir, Goto, WithDir, Files, WithChild
<1>2. PICK gone \in {None, Failed} :
        tmp' = [tmp EXCEPT ![dir[w]] = gone] /\ faults' \in Nat
  BY <1>1, Unmoved DEF RemoveDir
<1>3. /\ dir[w] \in Dirs /\ tmp[dir[w]] \in Directory
      /\ \A v \in Workers : step[v] \in WithDir /\ dir[v] = dir[w] => v = w
  BY <1>1, OwnDir
<1>4. TypeOK'
  <2>1. step' \in [Workers -> Steps] /\ dir' \in [Workers -> Dirs \cup {None}]
    BY <1>1 DEF Sound, TypeOK, Steps
  <2>2. tmp' \in [Dirs -> Directory \cup {None, Failed}]
    BY <1>2, <1>3 DEF Sound, TypeOK
  <2>3. /\ \A v \in Workers : step'[v] # "idle" => input'[v] # None
        /\ \A v \in Workers : step'[v] \in WithDir => dir'[v] # None
    BY <1>1 DEF Sound, TypeOK
  <2> QED BY <1>1, <1>2, <2>1, <2>2, <2>3 DEF Sound, TypeOK
<1>5. ChildReaped'
  BY <1>1, ChildrenKept DEF Sound, TypeOK
<1>6. CleansUp'
  <2> SUFFICES ASSUME NEW e \in Dirs
      PROVE  LET users == {v \in Workers : step'[v] \in WithDir /\ dir'[v] = e}
             IN  /\ tmp'[e] \notin {None, Failed} <=> users # {}
                 /\ \A u, v \in users : u = v
    BY DEF CleansUp
  <2> DEFINE old == {v \in Workers : step[v] \in WithDir /\ dir[v] = e}
             new == {v \in Workers : step'[v] \in WithDir /\ dir'[v] = e}
  <2>1. new = old \ {w}
    BY <1>1 DEF Sound, TypeOK
  <2>2. /\ tmp[e] \notin {None, Failed} <=> old # {}
        /\ \A u, v \in old : u = v
    BY DEF Sound, CleansUp
  <2>3. CASE e = dir[w]
    <3>1. new = {}
      BY <1>3, <2>1, <2>3
    <3>2. tmp'[e] \in {None, Failed}
      BY <1>2, <1>3, <2>3 DEF Sound, TypeOK
    <3> QED BY <3>1, <3>2
  <2>4. CASE e # dir[w]
    <3>1. new = old
      BY <2>1, <2>4
    <3>2. tmp'[e] = tmp[e]
      BY <1>2, <2>4 DEF Sound, TypeOK
    <3> QED BY <2>2, <3>1, <3>2
  <2> QED BY <2>3, <2>4
<1> QED BY <1>4, <1>5, <1>6 DEF Sound

(* A step of kubectl gives another process of the same kind.               *)
LEMMA SoundProcess ==
  ASSUME Sound, NEW w \in Workers, child[w] # None,
         UNCHANGED <<callVars, tmp, stopped>>, faults' \in Nat,
         NEW c \in Process, Become(w, c),
         NEW m \in Application(Template) \cup {None}, meant' = [meant EXCEPT ![w] = m]
  PROVE  Sound'
<1>1. step[w] \in WithChild /\ step[w] \in WithDir /\ tmp[dir[w]] \in Directory
  BY OwnChild, OwnDir
<1>2. /\ c # None /\ child' = [child EXCEPT ![w] = c]
      /\ UNCHANGED <<step, input, answer, dir, tmp, stopped>>
  BY AbsentAssumption DEF Become, callVars
<1> QED BY <1>1, <1>2, Unmoved, SoundStep

(* What each step of kubectl makes of the process.                         *)
LEMMA ProcessUpdates ==
  ASSUME NEW c \in Process
  PROVE  /\ \A at \in {"patching", "exited", "killed"} : [c EXCEPT !.at = at] \in Process
         /\ \A run \in Application(Manifest) :
              /\ [c EXCEPT !.at = "patching", !.run = run] \in Process
              /\ [c EXCEPT !.run = run] \in Process
         /\ \A words \in Seq(Streams) : [c EXCEPT !.at = "writing", !.todo = words] \in Process
         /\ \A words \in Seq(Streams), s \in Streams, n \in 0 .. Cap :
              [c EXCEPT !.todo = words, !.pipe[s] = n] \in Process
<1>1. \A s \in Streams, n \in 0 .. Cap : [c.pipe EXCEPT ![s] = n] \in [Streams -> 0 .. Cap]
  BY DEF Process
<1> QED BY <1>1 DEF Process

LEMMA SoundLoad ==
  ASSUME Sound, NEW w \in Workers, child[w] # None, Load(w),
         UNCHANGED <<callVars, tmp, stopped>>
  PROVE  Sound'
<1>1. child[w] \in Process /\ step[w] \in WithDir /\ tmp[dir[w]] \in Directory
  BY OwnChild, OwnDir
<1>2. /\ UNCHANGED meant => meant' = [meant EXCEPT ![w] = meant[w]]
      /\ meant[w] \in Application(Template) \cup {None}
      /\ faults \in Nat /\ (Fault => faults' \in Nat)
  BY <1>1, Unmoved
<1>3. UNCHANGED meant /\ faults' \in Nat
  BY <1>2 DEF Load
<1>4. CASE \E run \in Loads(tmp[dir[w]]) :
             Become(w, [child[w] EXCEPT !.at = "patching", !.run = run])
           /\ \A f \in Files : tmp[dir[w]][f] # None
  <2>1. PICK run \in Loads(tmp[dir[w]]) :
          Become(w, [child[w] EXCEPT !.at = "patching", !.run = run])
    BY <1>4
  <2>2. run \in Application(Manifest)
    BY <1>1, <1>4, LoadsType DEF Application
  <2>3. [child[w] EXCEPT !.at = "patching", !.run = run] \in Process
    BY <1>1, <2>2, ProcessUpdates
  <2> QED BY <1>2, <1>3, <2>1, <2>3, SoundProcess
<1>5. CASE Become(w, [child[w] EXCEPT !.at = "patching"])
  <2>1. [child[w] EXCEPT !.at = "patching"] \in Process
    BY <1>1, ProcessUpdates
  <2> QED BY <1>2, <1>3, <1>5, <2>1, SoundProcess
<1> QED BY <1>4, <1>5 DEF Load

LEMMA SoundApplyPatch ==
  ASSUME Sound, NEW w \in Workers, child[w] # None, ApplyPatch(w),
         UNCHANGED <<callVars, tmp, stopped>>
  PROVE  Sound'
<1>1. child[w] \in Process /\ step[w] \in WithDir
  BY OwnChild
<1>2. child[w].run \in Application(Manifest) /\ meant[w] \in Application(Template) \cup {None}
  BY <1>1, Unmoved DEF Process
<1>3. ApplyNext(child[w].run) \in Application(Manifest)
  BY <1>2, ApplyNextType DEF Manifest
<1>4. [child[w] EXCEPT !.run = ApplyNext(child[w].run)] \in Process
  BY <1>1, <1>3, ProcessUpdates
<1>5. meant[w] # None => ApplyNext(meant[w]) \in Application(Template)
  BY <1>2, ApplyNextType DEF Template
<1>6. PICK m \in Application(Template) \cup {None} : meant' = [meant EXCEPT ![w] = m]
  BY <1>1, <1>2, <1>5, Unmoved DEF ApplyPatch
<1>7. faults' \in Nat /\ Become(w, [child[w] EXCEPT !.run = ApplyNext(child[w].run)])
  BY <1>1, Unmoved DEF ApplyPatch
<1> QED BY <1>4, <1>6, <1>7, SoundProcess

(* Steps of the process that are no longer about documents.                *)
LEMMA SoundOutput ==
  ASSUME Sound, NEW w \in Workers, child[w] # None,
         Speak(w) \/ WriteChunk(w) \/ Exit(w),
         UNCHANGED <<callVars, tmp, stopped>>
  PROVE  Sound'
<1>1. child[w] \in Process /\ step[w] \in WithDir
  BY OwnChild
<1>2. UNCHANGED <<meant, faults>>
  BY DEF Speak, WriteChunk, Exit
<1>3. /\ meant' = [meant EXCEPT ![w] = meant[w]] /\ faults' \in Nat
      /\ meant[w] \in Application(Template) \cup {None}
  BY <1>1, <1>2, Unmoved
<1>4. CASE Speak(w)
  <2>1. PICK words \in Seq(Streams) :
          Become(w, [child[w] EXCEPT !.at = "writing", !.todo = words])
    BY <1>4, OutputAssumption DEF Speak
  <2>2. [child[w] EXCEPT !.at = "writing", !.todo = words] \in Process
    BY <1>1, ProcessUpdates
  <2> QED BY <1>3, <2>1, <2>2, SoundProcess
<1>5. CASE WriteChunk(w)
  <2> DEFINE stream == Head(child[w].todo)
             rest == Tail(child[w].todo)
             more == child[w].pipe[stream] + 1
  <2>1. child[w].todo \in Seq(Streams) /\ child[w].todo # <<>>
    BY <1>1, <1>5 DEF Process, WriteChunk
  <2>2. stream \in Streams /\ rest \in Seq(Streams)
    BY <2>1
  <2>3. child[w].pipe[stream] \in 0 .. Cap /\ child[w].pipe[stream] < Cap
    BY <1>1, <1>5, <2>2 DEF Process, WriteChunk
  <2>4. more \in 0 .. Cap
    BY <2>3, CapAssumption
  <2>5. Become(w, [child[w] EXCEPT !.todo = rest, !.pipe[stream] = more])
    BY <1>5 DEF WriteChunk
  <2> HIDE DEF stream, rest, more
  <2>6. [child[w] EXCEPT !.todo = rest, !.pipe[stream] = more] \in Process
    BY <1>1, <2>2, <2>4, ProcessUpdates
  <2> QED BY <1>3, <2>5, <2>6, SoundProcess
<1>6. CASE Exit(w)
  <2>1. Become(w, [child[w] EXCEPT !.at = "exited"])
    BY <1>6 DEF Exit
  <2>2. [child[w] EXCEPT !.at = "exited"] \in Process
    BY <1>1, ProcessUpdates
  <2> QED BY <1>3, <2>1, <2>2, SoundProcess
<1> QED BY <1>4, <1>5, <1>6

LEMMA SoundKill ==
  ASSUME Sound, NEW w \in Workers, Kill(w)
  PROVE  Sound'
<1>1. child[w] # None /\ Become(w, [child[w] EXCEPT !.at = "killed"])
      /\ UNCHANGED <<callVars, tmp, meant, stopped, faults>>
  BY DEF Kill
<1>2. child[w] \in Process /\ step[w] \in WithDir
  BY <1>1, OwnChild
<1>3. [child[w] EXCEPT !.at = "killed"] \in Process
  BY <1>2, ProcessUpdates
<1>4. /\ meant' = [meant EXCEPT ![w] = meant[w]] /\ faults' \in Nat
      /\ meant[w] \in Application(Template) \cup {None}
  BY <1>1, <1>2, Unmoved
<1> QED BY <1>1, <1>3, <1>4, SoundProcess

LEMMA SoundNext == ASSUME Sound, [Next]_vars PROVE Sound'
<1>1. CASE UNCHANGED vars
  <2>1. UNCHANGED <<step, input, answer, dir, tmp, child, meant, stopped, faults>>
    BY <1>1 DEF vars, callVars
  <2> QED BY <2>1 DEF Sound, TypeOK, ChildReaped, CleansUp
<1>2. CASE Stop
  <2>1. UNCHANGED <<step, input, answer, dir, tmp, child, meant, faults>> /\ stopped' = TRUE
    BY <1>2 DEF Stop, callVars
  <2> QED BY <2>1 DEF Sound, TypeOK, ChildReaped, CleansUp
<1>3. ASSUME NEW w \in Workers, Ask(w) \/ Call(w) \/ Kubectl(w) \/ Kill(w)
      PROVE  Sound'
  <2>1. CASE Ask(w)
    BY <2>1, SoundAsk
  <2>2. CASE Call(w)
    <3>1. CASE MakeDir(w)
      BY <3>1, SoundMakeDir
    <3>2. CASE WriteFile(w)
      BY <3>2, SoundWriteFile
    <3>3. CASE StartCommand(w)
      BY <3>3, SoundStartCommand
    <3>4. CASE ReadStdout(w)
      BY <3>4, SoundRead DEF ReadStdout, Streams, WithChild
    <3>5. CASE ReadStderr(w)
      BY <3>5, SoundRead DEF ReadStderr, Streams, WithChild
    <3>6. CASE Wait(w) \/ Abort(w)
      BY <3>6, SoundWait
    <3>7. CASE RemoveDir(w)
      BY <3>7, SoundRemoveDir
    <3> QED BY <2>2, <3>1, <3>2, <3>3, <3>4, <3>5, <3>6, <3>7 DEF Call
  <2>3. CASE Kubectl(w)
    <3>1. child[w] # None /\ UNCHANGED <<callVars, tmp, stopped>>
      BY <2>3 DEF Kubectl
    <3>2. CASE Load(w)
      BY <3>1, <3>2, SoundLoad
    <3>3. CASE ApplyPatch(w)
      BY <3>1, <3>3, SoundApplyPatch
    <3>4. CASE Speak(w) \/ WriteChunk(w) \/ Exit(w)
      BY <3>1, <3>4, SoundOutput
    <3> QED BY <2>3, <3>2, <3>3, <3>4 DEF Kubectl
  <2>4. CASE Kill(w)
    BY <2>4, SoundKill
  <2> QED BY <1>3, <2>1, <2>2, <2>3, <2>4
<1> QED BY <1>1, <1>2, <1>3 DEF Next

(***************************************************************************)
(* The theorems about processes and directories.                           *)
(***************************************************************************)
(* Type correctness.                                                       *)
THEOREM TypeCorrect == Spec => []TypeOK
<1>1. Init => Sound
  BY SoundInit
<1>2. Sound /\ [Next]_vars => Sound'
  BY SoundNext
<1>3. Sound => TypeOK
  BY DEF Sound
<1> QED BY <1>1, <1>2, <1>3, PTL DEF Spec

(* However a call ends, its kubectl has ended before and was waited for.   *)
THEOREM EveryChildReaped == Spec => []ChildReaped
<1>1. Init => Sound
  BY SoundInit
<1>2. Sound /\ [Next]_vars => Sound'
  BY SoundNext
<1>3. Sound => ChildReaped
  BY DEF Sound
<1> QED BY <1>1, <1>2, <1>3, PTL DEF Spec

(* Whatever fails, the directories there are belong to one call each or    *)
(* could not be removed.                                                   *)
THEOREM EveryDirCleaned == Spec => []CleansUp
<1>1. Init => Sound
  BY SoundInit
<1>2. Sound /\ [Next]_vars => Sound'
  BY SoundNext
<1>3. Sound => CleansUp
  BY DEF Sound
<1> QED BY <1>1, <1>2, <1>3, PTL DEF Spec

(***************************************************************************)
(* What a call returns.  meant, the patches applied to the template, and   *)
(* the document kubectl patches agree from the moment kubectl has loaded   *)
(* its files, as long as no patch is a copy or a move.                     *)
(***************************************************************************)
AllPlain(patches) == \A i \in DOMAIN patches : Plain(patches[i])

PlainRequests == \A w \in Workers : \A r \in Requests[w] : AllPlain(r.patches)

(* The steps at which a file has been written.                             *)
Later ==
  [resource |-> {"patches", "kustomization", "start"} \cup WithChild,
   patches |-> {"kustomization", "start"} \cup WithChild,
   kustomization |-> {"start"} \cup WithChild]

FilesWritten(w) ==
  \A f \in Files :
    step[w] \in Later[f] =>
      /\ tmp[dir[w]][f] # None /\ tmp[dir[w]][f].of = input[w]
      /\ meant[w] # None => tmp[dir[w]][f].whole

NotYetPatching(w) ==
  \/ step[w] \in {"mkdir", "start"} \cup Files
  \/ child[w] # None /\ child[w].at = "loading"

MeantAsAsked(w) ==
  NotYetPatching(w) /\ meant[w] # None =>
    meant[w] = [doc |-> input[w].template, left |-> input[w].patches]

Agree(run, m, params) ==
  \/ run = GivenUp
  \/ /\ m \in [doc : Template, left : Seq(Patch)] /\ AllPlain(m.left)
     /\ run = [doc |-> Embed(params, m.doc), left |-> Rewrite(m.left)]

RunsAsMeant(w) ==
  child[w] # None =>
    IF child[w].at = "loading" THEN child[w].run = GivenUp
    ELSE child[w].at # "killed" =>
           /\ meant[w] # None => Agree(child[w].run, meant[w], input[w].params)
           /\ child[w].at # "patching" => child[w].run.left = <<>>

AnswersAsMeant(w) ==
  step[w] \in {"idle", "remove"} /\ answer[w] \notin {None, Failed} /\ meant[w] # None =>
    meant[w].left = <<>> /\ answer[w] = Embed(input[w].params, meant[w].doc)

FaithfulAt(w) ==
  /\ input[w] \in Requests[w] \cup {None}
  /\ FilesWritten(w) /\ MeantAsAsked(w) /\ RunsAsMeant(w) /\ AnswersAsMeant(w)

Faithful == \A w \in Workers : FaithfulAt(w)

LEMMA RewriteEmpty ==
  ASSUME NEW s \in Seq(Patch)
  PROVE  Rewrite(s) = <<>> <=> s = <<>>
<1>1. Len(Rewrite(s)) = Len(s) /\ Rewrite(s) \in Seq(Patch)
  BY RewriteType
<1> QED BY <1>1

(* Each patch keeps the two documents in agreement.                        *)
LEMMA ApplyAgrees ==
  ASSUME NEW params \in JobParams, NEW run, NEW m,
         Agree(run, m, params), run.left # <<>>
  PROVE  /\ Agree(ApplyNext(run), ApplyNext(m), params)
         /\ ApplyNext(run) = GivenUp => ApplyNext(m) = GivenUp
<1>1. /\ m \in [doc : Template, left : Seq(Patch)] /\ AllPlain(m.left)
      /\ run = [doc |-> Embed(params, m.doc), left |-> Rewrite(m.left)]
  BY DEF Agree, GivenUp
<1> DEFINE x == Head(m.left)
           rest == Tail(m.left)
<1>2. m.left \in Seq(Patch) /\ m.left # <<>> /\ m.doc \in Template
  BY <1>1, RewriteEmpty
<1>3. x \in Patch /\ rest \in Seq(Patch) /\ Plain(x) /\ AllPlain(rest)
  <2>1. x \in Patch /\ rest \in Seq(Patch) /\ x = m.left[1] /\ 1 \in DOMAIN m.left
    BY <1>2
  <2>2. \A i \in DOMAIN rest : rest[i] = m.left[i + 1] /\ i + 1 \in DOMAIN m.left
    BY <1>2
  <2> HIDE DEF x, rest
  <2> QED BY <1>1, <2>1, <2>2 DEF AllPlain
<1>4. Head(run.left) = Rewritten(x) /\ Tail(run.left) = Rewrite(rest)
  BY <1>1, <1>2, RewriteNext
<1> HIDE DEF x, rest
<1>5. /\ Applies(run.doc, Rewritten(x)) <=> Applies(m.doc, x)
      /\ Applies(m.doc, x) => Result(run.doc, Rewritten(x)) = Embed(params, Result(m.doc, x))
  BY <1>1, <1>2, <1>3, PatchCommutes
<1>6. CASE Applies(m.doc, x)
  <2>1. Result(m.doc, x) \in Template
    BY <1>2, <1>3, <1>6, ResultType DEF Template
  <2>2. ApplyNext(m) = [doc |-> Result(m.doc, x), left |-> rest]
    BY <1>2, <1>6 DEF ApplyNext, x, rest
  <2>3. ApplyNext(run) = [doc |-> Embed(params, Result(m.doc, x)), left |-> Rewrite(rest)]
    BY <1>4, <1>5, <1>6 DEF ApplyNext
  <2>4. ApplyNext(run) # GivenUp
    <3>1. Embed(params, Result(m.doc, x)) # Failed
      BY <2>1, EmbedType, FailedAssumption
    <3> QED BY <2>3, <3>1 DEF GivenUp
  <2> QED BY <1>3, <2>1, <2>2, <2>3, <2>4 DEF Agree
<1>7. CASE ~Applies(m.doc, x)
  <2>1. ApplyNext(m) = GivenUp
    BY <1>2, <1>7 DEF ApplyNext, x
  <2> QED BY <1>4, <1>5, <1>7, <2>1 DEF ApplyNext, Agree
<1> QED BY <1>6, <1>7

(* A whole directory loads as it was written.                              *)
LEMMA LoadsWhole ==
  ASSUME NEW files \in Directory, NEW r \in Request,
         \A f \in Files : files[f] # None /\ files[f].of = r /\ files[f].whole,
         NEW run \in Loads(files)
  PROVE  run = [doc |-> Embed(r.params, r.template), left |-> Rewrite(r.patches)]
<1> DEFINE patches == Rewrite(r.patches)
           seed == Embed(r.params, r.template)
<1>1. patches \in Seq(Patch) /\ seed \in Manifest
  BY RewriteType, EmbedType DEF Request
<1> HIDE DEF patches, seed
<1>2. /\ files["patches"].of = r /\ files["resource"].of = r /\ files["patches"].whole
      /\ files["kustomization"].whole /\ files["resource"].whole
  BY DEF Files
<1>3. Loads(files)
        = {[doc |-> [p \in ManifestPaths |-> IF p \in lost THEN None ELSE seed[p]],
            left |-> SubSeq(patches, 1, n)] : lost \in {{}}, n \in {Len(patches)} \cup {}}
  BY <1>2 DEF Loads, Seed, patches, seed
<1>4. run = [doc |-> [p \in ManifestPaths |-> IF p \in {} THEN None ELSE seed[p]],
             left |-> SubSeq(patches, 1, Len(patches))]
  BY <1>3
<1>5. SubSeq(patches, 1, Len(patches)) = patches
  BY <1>1, SMTT(30)
<1>6. [p \in ManifestPaths |-> IF p \in {} THEN None ELSE seed[p]] = seed
  BY <1>1 DEF Manifest
<1> QED BY <1>4, <1>5, <1>6 DEF patches, seed

LEMMA FaithfulInit == ASSUME Init PROVE Faithful
<1> SUFFICES ASSUME NEW w \in Workers PROVE FaithfulAt(w)
  BY DEF Faithful
<1>1. /\ step[w] = "idle" /\ input[w] = None /\ answer[w] = None
      /\ child[w] = None /\ meant[w] = None
  BY DEF Init
<1>2. \A f \in Files : step[w] \notin Later[f]
  BY <1>1 DEF Later, Files, WithChild
<1> QED BY <1>1, <1>2 DEF FaithfulAt, FilesWritten, MeantAsAsked, RunsAsMeant, AnswersAsMeant

(* What a worker's step leaves to the others.                              *)
Untouched(v) ==
  /\ step'[v] = step[v] /\ input'[v] = input[v] /\ answer'[v] = answer[v]
  /\ dir'[v] = dir[v] /\ child'[v] = child[v] /\ meant'[v] = meant[v]
  /\ step[v] \in WithDir => tmp'[dir[v]] = tmp[dir[v]]

LEMMA OthersUntouched ==
  ASSUME Sound, NEW w \in Workers, Ask(w) \/ Call(w) \/ Kubectl(w) \/ Kill(w),
         NEW v \in Workers, v # w
  PROVE  Untouched(v)
<1>1. /\ step'[v] = step[v] /\ input'[v] = input[v] /\ answer'[v] = answer[v]
      /\ dir'[v] = dir[v]
  BY DEF Sound, TypeOK, Ask, Call, Kubectl, Kill, callVars, MakeDir, NewDir,
     WriteFile, StartCommand, ReadStdout, ReadStderr, Read, Wait, Abort, RemoveDir,
     Fail, Goto, Answer
<1>2. child'[v] = child[v] /\ meant'[v] = meant[v]
  BY DEF Sound, TypeOK, Ask, Call, Kubectl, Kill, MakeDir, WriteFile, StartCommand,
     ReadStdout, ReadStderr, Read, Wait, Abort, RemoveDir, Load, ApplyPatch, Speak,
     WriteChunk, Exit, Become
<1>3. ASSUME step[v] \in WithDir PROVE tmp'[dir[v]] = tmp[dir[v]]
  <2>1. dir[v] \in Dirs /\ tmp[dir[v]] \notin {None, Failed}
    BY <1>3, OwnDir, AbsentAssumption
  <2>2. step[w] \in WithDir => dir[v] # dir[w]
    BY <1>3, OwnDir
  <2>3. CASE UNCHANGED tmp
    BY <2>3
  <2>4. CASE MakeDir(w)
    <3>1. (Unused # {} /\ NewDir(w, CHOOSE d \in Unused : TRUE)) \/ UNCHANGED tmp
      BY <2>4 DEF MakeDir
    <3>2. Unused # {} => (CHOOSE d \in Unused : TRUE) # dir[v]
      BY <2>1 DEF Unused
    <3> QED BY <2>1, <3>1, <3>2 DEF NewDir, Sound, TypeOK
  <2>5. CASE WriteFile(w)
    <3>1. step[w] \in WithDir
      BY <2>5 DEF WriteFile, WithDir
    <3> QED BY <2>1, <2>2, <2>5, <3>1 DEF WriteFile, Sound, TypeOK
  <2>6. CASE RemoveDir(w)
    <3>1. step[w] \in WithDir
      BY <2>6 DEF RemoveDir, WithDir
    <3> QED BY <2>1, <2>2, <2>6, <3>1 DEF RemoveDir, Sound, TypeOK
  <2> QED BY <2>3, <2>4, <2>5, <2>6 DEF Ask, Call, Kubectl, Kill, StartCommand,
          ReadStdout, ReadStderr, Read, Wait, Abort
<1> QED BY <1>1, <1>2, <1>3 DEF Untouched

LEMMA FaithfulElsewhere ==
  ASSUME Sound, Faithful, NEW w \in Workers,
         Ask(w) \/ Call(w) \/ Kubectl(w) \/ Kill(w), FaithfulAt(w)'
  PROVE  Faithful'
<1>1. ASSUME NEW v \in Workers, v # w PROVE FaithfulAt(v)'
  <2>1. FaithfulAt(v) /\ Untouched(v)
    BY <1>1, OthersUntouched DEF Faithful
  <2>2. \A f \in Files : step[v] \in Later[f] => step[v] \in WithDir
    BY DEF Later, Files, WithDir
  <2>3. FilesWritten(v)'
    BY <2>1, <2>2 DEF FaithfulAt, FilesWritten, Untouched
  <2>4. MeantAsAsked(v)'
    BY <2>1 DEF FaithfulAt, MeantAsAsked, NotYetPatching, Untouched
  <2>5. RunsAsMeant(v)'
    BY <2>1 DEF FaithfulAt, RunsAsMeant, Untouched
  <2>6. AnswersAsMeant(v)'
    BY <2>1 DEF FaithfulAt, AnswersAsMeant, Untouched
  <2> QED BY <2>1, <2>3, <2>4, <2>5, <2>6 DEF FaithfulAt, Untouched
<1> QED BY <1>1 DEF Faithful

LEMMA FaithfulAsk ==
  ASSUME Sound, Faithful, NEW w \in Workers, Ask(w)
  PROVE  FaithfulAt(w)'
<1>1. PICK r \in Requests[w] :
        /\ input' = [input EXCEPT ![w] = r]
        /\ meant' = [meant EXCEPT ![w] = [doc |-> r.template, left |-> r.patches]]
        /\ \/ r.patches = <<>> /\ Answer(w, Seed(r)) /\ UNCHANGED step
           \/ r.patches # <<>> /\ Answer(w, None) /\ Goto(w, "mkdir")
  BY DEF Ask
<1>2. step[w] = "idle" /\ UNCHANGED <<dir, tmp, child>>
  BY DEF Ask
<1>3. child[w] = None
  BY <1>2 DEF Sound, ChildReaped, WithChild
<1>4. /\ input'[w] = r /\ meant'[w] = [doc |-> r.template, left |-> r.patches]
      /\ child'[w] = None /\ step'[w] \in {"idle", "mkdir"}
      /\ answer'[w] # None => r.patches = <<>> /\ answer'[w] = Seed(r)
  BY <1>1, <1>2, <1>3 DEF Sound, TypeOK, Answer, Goto
<1>5. \A f \in Files : step'[w] \notin Later[f]
  BY <1>4 DEF Later, Files, WithChild
<1> QED BY <1>4, <1>5 DEF FaithfulAt, FilesWritten, MeantAsAsked, RunsAsMeant, AnswersAsMeant, Seed

LEMMA FaithfulMakeDir ==
  ASSUME Sound, Faithful, NEW w \in Workers, MakeDir(w)
  PROVE  FaithfulAt(w)'
<1>1. step[w] = "mkdir" /\ UNCHANGED <<input, child, meant>>
  BY DEF MakeDir
<1>2. step'[w] = "resource" \/ (step'[w] = "idle" /\ answer'[w] = Failed)
  BY <1>1 DEF MakeDir, Sound, TypeOK, Goto, Answer
<1>3. child[w] = None /\ FaithfulAt(w)
  BY <1>1 DEF Sound, ChildReaped, WithChild, Faithful
<1>4. \A f \in Files : step'[w] \notin Later[f]
  BY <1>2 DEF Later, Files, WithChild
<1> QED BY <1>1, <1>2, <1>3, <1>4
        DEF FaithfulAt, FilesWritten, MeantAsAsked, NotYetPatching, RunsAsMeant, AnswersAsMeant

LEMMA FaithfulWriteFile ==
  ASSUME Sound, Faithful, NEW w \in Workers, WriteFile(w)
  PROVE  FaithfulAt(w)'
<1>1. /\ step[w] \in Files /\ step[w] \in WithDir /\ step[w] \notin WithChild
      /\ UNCHANGED <<input, dir, child>>
  BY DEF WriteFile, Files, WithDir, WithChild
<1>2. child[w] = None /\ FaithfulAt(w) /\ dir[w] \in Dirs /\ tmp[dir[w]] \in Directory
  BY <1>1, OwnDir DEF Sound, ChildReaped, Faithful
<1>3. ASSUME NEW whole \in BOOLEAN,
             tmp' = [tmp EXCEPT ![dir[w]][step[w]] = [of |-> input[w], whole |-> whole]],
             Goto(w, After[step[w]]),
             meant'[w] \in {meant[w], None}, ~whole => meant'[w] = None
      PROVE  FaithfulAt(w)'
  <2> DEFINE new == [of |-> input[w], whole |-> whole]
  <2>1. step'[w] = After[step[w]] /\ step'[w] \in {"patches", "kustomization", "start"}
    BY <1>1, <1>3 DEF Goto, Sound, TypeOK, After, Files
  <2>2. tmp'[dir'[w]] = [tmp[dir[w]] EXCEPT ![step[w]] = new]
    BY <1>1, <1>2, <1>3 DEF Sound, TypeOK
  <2>3. new # None
    <3>1. new \in Written
      BY <1>1 DEF Sound, TypeOK, Written, Files
    <3>2. None \notin Written
      BY AbsentAssumption
    <3> QED BY <3>1, <3>2
  <2>4. ASSUME NEW f \in Files, step'[w] \in Later[f]
        PROVE  /\ tmp'[dir'[w]][f] # None /\ tmp'[dir'[w]][f].of = input'[w]
               /\ meant'[w] # None => tmp'[dir'[w]][f].whole
    <3>1. CASE f = step[w]
      <4>1. tmp'[dir'[w]][f] = new
        BY <1>2, <2>2, <3>1 DEF Directory
      <4> QED BY <1>1, <1>3, <2>3, <4>1
    <3>2. CASE f # step[w]
      <4>1. step[w] \in Later[f]
        BY <1>1, <2>1, <2>4, <3>2 DEF After, Later, Files, WithChild
      <4>2. tmp'[dir'[w]][f] = tmp[dir[w]][f]
        BY <1>2, <2>2, <3>2 DEF Directory
      <4> QED BY <1>1, <1>2, <1>3, <4>1, <4>2 DEF FaithfulAt, FilesWritten
    <3> QED BY <3>1, <3>2
  <2>5. FilesWritten(w)'
    BY <2>4 DEF FilesWritten
  <2>6. MeantAsAsked(w)'
    BY <1>1, <1>2, <1>3 DEF FaithfulAt, MeantAsAsked, NotYetPatching
  <2>7. RunsAsMeant(w)' /\ AnswersAsMeant(w)'
    BY <1>1, <1>2, <2>1 DEF RunsAsMeant, AnswersAsMeant
  <2> QED BY <1>1, <1>2, <2>5, <2>6, <2>7 DEF FaithfulAt
<1>4. CASE Fault /\ Fail(w) /\ UNCHANGED <<tmp, meant>>
  <2>1. step'[w] = "remove" /\ answer'[w] = Failed
    BY <1>4 DEF Fail, Goto, Answer, Sound, TypeOK
  <2>2. \A f \in Files : step'[w] \notin Later[f]
    BY <2>1 DEF Later, Files, WithChild
  <2> QED BY <1>1, <1>2, <2>1, <2>2
          DEF FaithfulAt, FilesWritten, MeantAsAsked, NotYetPatching, RunsAsMeant, AnswersAsMeant,
              Files
<1>5. CASE UNCHANGED meant \/ meant' = [meant EXCEPT ![w] = None]
  BY <1>3, <1>4, <1>5 DEF WriteFile, Sound, TypeOK
<1> QED BY <1>5 DEF WriteFile

LEMMA FaithfulStartCommand ==
  ASSUME Sound, Faithful, NEW w \in Workers, StartCommand(w)
  PROVE  FaithfulAt(w)'
<1>1. /\ step[w] = "start" /\ UNCHANGED <<input, dir, tmp, meant>>
  BY DEF StartCommand
<1>2. FaithfulAt(w) /\ child[w] = None
  BY <1>1 DEF Faithful, Sound, ChildReaped, WithChild
<1>3. CASE Become(w, Launched) /\ Goto(w, "stdout") /\ UNCHANGED answer
  <2>1. step'[w] = "stdout" /\ child'[w] = Launched
        /\ Launched.at = "loading" /\ Launched.run = GivenUp
    BY <1>3 DEF Become, Goto, Sound, TypeOK, Launched
  <2>2. FilesWritten(w)'
    BY <1>1, <1>2, <2>1 DEF FaithfulAt, FilesWritten, Later, Files, WithChild
  <2> QED BY <1>1, <1>2, <2>1, <2>2
          DEF FaithfulAt, MeantAsAsked, NotYetPatching, RunsAsMeant, AnswersAsMeant
<1>4. CASE Fail(w) /\ UNCHANGED child
  <2>1. step'[w] = "remove" /\ answer'[w] = Failed
    BY <1>4 DEF Fail, Goto, Answer, Sound, TypeOK
  <2>2. \A f \in Files : step'[w] \notin Later[f]
    BY <2>1 DEF Later, Files, WithChild
  <2> QED BY <1>1, <1>2, <1>4, <2>1, <2>2
          DEF FaithfulAt, FilesWritten, MeantAsAsked, NotYetPatching, RunsAsMeant, AnswersAsMeant,
              Files
<1> QED BY <1>3, <1>4 DEF StartCommand

LEMMA FaithfulRead ==
  ASSUME Sound, Faithful, NEW w \in Workers, step[w] \in WithChild,
         NEW stream \in Streams, NEW next \in WithChild, Read(w, stream, next)
  PROVE  FaithfulAt(w)'
<1>1. FaithfulAt(w) /\ child[w] \in Process /\ UNCHANGED <<input, answer, dir, tmp, meant>>
  BY OwnChild DEF Faithful, Read
<1>2. step'[w] \in WithChild
  BY DEF Read, Goto, Sound, TypeOK, WithChild
<1>3. child'[w] # None => child'[w].at = child[w].at /\ child'[w].run = child[w].run
  BY <1>1 DEF Read, Become, Process, Sound, TypeOK
<1>4. FilesWritten(w)'
  BY <1>1, <1>2 DEF FaithfulAt, FilesWritten, Later, Files
<1>5. child[w] # None
  BY <1>1, AbsentAssumption
<1>6. step'[w] \notin {"mkdir", "start", "idle", "remove"} \cup Files
  BY <1>2 DEF WithChild, Files
<1> QED BY <1>1, <1>3, <1>4, <1>5, <1>6
        DEF FaithfulAt, MeantAsAsked, NotYetPatching, RunsAsMeant, AnswersAsMeant

LEMMA FaithfulWait ==
  ASSUME Sound, Faithful, NEW w \in Workers, Wait(w) \/ Abort(w)
  PROVE  FaithfulAt(w)'
<1>1. /\ step[w] \in WithChild /\ step'[w] = "remove" /\ child'[w] = None
      /\ UNCHANGED <<input, dir, tmp, meant>>
  BY DEF Wait, Abort, Fail, Goto, Become, Sound, TypeOK, WithChild
<1>2. /\ FaithfulAt(w) /\ child[w] \in Process /\ child[w] # None
      /\ meant[w] \in Application(Template) \cup {None}
  BY <1>1, OwnChild, AbsentAssumption DEF Faithful, Sound, TypeOK
<1>3. \A f \in Files : step'[w] \notin Later[f]
  BY <1>1 DEF Later, Files, WithChild
<1>4. ASSUME answer'[w] # Failed, meant[w] # None
      PROVE  meant[w].left = <<>> /\ answer'[w] = Embed(input[w].params, meant[w].doc)
  <2>1. child[w].at = "exited" /\ answer'[w] = child[w].run.doc
    BY <1>4 DEF Wait, Abort, Fail, Answer, Sound, TypeOK
  <2>2. /\ Agree(child[w].run, meant[w], input[w].params)
        /\ child[w].run.left = <<>> /\ child[w].run # GivenUp
    BY <1>2, <1>4, <2>1 DEF FaithfulAt, RunsAsMeant, GivenUp
  <2> QED BY <2>1, <2>2, RewriteEmpty DEF Agree
<1>5. AnswersAsMeant(w)'
  BY <1>1, <1>4 DEF AnswersAsMeant
<1> QED BY <1>1, <1>2, <1>3, <1>5
        DEF FaithfulAt, FilesWritten, MeantAsAsked, NotYetPatching, RunsAsMeant, Files

LEMMA FaithfulRemoveDir ==
  ASSUME Sound, Faithful, NEW w \in Workers, RemoveDir(w)
  PROVE  FaithfulAt(w)'
<1>1. /\ step[w] = "remove" /\ step'[w] = "idle"
      /\ UNCHANGED <<input, answer, child, meant>>
  BY DEF RemoveDir, Goto, Sound, TypeOK
<1>2. FaithfulAt(w) /\ child[w] = None
  BY <1>1 DEF Faithful, Sound, ChildReaped, WithChild
<1>3. \A f \in Files : step'[w] \notin Later[f]
  BY <1>1 DEF Later, Files, WithChild
<1> QED BY <1>1, <1>2, <1>3
        DEF FaithfulAt, FilesWritten, MeantAsAsked, NotYetPatching, RunsAsMeant, AnswersAsMeant,
            Files

(* A step of kubectl leaves the call where it is.                          *)
LEMMA FaithfulProcess ==
  ASSUME Sound, Faithful, NEW w \in Workers, child[w] # None,
         UNCHANGED <<callVars, tmp>>, NEW c \in Process, Become(w, c), c.at # "loading",
         UNCHANGED meant \/ (child[w].at # "loading" /\ (meant'[w] = None <=> meant[w] = None)),
         c.at # "killed" =>
           /\ meant[w] # None => Agree(c.run, meant'[w], input[w].params)
           /\ c.at # "patching" => c.run.left = <<>>
  PROVE  FaithfulAt(w)'
<1>1. /\ UNCHANGED <<step, input, answer, dir, tmp>> /\ child'[w] = c
      /\ FaithfulAt(w) /\ step[w] \in WithChild
  BY OwnChild DEF callVars, Become, Sound, TypeOK, Faithful
<1>2. step[w] \notin {"mkdir", "start", "idle", "remove"} \cup Files
  BY <1>1 DEF WithChild, Files
<1>3. FilesWritten(w)'
  BY <1>1 DEF FaithfulAt, FilesWritten
<1>4. MeantAsAsked(w)' /\ AnswersAsMeant(w)'
  BY <1>1, <1>2 DEF MeantAsAsked, NotYetPatching, AnswersAsMeant
<1>5. RunsAsMeant(w)'
  BY <1>1 DEF RunsAsMeant
<1> QED BY <1>1, <1>3, <1>4, <1>5 DEF FaithfulAt

LEMMA FaithfulLoad ==
  ASSUME Sound, Faithful, PlainRequests, NEW w \in Workers, child[w] # None, Load(w),
         UNCHANGED <<callVars, tmp>>
  PROVE  FaithfulAt(w)'
<1>1. /\ FaithfulAt(w) /\ child[w] \in Process /\ child[w].at = "loading" /\ UNCHANGED meant
      /\ step[w] \in WithChild /\ step[w] \in WithDir /\ tmp[dir[w]] \in Directory
      /\ input[w] # None
  BY OwnChild, OwnDir DEF Faithful, Load, Sound, TypeOK, WithChild
<1>2. ASSUME NEW run \in Loads(tmp[dir[w]]), \A f \in Files : tmp[dir[w]][f] # None,
             Become(w, [child[w] EXCEPT !.at = "patching", !.run = run])
      PROVE  FaithfulAt(w)'
  <2> DEFINE c == [child[w] EXCEPT !.at = "patching", !.run = run]
  <2>1. run \in Application(Manifest)
    BY <1>1, <1>2, LoadsType DEF Application
  <2>2. c \in Process /\ c.at = "patching" /\ c.run = run
    BY <1>1, <2>1, ProcessUpdates DEF Process
  <2>3. ASSUME meant[w] # None PROVE Agree(run, meant[w], input[w].params)
    <3>1. meant[w] = [doc |-> input[w].template, left |-> input[w].patches]
      BY <1>1, <2>3 DEF FaithfulAt, MeantAsAsked, NotYetPatching
    <3>2. input[w] \in Requests[w] /\ input[w] \in Request
      BY <1>1, AskAssumption DEF FaithfulAt
    <3>3. \A f \in Files : tmp[dir[w]][f].of = input[w] /\ tmp[dir[w]][f].whole
      BY <1>1, <2>3 DEF FaithfulAt, FilesWritten, Later, Files
    <3>4. run = [doc |-> Embed(input[w].params, input[w].template),
                 left |-> Rewrite(input[w].patches)]
      BY <1>1, <1>2, <3>2, <3>3, LoadsWhole
    <3> QED BY <3>1, <3>2, <3>4 DEF Agree, PlainRequests, Request
  <2> HIDE DEF c
  <2> QED BY <1>1, <1>2, <2>2, <2>3, FaithfulProcess DEF c
<1>3. CASE Become(w, [child[w] EXCEPT !.at = "patching"])
  <2> DEFINE c == [child[w] EXCEPT !.at = "patching"]
  <2>1. c \in Process /\ c.at = "patching" /\ c.run = GivenUp
    BY <1>1, ProcessUpdates DEF Process, FaithfulAt, RunsAsMeant
  <2> HIDE DEF c
  <2> QED BY <1>1, <1>3, <2>1, FaithfulProcess DEF Agree, c
<1> QED BY <1>2, <1>3 DEF Load

LEMMA FaithfulApplyPatch ==
  ASSUME Sound, Faithful, NEW w \in Workers, child[w] # None, ApplyPatch(w),
         UNCHANGED <<callVars, tmp>>
  PROVE  FaithfulAt(w)'
<1> DEFINE run == ApplyNext(child[w].run)
           c == [child[w] EXCEPT !.run = run]
<1>1. /\ FaithfulAt(w) /\ child[w] \in Process /\ child[w].at = "patching"
      /\ child[w].run.left # <<>> /\ Become(w, c) /\ step[w] \in WithDir
  BY OwnChild DEF Faithful, ApplyPatch
<1>2. child[w].run \in Application(Manifest) /\ meant[w] \in Application(Template) \cup {None}
  BY <1>1, Unmoved DEF Process
<1>3. run \in Application(Manifest)
  BY <1>2, ApplyNextType DEF Manifest
<1>4. c \in Process /\ c.at = "patching" /\ c.run = run
  BY <1>1, <1>3, ProcessUpdates DEF Process
<1>5. CASE meant[w] = None
  <2>1. UNCHANGED meant
    BY <1>5 DEF ApplyPatch
  <2> HIDE DEF c, run
  <2> QED BY <1>1, <1>4, <1>5, <2>1, FaithfulProcess
<1>6. CASE meant[w] # None
  <2>1. meant'[w] = ApplyNext(meant[w])
    BY <1>6 DEF ApplyPatch, Sound, TypeOK
  <2>2. meant'[w] # None
    BY <1>2, <1>6, <2>1, ApplyNextType, AbsentAssumption DEF Template
  <2>3. Agree(child[w].run, meant[w], input[w].params)
    BY <1>1, <1>6 DEF FaithfulAt, RunsAsMeant
  <2>4. input[w].params \in JobParams
    <3>1. input[w] \in Request
      BY <1>1 DEF Sound, TypeOK, WithDir, Files, WithChild
    <3> QED BY <3>1 DEF Request
  <2>5. Agree(run, meant'[w], input[w].params)
    BY <1>1, <2>1, <2>3, <2>4, ApplyAgrees
  <2> HIDE DEF c, run
  <2> QED BY <1>1, <1>4, <1>6, <2>2, <2>5, FaithfulProcess
<1> QED BY <1>5, <1>6

(* Nothing is left to apply once kubectl speaks.                           *)
LEMMA FaithfulOutput ==
  ASSUME Sound, Faithful, NEW w \in Workers, child[w] # None,
         Speak(w) \/ WriteChunk(w) \/ Exit(w),
         UNCHANGED <<callVars, tmp, stopped>>
  PROVE  FaithfulAt(w)'
<1>1. /\ FaithfulAt(w) /\ child[w] \in Process /\ UNCHANGED meant
      /\ child[w].at \in {"patching", "writing"} /\ child'[w] \in Process
      /\ Become(w, child'[w])
  <2>1. child'[w] \in Process \cup {None}
    BY SoundOutput DEF Sound, TypeOK
  <2>2. child'[w] # None
    <3>1. Sound' /\ step'[w] = step[w]
      BY SoundOutput DEF callVars
    <3> QED BY <3>1, OwnChild DEF Sound, ChildReaped
  <2> QED BY <2>1, <2>2, OwnChild
          DEF Faithful, Speak, WriteChunk, Exit, Become, Sound, TypeOK
<1>2. /\ child'[w].run = child[w].run /\ child'[w].at \in {"writing", "exited"}
      /\ child[w].at = "patching" => child[w].run.left = <<>>
  <2>1. CASE Speak(w)
    <3>1. PICK words : child'[w] = [child[w] EXCEPT !.at = "writing", !.todo = words]
      BY <2>1 DEF Speak, Become, Sound, TypeOK
    <3> QED BY <1>1, <2>1, <3>1 DEF Process, Speak
  <2>2. CASE WriteChunk(w)
    <3>1. PICK words, pipes : child'[w] = [child[w] EXCEPT !.todo = words, !.pipe = pipes]
      <4> DEFINE s == Head(child[w].todo)
                 new == [child[w] EXCEPT !.todo = Tail(child[w].todo),
                                         !.pipe[s] = child[w].pipe[s] + 1]
      <4>1. child'[w] = new
        BY <2>2 DEF WriteChunk, Become, Sound, TypeOK
      <4>2. new = [child[w] EXCEPT !.todo = Tail(child[w].todo), !.pipe = new.pipe]
        BY <1>1 DEF Process
      <4> HIDE DEF new
      <4> QED BY <4>1, <4>2
    <3>2. child[w].at = "writing"
      BY <2>2 DEF WriteChunk
    <3> QED BY <1>1, <3>1, <3>2 DEF Process
  <2>3. CASE Exit(w)
    BY <1>1, <2>3 DEF Exit, Become, Process, Sound, TypeOK
  <2> QED BY <2>1, <2>2, <2>3
<1>3. child[w].run.left = <<>>
  BY <1>1, <1>2 DEF FaithfulAt, RunsAsMeant
<1>4. meant[w] # None => Agree(child'[w].run, meant'[w], input[w].params)
  BY <1>1, <1>2 DEF FaithfulAt, RunsAsMeant
<1> QED BY <1>1, <1>2, <1>3, <1>4, FaithfulProcess

LEMMA FaithfulKill ==
  ASSUME Sound, Faithful, NEW w \in Workers, Kill(w)
  PROVE  FaithfulAt(w)'
<1> DEFINE c == [child[w] EXCEPT !.at = "killed"]
<1>1. child[w] # None /\ Become(w, c) /\ UNCHANGED <<callVars, tmp, meant>>
  BY DEF Kill
<1>2. c \in Process /\ c.at = "killed"
  <2>1. child[w] \in Process
    BY <1>1, OwnChild
  <2> QED BY <2>1, ProcessUpdates DEF Process
<1> HIDE DEF c
<1> QED BY <1>1, <1>2, FaithfulProcess

LEMMA FaithfulNext ==
  ASSUME Sound, Faithful, PlainRequests, [Next]_vars
  PROVE  Faithful'
<1>1. CASE UNCHANGED vars \/ Stop
  <2>1. UNCHANGED <<step, input, answer, dir, tmp, child, meant>>
    BY <1>1 DEF vars, callVars, Stop
  <2> QED BY <2>1 DEF Faithful, FaithfulAt, FilesWritten, MeantAsAsked, NotYetPatching,
          RunsAsMeant, AnswersAsMeant
<1>2. ASSUME NEW w \in Workers, Ask(w) \/ Call(w) \/ Kubectl(w) \/ Kill(w)
      PROVE  Faithful'
  <2> SUFFICES FaithfulAt(w)'
    BY <1>2, FaithfulElsewhere
  <2>1. CASE Ask(w)
    BY <2>1, FaithfulAsk
  <2>2. CASE Call(w)
    <3>1. CASE MakeDir(w)
      BY <3>1, FaithfulMakeDir
    <3>2. CASE WriteFile(w)
      BY <3>2, FaithfulWriteFile
    <3>3. CASE StartCommand(w)
      BY <3>3, FaithfulStartCommand
    <3>4. CASE ReadStdout(w)
      BY <3>4, FaithfulRead DEF ReadStdout, Streams, WithChild
    <3>5. CASE ReadStderr(w)
      BY <3>5, FaithfulRead DEF ReadStderr, Streams, WithChild
    <3>6. CASE Wait(w) \/ Abort(w)
      BY <3>6, FaithfulWait
    <3>7. CASE RemoveDir(w)
      BY <3>7, FaithfulRemoveDir
    <3> QED BY <2>2, <3>1, <3>2, <3>3, <3>4, <3>5, <3>6, <3>7 DEF Call
  <2>3. CASE Kubectl(w)
    <3>1. child[w] # None /\ UNCHANGED <<callVars, tmp, stopped>>
      BY <2>3 DEF Kubectl
    <3>2. CASE Load(w)
      BY <3>1, <3>2, FaithfulLoad
    <3>3. CASE ApplyPatch(w)
      BY <3>1, <3>3, FaithfulApplyPatch
    <3>4. CASE Speak(w) \/ WriteChunk(w) \/ Exit(w)
      BY <3>1, <3>4, FaithfulOutput
    <3> QED BY <2>3, <3>2, <3>3, <3>4 DEF Kubectl
  <2>4. CASE Kill(w)
    BY <2>4, FaithfulKill
  <2> QED BY <1>2, <2>1, <2>2, <2>3, <2>4
<1> QED BY <1>1, <1>2 DEF Next

(* Patches that neither copy nor move end up in the batch Job as their     *)
(* user wrote them for the template, and the parameters of the Job stay as *)
(* they are: for every document, every sequence of patches and every       *)
(* worker, whatever the others patch, fails or is killed meanwhile.        *)
THEOREM PatchesAsWritten ==
  ASSUME PlainRequests
  PROVE  Spec => []PatchedAsWritten
<1>1. Init => Sound /\ Faithful
  BY SoundInit, FaithfulInit
<1>2. Sound /\ Faithful /\ [Next]_vars => Sound' /\ Faithful'
  BY SoundNext, FaithfulNext
<1>3. Faithful => PatchedAsWritten
  BY DEF Faithful, FaithfulAt, AnswersAsMeant, PatchedAsWritten
<1> QED BY <1>1, <1>2, <1>3, PTL DEF Spec

(***************************************************************************)
(* To its caller a call is what PatchService says.  A call that fails has  *)
(* a reason: until something failed, nothing was cut short, no read was    *)
(* given up, no kubectl killed, and one that gave up did so over a patch   *)
(* that does not apply to the template.                                    *)
(***************************************************************************)
Calm == faults = Faults /\ ~stopped

ExcusedAt(w) ==
  /\ step[w] # "idle" => meant[w] # None
  /\ step[w] # "abort"
  /\ child[w] # None =>
       /\ child[w].at # "killed"
       /\ child[w].at # "loading" /\ child[w].run = GivenUp => meant[w] = GivenUp

Excused == faults \in 0 .. Faults /\ (Calm => \A w \in Workers : ExcusedAt(w))

LEMMA ExcusedInit == ASSUME Init PROVE Excused
BY FaultAssumption DEF Init, Excused, ExcusedAt

(* What has failed stays failed.                                           *)
LEMMA CalmBefore ==
  ASSUME Excused, [Next]_vars
  PROVE  /\ faults' \in 0 .. Faults /\ (UNCHANGED faults \/ ~Calm')
         /\ Calm' => Calm /\ UNCHANGED <<faults, stopped>>
<1>1. faults \in 0 .. Faults /\ Faults \in Nat
  BY FaultAssumption DEF Excused
<1>2. (UNCHANGED faults \/ Fault) /\ (UNCHANGED stopped \/ stopped')
  <2>1. CASE UNCHANGED vars \/ Stop
    BY <2>1 DEF vars, Stop
  <2>2. ASSUME NEW w \in Workers, Ask(w) \/ Call(w) PROVE UNCHANGED faults \/ Fault
    BY <2>2 DEF Ask, Call, MakeDir, WriteFile, StartCommand, ReadStdout, ReadStderr, Read,
       Wait, Abort, RemoveDir
  <2>3. ASSUME NEW w \in Workers, Kubectl(w) \/ Kill(w) PROVE UNCHANGED faults \/ Fault
    BY <2>3 DEF Kubectl, Kill, Load, ApplyPatch, Speak, WriteChunk, Exit
  <2>4. ASSUME NEW w \in Workers, Ask(w) \/ Call(w) \/ Kubectl(w) \/ Kill(w)
        PROVE  UNCHANGED stopped
    BY <2>4 DEF Ask, Call, Kubectl, Kill, MakeDir, WriteFile, StartCommand, ReadStdout,
       ReadStderr, Read, Wait, Abort, RemoveDir
  <2> QED BY <2>1, <2>2, <2>3, <2>4 DEF Next
<1>3. faults' \in 0 .. Faults /\ (Fault => faults' # Faults)
  BY <1>1, <1>2 DEF Fault
<1> QED BY <1>2, <1>3 DEF Calm

LEMMA ExcusedCall ==
  ASSUME Sound, NEW w \in Workers, ExcusedAt(w), Call(w),
         Calm, UNCHANGED <<faults, stopped>>
  PROVE  ExcusedAt(w)'
<1>1. ~Fault /\ ~stopped
  BY FaultAssumption DEF Fault, Calm
<1>2. step[w] # "idle" /\ meant[w] # None
  BY DEF Call, ExcusedAt, MakeDir, WriteFile, Files, StartCommand, ReadStdout, ReadStderr,
     Wait, Abort, RemoveDir
<1>3. UNCHANGED meant
  BY <1>1 DEF Call, MakeDir, WriteFile, StartCommand, ReadStdout, ReadStderr, Read, Wait,
     Abort, RemoveDir
<1>4. step'[w] # "abort"
  BY <1>1 DEF Call, ExcusedAt, MakeDir, WriteFile, StartCommand, ReadStdout, ReadStderr,
     Read, Wait, Abort, RemoveDir, Fail, Goto, After, Files, Sound, TypeOK
<1>5. CASE UNCHANGED child
  BY <1>2, <1>3, <1>4, <1>5 DEF ExcusedAt
<1>6. CASE child'[w] = None
  BY <1>2, <1>3, <1>4, <1>6 DEF ExcusedAt
<1>7. CASE child'[w] = Launched
  BY <1>2, <1>3, <1>4, <1>7 DEF ExcusedAt, Launched
<1>8. ASSUME NEW s \in Streams, NEW n, Read(w, s, n), step[w] \in WithChild
      PROVE  ExcusedAt(w)'
  <2>1. child[w] \in Process /\ child[w] # None
    BY <1>8, OwnChild, AbsentAssumption
  <2>2. child'[w] # None => child'[w].at = child[w].at /\ child'[w].run = child[w].run
    BY <1>8, <2>1 DEF Read, Become, Process, Sound, TypeOK
  <2> QED BY <1>2, <1>3, <1>4, <2>1, <2>2 DEF ExcusedAt
<1>9. UNCHANGED child \/ child'[w] \in {None, Launched} \/ ReadStdout(w) \/ ReadStderr(w)
  BY DEF Call, MakeDir, WriteFile, StartCommand, Wait, Abort, RemoveDir, Become, Sound, TypeOK
<1> QED BY <1>5, <1>6, <1>7, <1>8, <1>9 DEF ReadStdout, ReadStderr, Streams, WithChild

LEMMA ExcusedLoad ==
  ASSUME Sound, Faithful, PlainRequests, NEW w \in Workers, child[w] # None, Load(w),
         UNCHANGED <<callVars, tmp>>, ExcusedAt(w), ~Fault
  PROVE  ExcusedAt(w)'
<1>1. /\ FaithfulAt(w) /\ child[w] \in Process /\ child[w].at = "loading"
      /\ step[w] \in WithChild /\ step[w] \in WithDir /\ tmp[dir[w]] \in Directory
      /\ UNCHANGED <<step, meant>>
  BY OwnChild, OwnDir DEF Faithful, Load, callVars
<1>2. meant[w] # None /\ input[w] \in Request
  <2>1. step[w] # "idle" /\ input[w] # None
    BY <1>1 DEF WithChild, Sound, TypeOK
  <2> QED BY <1>1, <2>1, AskAssumption DEF ExcusedAt, FaithfulAt
<1>3. \A f \in Files :
        tmp[dir[w]][f] # None /\ tmp[dir[w]][f].of = input[w] /\ tmp[dir[w]][f].whole
  BY <1>1, <1>2 DEF FaithfulAt, FilesWritten, Later, Files
<1>4. PICK run \in Loads(tmp[dir[w]]) :
        Become(w, [child[w] EXCEPT !.at = "patching", !.run = run])
  BY <1>3 DEF Load, Complete
<1>5. run # GivenUp
  <2>1. run.doc = Embed(input[w].params, input[w].template)
    BY <1>1, <1>2, <1>3, LoadsWhole
  <2>2. run.doc \in Manifest
    BY <1>2, <2>1, EmbedType DEF Request
  <2> QED BY <2>2, FailedAssumption DEF GivenUp
<1> DEFINE c == [child[w] EXCEPT !.at = "patching", !.run = run]
<1>6. c.at = "patching" /\ c.run = run /\ child'[w] = c
  BY <1>1, <1>4 DEF Process, Become, Sound, TypeOK
<1> HIDE DEF c
<1> QED BY <1>1, <1>2, <1>5, <1>6 DEF ExcusedAt

(* kubectl gives up over the patch that does not apply to the template.    *)
LEMMA ExcusedApplyPatch ==
  ASSUME Sound, Faithful, NEW w \in Workers, child[w] # None, ApplyPatch(w),
         UNCHANGED <<callVars, tmp>>, ExcusedAt(w)
  PROVE  ExcusedAt(w)'
<1> DEFINE run == ApplyNext(child[w].run)
           c == [child[w] EXCEPT !.run = run]
<1>1. /\ FaithfulAt(w) /\ child[w] \in Process /\ child[w].at = "patching"
      /\ child[w].run.left # <<>> /\ child'[w] = c
      /\ step[w] \in WithDir /\ step[w] \in WithChild /\ UNCHANGED step
  BY OwnChild DEF Faithful, ApplyPatch, Become, callVars, Sound, TypeOK
<1>2. meant[w] # None /\ input[w] \in Request
  BY <1>1 DEF ExcusedAt, WithChild, Sound, TypeOK
<1>3. meant'[w] = ApplyNext(meant[w])
  BY <1>2 DEF ApplyPatch, Sound, TypeOK
<1>4. Agree(child[w].run, meant[w], input[w].params) /\ input[w].params \in JobParams
  BY <1>1, <1>2 DEF FaithfulAt, RunsAsMeant, Request
<1>5. run = GivenUp => meant'[w] = GivenUp
  BY <1>1, <1>3, <1>4, ApplyAgrees
<1>6. meant'[w] # None
  <2>1. ApplyNext(meant[w]) \in Application(Template)
    BY <1>1, <1>2, Unmoved, ApplyNextType DEF Template
  <2> QED BY <1>3, <2>1, AbsentAssumption
<1>7. c.at = "patching" /\ c.run = run
  BY <1>1 DEF Process
<1> HIDE DEF c, run
<1> QED BY <1>1, <1>5, <1>6, <1>7 DEF ExcusedAt

LEMMA ExcusedOutput ==
  ASSUME Sound, NEW w \in Workers, child[w] # None, ExcusedAt(w),
         Speak(w) \/ WriteChunk(w) \/ Exit(w), UNCHANGED <<callVars, tmp>>
  PROVE  ExcusedAt(w)'
<1>1. /\ child[w] \in Process /\ child[w].at # "loading" /\ UNCHANGED <<step, meant>>
  BY OwnChild DEF Speak, WriteChunk, Exit, callVars
<1>2. child'[w].run = child[w].run /\ child'[w].at \in {"writing", "exited"}
  <2>1. ASSUME Speak(w)
        PROVE  child'[w].run = child[w].run /\ child'[w].at = "writing"
    <3>1. PICK words : child'[w] = [child[w] EXCEPT !.at = "writing", !.todo = words]
      BY <2>1 DEF Speak, Become, Sound, TypeOK
    <3> QED BY <1>1, <3>1 DEF Process
  <2>2. ASSUME WriteChunk(w)
        PROVE  child'[w].run = child[w].run /\ child'[w].at = "writing"
    BY <1>1, <2>2 DEF WriteChunk, Become, Process, Sound, TypeOK
  <2>3. ASSUME Exit(w)
        PROVE  child'[w].run = child[w].run /\ child'[w].at = "exited"
    BY <1>1, <2>3 DEF Exit, Become, Process, Sound, TypeOK
  <2> QED BY <2>1, <2>2, <2>3
<1> QED BY <1>1, <1>2 DEF ExcusedAt

LEMMA ExcusedNext ==
  ASSUME Sound, Faithful, PlainRequests, Excused, [Next]_vars
  PROVE  Excused'
<1> SUFFICES ASSUME Calm' PROVE \A w \in Workers : ExcusedAt(w)'
  BY CalmBefore DEF Excused
<1>1. Calm /\ UNCHANGED <<faults, stopped>> /\ ~Fault /\ \A w \in Workers : ExcusedAt(w)
  BY CalmBefore, FaultAssumption DEF Excused, Calm, Fault
<1>2. CASE UNCHANGED vars \/ Stop
  <2>1. UNCHANGED <<step, child, meant>>
    BY <1>2 DEF vars, callVars, Stop
  <2> QED BY <1>1, <2>1 DEF ExcusedAt
<1>3. ASSUME NEW w \in Workers, Ask(w) \/ Call(w) \/ Kubectl(w) \/ Kill(w)
      PROVE  \A v \in Workers : ExcusedAt(v)'
  <2> SUFFICES ExcusedAt(w)'
    BY <1>1, <1>3, OthersUntouched DEF ExcusedAt, Untouched
  <2>1. CASE Ask(w)
    <3>1. PICK r \in Requests[w] :
            meant' = [meant EXCEPT ![w] = [doc |-> r.template, left |-> r.patches]]
      BY <2>1 DEF Ask
    <3>2. [doc |-> r.template, left |-> r.patches] \in Application(Template)
      BY AskAssumption DEF Request, Application
    <3>3. meant'[w] # None
      BY <3>1, <3>2, AbsentAssumption DEF Sound, TypeOK
    <3>4. step'[w] # "abort" /\ child'[w] = None
      BY <2>1 DEF Ask, Goto, Sound, TypeOK, ChildReaped, WithChild
    <3> QED BY <3>3, <3>4 DEF ExcusedAt
  <2>2. CASE Call(w)
    BY <1>1, <2>2, ExcusedCall
  <2>3. CASE Kubectl(w)
    <3>1. child[w] # None /\ UNCHANGED <<callVars, tmp>>
      BY <2>3 DEF Kubectl
    <3> QED BY <1>1, <2>3, <3>1, ExcusedLoad, ExcusedApplyPatch, ExcusedOutput DEF Kubectl
  <2>4. CASE Kill(w)
    BY <1>1, <2>4 DEF Kill, Calm
  <2> QED BY <1>3, <2>1, <2>2, <2>3, <2>4
<1> QED BY <1>2, <1>3 DEF Next

Serving == [w \in Workers |-> IF step[w] \in {"idle", "remove"} THEN None ELSE input[w]]

(* PatchService speaks of the same documents and patches.                  *)
LEMMA SameDocuments ==
  /\ Service!Manifest = Manifest
  /\ Service!GivenUp = GivenUp
  /\ \A r \in Request : Service!Seed(r) = Seed(r)
BY DEF Service!Manifest, Manifest, Service!Content, Content, Service!ManifestPaths,
   ManifestPaths, Service!ParamPaths, ParamPaths, Service!InTemplate, InTemplate,
   Service!PodPaths, PodPaths, Service!GivenUp, GivenUp, Service!Seed, Seed, Service!Embed, Embed

LEMMA SameEmbed ==
  ASSUME NEW params, NEW template
  PROVE  Service!Embed(params, template) = Embed(params, template)
BY DEF Service!Embed, Embed, Service!ManifestPaths, ManifestPaths, Service!ParamPaths,
   ParamPaths, Service!InTemplate, InTemplate, Service!PodPaths, PodPaths

LEMMA SameApplyNext ==
  ASSUME NEW s
  PROVE  Service!ApplyNext(s) = ApplyNext(s)
<1>1. /\ Service!Applies(s.doc, Head(s.left)) <=> Applies(s.doc, Head(s.left))
      /\ Service!Result(s.doc, Head(s.left)) = Result(s.doc, Head(s.left))
      /\ Service!GivenUp = GivenUp
  BY DEF Service!Applies, Applies, Service!Has, Has, Service!Result, Result,
     Service!GivenUp, GivenUp
<1> QED BY <1>1 DEF Service!ApplyNext, ApplyNext

(* What a step of one worker is to those who wait.                         *)
LEMMA ServingAfter ==
  ASSUME Sound, NEW w \in Workers, NEW s, step' = [step EXCEPT ![w] = s],
         UNCHANGED input
  PROVE  /\ s \in {"idle", "remove"} => Serving' = [Serving EXCEPT ![w] = None]
         /\ s \notin {"idle", "remove"} /\ step[w] \notin {"idle", "remove"} =>
              UNCHANGED Serving
BY DEF Sound, TypeOK, Serving

(* A step the caller does not see.                                         *)
LEMMA Unseen ==
  ASSUME UNCHANGED <<Serving, meant, answer>>,
         UNCHANGED <<faults, stopped>> \/ ~Calm'
  PROVE  [Service!Next]_(Service!vars)
<1>1. CASE ~Calm'
  BY <1>1 DEF Service!Next, Service!Disturb, Serving, Calm
<1>2. CASE UNCHANGED <<faults, stopped>>
  BY <1>2 DEF Service!vars, Serving
<1> QED BY <1>1, <1>2

LEMMA ServedAsk ==
  ASSUME Sound, NEW w \in Workers, Ask(w)
  PROVE  Service!Ask(w)
<1>1. PICK r \in Requests[w] :
        /\ input' = [input EXCEPT ![w] = r]
        /\ meant' = [meant EXCEPT ![w] = [doc |-> r.template, left |-> r.patches]]
        /\ \/ r.patches = <<>> /\ Answer(w, Seed(r)) /\ UNCHANGED step
           \/ r.patches # <<>> /\ Answer(w, None) /\ Goto(w, "mkdir")
  BY DEF Ask
<1>2. step[w] = "idle" /\ UNCHANGED <<faults, stopped>>
  BY DEF Ask
<1>3. Serving[w] = None /\ r \in Request /\ Service!Seed(r) = Seed(r)
  BY <1>2, AskAssumption, SameDocuments DEF Serving
<1>4. CASE r.patches = <<>>
  <2>1. UNCHANGED Serving /\ answer' = [answer EXCEPT ![w] = Seed(r)]
    BY <1>1, <1>2, <1>4 DEF Serving, Answer, Sound, TypeOK
  <2> QED BY <1>1, <1>2, <1>3, <1>4, <2>1 DEF Service!Ask, Serving
<1>5. CASE r.patches # <<>>
  <2>1. /\ Serving' = [Serving EXCEPT ![w] = r]
        /\ answer' = [answer EXCEPT ![w] = None]
    BY <1>1, <1>5 DEF Serving, Answer, Goto, Sound, TypeOK
  <2> QED BY <1>1, <1>2, <1>3, <1>5, <2>1 DEF Service!Ask, Serving
<1> QED BY <1>4, <1>5

(* An error, with the reason it has.                                       *)
LEMMA ServedFail ==
  ASSUME Sound, NEW w \in Workers, step[w] \notin {"idle", "remove"}, Answer(w, Failed),
         NEW s \in {"idle", "remove"}, Goto(w, s), UNCHANGED <<input, meant>>,
         ~Calm' \/ (meant[w] = GivenUp /\ UNCHANGED <<faults, stopped>>)
  PROVE  [Service!Next]_(Service!vars)
<1>1. Serving[w] # None
  BY DEF Serving, Sound, TypeOK
<1>2. Serving' = [Serving EXCEPT ![w] = None]
  BY ServingAfter DEF Goto
<1>3. Service!Return(w, Failed)
  BY <1>1, <1>2 DEF Service!Return, Serving, Answer
<1>4. Service!Fail(w)
  BY <1>3, SameDocuments DEF Service!Fail, Calm
<1> QED BY <1>4 DEF Service!Next

LEMMA ServedMakeDir ==
  ASSUME Sound, NEW w \in Workers, MakeDir(w), ~Fault \/ ~Calm'
  PROVE  [Service!Next]_(Service!vars)
<1>1. step[w] = "mkdir" /\ UNCHANGED <<input, child, meant, stopped>>
  BY DEF MakeDir
<1>2. CASE Goto(w, "resource") /\ UNCHANGED <<answer, faults>>
  <2>1. UNCHANGED Serving
    BY <1>1, <1>2 DEF Goto, Serving, Sound, TypeOK
  <2> QED BY <1>1, <1>2, <2>1, Unseen
<1>3. CASE Fault /\ Answer(w, Failed) /\ Goto(w, "idle")
  BY <1>1, <1>3, ServedFail
<1> QED BY <1>2, <1>3 DEF MakeDir

LEMMA ServedWriteFile ==
  ASSUME Sound, NEW w \in Workers, WriteFile(w), ~Fault \/ ~Calm'
  PROVE  [Service!Next]_(Service!vars)
<1>1. /\ step[w] \in Files /\ step[w] \notin {"idle", "remove"}
      /\ After[step[w]] \notin {"idle", "remove"} /\ UNCHANGED <<input, stopped>>
  BY DEF WriteFile, Files, After
<1>2. CASE Goto(w, After[step[w]]) /\ UNCHANGED <<answer, meant, faults>>
  BY <1>1, <1>2, ServingAfter, Unseen DEF Goto
<1>3. CASE Fault /\ Goto(w, After[step[w]]) /\ UNCHANGED answer
           /\ meant' = [meant EXCEPT ![w] = None]
  <2>1. Serving[w] # None /\ UNCHANGED Serving
    BY <1>1, <1>3, ServingAfter DEF Goto, Serving, Sound, TypeOK
  <2> QED BY <1>3, <2>1 DEF Service!Next, Service!Lose, Serving, Calm
<1>4. CASE Fault /\ Fail(w) /\ UNCHANGED meant
  BY <1>1, <1>4, ServedFail DEF Fail
<1> QED BY <1>2, <1>3, <1>4 DEF WriteFile

LEMMA ServedStartCommand ==
  ASSUME Sound, NEW w \in Workers, StartCommand(w), ~Fault \/ ~Calm'
  PROVE  [Service!Next]_(Service!vars)
<1>1. step[w] = "start" /\ UNCHANGED <<input, meant, stopped>>
  BY DEF StartCommand
<1>2. CASE Goto(w, "stdout") /\ UNCHANGED <<answer, faults>>
  <2>1. UNCHANGED Serving
    BY <1>1, <1>2 DEF Goto, Serving, Sound, TypeOK
  <2> QED BY <1>1, <1>2, <2>1, Unseen
<1>3. CASE Fail(w) /\ (stopped \/ Fault)
  <2>1. ~Calm'
    BY <1>1, <1>3 DEF Calm
  <2> QED BY <1>1, <1>3, <2>1, ServedFail DEF Fail
<1> QED BY <1>2, <1>3 DEF StartCommand

LEMMA ServedRead ==
  ASSUME Sound, NEW w \in Workers, step[w] \in WithChild, NEW stream, NEW next \in WithChild,
         Read(w, stream, next), ~Fault \/ ~Calm'
  PROVE  [Service!Next]_(Service!vars)
<1>1. /\ step[w] \notin {"idle", "remove"} /\ next \notin {"idle", "remove"}
      /\ UNCHANGED <<input, answer, meant, stopped>> /\ (UNCHANGED faults \/ ~Calm')
  BY DEF WithChild, Read
<1>2. UNCHANGED step \/ Goto(w, next) \/ Goto(w, "abort")
  BY DEF Read
<1>3. UNCHANGED Serving
  BY <1>1, <1>2, ServingAfter DEF Goto, Serving
<1> QED BY <1>1, <1>3, Unseen

LEMMA ServedWait ==
  ASSUME Sound, Faithful, Excused, NEW w \in Workers, Wait(w)
  PROVE  [Service!Next]_(Service!vars)
<1>1. /\ step[w] = "wait" /\ step[w] \in WithChild /\ Goto(w, "remove")
      /\ UNCHANGED <<input, meant, stopped, faults>>
  BY DEF Wait, WithChild
<1>2. /\ FaithfulAt(w) /\ child[w] \in Process /\ child[w] # None
      /\ Calm => ExcusedAt(w)
  BY <1>1, OwnChild, AbsentAssumption DEF Faithful, Excused
<1>3. UNCHANGED Calm
  BY <1>1 DEF Calm
<1>4. CASE Answer(w, Failed)
  <2>1. CASE child[w].at = "exited"
    <3>1. child[w].run.doc = Failed
      BY <1>4, <2>1 DEF Wait, Answer, Sound, TypeOK
    <3>2. child[w].run = GivenUp
      BY <1>2, <3>1, FailedAssumption DEF Process, Application
    <3>3. ~Calm' \/ meant[w] = GivenUp
      BY <1>2, <1>3, <2>1, <3>2 DEF ExcusedAt
    <3> QED BY <1>1, <1>4, <3>3, ServedFail
  <2>2. CASE child[w].at = "killed"
    <3>1. ~Calm'
      BY <1>2, <1>3, <2>2 DEF ExcusedAt
    <3> QED BY <1>1, <1>4, <3>1, ServedFail
  <2> QED BY <2>1, <2>2 DEF Wait, Ended
<1>5. CASE child[w].at = "exited" /\ child[w].run.doc # Failed
  <2> DEFINE doc == child[w].run.doc
  <2>1. answer' = [answer EXCEPT ![w] = doc] /\ answer'[w] = doc
    BY <1>5 DEF Wait, Answer, Sound, TypeOK
  <2>2. doc \in Manifest
    BY <1>2, <1>5 DEF Process, Application, GivenUp
  <2>3. Serving[w] = input[w] /\ input[w] # None
    BY <1>1 DEF Serving, Sound, TypeOK
  <2>4. Serving' = [Serving EXCEPT ![w] = None]
    BY <1>1, ServingAfter DEF Goto
  <2>5. Service!Return(w, doc) /\ UNCHANGED Calm
    BY <1>1, <1>3, <2>1, <2>3, <2>4 DEF Service!Return, Serving
  <2>6. CASE meant[w] = None
    <3>1. \E d \in Service!Manifest : Service!Return(w, d)
      <4>1. doc \in Service!Manifest
        BY <2>2, SameDocuments
      <4> HIDE DEF doc
      <4> QED BY <2>5, <4>1 DEF Service!Return
    <3> QED BY <2>5, <2>6, <3>1 DEF Service!Next, Service!Succeed, Calm
  <2>7. CASE meant[w] # None
    <3>1. Agree(child[w].run, meant[w], input[w].params) /\ child[w].run # GivenUp
      BY <1>2, <1>5, <2>7 DEF FaithfulAt, RunsAsMeant, GivenUp
    <3>2. /\ meant[w].left = <<>> /\ doc = Embed(input[w].params, meant[w].doc)
          /\ meant[w].doc # Failed
      <4>1. child[w].run.left = <<>>
        BY <1>2, <1>5 DEF FaithfulAt, RunsAsMeant
      <4> QED BY <3>1, <4>1, RewriteEmpty, FailedAssumption DEF Agree
    <3>3. Service!Return(w, Service!Embed(Serving[w].params, meant[w].doc))
      <4>1. Service!Embed(input[w].params, meant[w].doc) = doc
        BY <3>2, SameEmbed
      <4> QED BY <2>1, <2>3, <2>4, <1>1, <4>1 DEF Service!Return, Serving
    <3>4. Service!Succeed(w)
      BY <2>5, <2>7, <3>2, <3>3 DEF Service!Succeed, Serving, Calm
    <3> QED BY <3>4 DEF Service!Next
  <2> QED BY <2>6, <2>7
<1> QED BY <1>4, <1>5 DEF Wait, Ended

LEMMA ServedKubectl ==
  ASSUME Sound, Faithful, NEW w \in Workers, Kubectl(w), ~Fault \/ ~Calm'
  PROVE  [Service!Next]_(Service!vars)
<1>1. child[w] # None /\ step[w] \in WithChild /\ UNCHANGED <<step, input, answer, stopped>>
  BY OwnChild DEF Kubectl, callVars
<1>2. UNCHANGED Serving
  BY <1>1 DEF Serving
<1>3. CASE UNCHANGED meant /\ (UNCHANGED faults \/ Fault)
  BY <1>1, <1>2, <1>3, Unseen
<1>4. CASE ApplyPatch(w) /\ meant[w] # None
  <2>1. meant' = [meant EXCEPT ![w] = Service!ApplyNext(meant[w])] /\ UNCHANGED faults
    BY <1>4, SameApplyNext DEF ApplyPatch
  <2>2. Serving[w] # None
    BY <1>1 DEF Serving, WithChild, Sound, TypeOK
  <2> QED BY <1>1, <1>2, <1>4, <2>1, <2>2 DEF Service!Next, Service!Apply, Serving
<1> QED BY <1>3, <1>4 DEF Kubectl, Load, ApplyPatch, Speak, WriteChunk, Exit

LEMMA ServedNext ==
  ASSUME Sound, Faithful, PlainRequests, Excused, [Next]_vars
  PROVE  [Service!Next]_(Service!vars)
<1>1. /\ faults' \in 0 .. Faults /\ (UNCHANGED faults \/ ~Calm') /\ (~Fault \/ ~Calm')
      /\ (Calm' => Calm)
  BY CalmBefore, FaultAssumption DEF Excused, Fault
<1>2. CASE UNCHANGED vars
  <2>1. UNCHANGED Serving
    BY <1>2 DEF vars, callVars, Serving
  <2> QED BY <1>2, <2>1, Unseen DEF vars, callVars
<1>3. CASE Stop
  <2>1. UNCHANGED <<Serving, meant, answer>> /\ ~Calm'
    BY <1>3 DEF Stop, callVars, Serving, Calm
  <2> QED BY <2>1, Unseen
<1>4. ASSUME NEW w \in Workers, Ask(w) \/ Call(w) \/ Kubectl(w) \/ Kill(w)
      PROVE  [Service!Next]_(Service!vars)
  <2>1. CASE Ask(w)
    BY <2>1, ServedAsk DEF Service!Next
  <2>2. CASE MakeDir(w) \/ WriteFile(w) \/ StartCommand(w)
    BY <1>1, <2>2, ServedMakeDir, ServedWriteFile, ServedStartCommand
  <2>3. CASE ReadStdout(w) \/ ReadStderr(w)
    BY <1>1, <2>3, ServedRead DEF ReadStdout, ReadStderr, WithChild
  <2>4. CASE Wait(w)
    BY <2>4, ServedWait
  <2>5. CASE Abort(w)
    <3>1. step[w] = "abort" /\ Fail(w) /\ UNCHANGED <<input, meant, stopped, faults>>
      BY <2>5 DEF Abort
    <3>2. ~Calm'
      BY <1>1, <3>1 DEF Excused, ExcusedAt
    <3> QED BY <3>1, <3>2, ServedFail DEF Fail
  <2>6. CASE RemoveDir(w)
    <3>1. /\ step[w] = "remove" /\ Goto(w, "idle")
          /\ UNCHANGED <<input, answer, meant, stopped>>
      BY <2>6 DEF RemoveDir
    <3>2. UNCHANGED Serving
      BY <3>1 DEF Goto, Serving, Sound, TypeOK
    <3> QED BY <1>1, <3>1, <3>2, Unseen
  <2>7. CASE Kubectl(w)
    BY <1>1, <2>7, ServedKubectl
  <2>8. CASE Kill(w)
    <3>1. UNCHANGED <<Serving, meant, answer, faults, stopped>>
      BY <2>8 DEF Kill, callVars, Serving
    <3> QED BY <3>1, Unseen
  <2> QED BY <1>4, <2>1, <2>2, <2>3, <2>4, <2>5, <2>6, <2>7, <2>8 DEF Call
<1> QED BY <1>2, <1>3, <1>4 DEF Next

(* PatchRunner, with its directories, processes and pipes, implements      *)
(* PatchService: patches are applied one by one to the template of the     *)
(* worker that asked, no answer comes early or is another worker's, and    *)
(* until a step fails or the manager stops, a call only fails when a patch *)
(* does not apply.                                                         *)
THEOREM ImplementsPatchService ==
  ASSUME PlainRequests
  PROVE  Spec => ServesPatches
<1>1. Init => Sound /\ Faithful /\ Excused
  BY SoundInit, FaithfulInit, ExcusedInit
<1>2. Sound /\ Faithful /\ Excused /\ [Next]_vars => Sound' /\ Faithful' /\ Excused'
  BY SoundNext, FaithfulNext, ExcusedNext
<1>3. Init => Service!Init
  <2>1. ASSUME Init PROVE Serving = [w \in Workers |-> None]
    BY <2>1 DEF Init, Serving
  <2> QED BY <2>1 DEF Init, Service!Init, Serving
<1>4. Sound /\ Faithful /\ Excused /\ [Next]_vars => [Service!Next]_(Service!vars)
  BY ServedNext
<1> QED BY <1>1, <1>2, <1>3, <1>4, PTL DEF Spec, ServesPatches, Service!Spec
=============================================================================
