-------------------------- MODULE BundleGeneration --------------------------
(***************************************************************************)
(* `generate kustomize manifests` and `generate bundle` run over and over  *)
(* on one project (internal/cmd/operator-sdk/generate, internal/generate,  *)
(* internal/util/bundleutil).  Between commands the user edits the project *)
(* and the CSV base.  A command is a sequence of file writes, each of      *)
(* which may fail and end the process.  Collection and RBAC are modelled   *)
(* by ManifestCollector and BundleRBAC; here `proj` is what was collected. *)
(***************************************************************************)
EXTENDS Integers, Sequences, FiniteSets

CONSTANTS
  Projects,    \* collected projects [objs, crs, deps, score, valid]
  Commands,    \* flags [mode, stdout, overwrite, pin, manifests, metadata, version]
  InputDirs,   \* what --input-dir holds: [annot, score]
  Prompts,     \* values of --interactive: subset of {"unset", "on", "off"}
  MaxCommands, MaxEdits, MaxFaults   \* bounds

None == [is |-> "none"]
Cut  == [is |-> "cut"]     \* a file that was truncated and not written

VARIABLES
  proj,      \* the project
  base,      \* config/manifests/bases/<package>.clusterserviceversion.yaml
  kustom,    \* config/manifests/kustomization.yaml exists
  files,     \* <out>/manifests: file name -> content, without the CSV
  csv,       \* <out>/manifests/<package>.clusterserviceversion.yaml
  annot,     \* <out>/metadata/annotations.yaml
  docker,    \* bundle.Dockerfile
  score,     \* <out>/tests/scorecard/config.yaml exists
  inDir,     \* the input directory's own metadata and scorecard config
  cmd,       \* flags of the running or last command
  todo,      \* positions of the objects the running command has still to write
  made,      \* what the running command has built and not yet written
  count,     \* [commands, edits, faults] used
  pc,
  result     \* of the last command

disk == <<files, csv, annot, docker, score>>
vars == <<proj, base, kustom, disk, inDir, cmd, todo, made, count, pc, result>>

NoCmd == [mode |-> "stdin", stdout |-> FALSE, overwrite |-> TRUE, pin |-> FALSE,
          manifests |-> FALSE, metadata |-> FALSE, version |-> 0]

Init ==
  /\ proj \in Projects /\ inDir \in InputDirs
  /\ base = None /\ kustom = FALSE
  /\ files = <<>> /\ csv = None /\ annot = None /\ docker = None /\ score = FALSE
  /\ cmd = NoCmd /\ todo = {} /\ made = None
  /\ count = [commands |-> 0, edits |-> 0, faults |-> 0]
  /\ pc = "idle" /\ result = "none"

Spend(what) == count' = [count EXCEPT ![what] = @ + 1]
CanFault == count.faults < MaxFaults
End(r) == pc' = "idle" /\ result' = r /\ todo' = {} /\ made' = None

(* The user changes the project, or the metadata and descriptions of the    *)
(* base by hand.                                                            *)
EditProject ==
  /\ pc = "idle" /\ count.edits < MaxEdits /\ Spend("edits")
  /\ proj' \in Projects \ {proj}
  /\ result' = "none"
  /\ UNCHANGED <<base, kustom, disk, inDir, cmd, todo, made, pc>>

EditBase ==
  /\ pc = "idle" /\ count.edits < MaxEdits /\ base.is = "csv" /\ Spend("edits")
  /\ base' = [base EXCEPT !.ui = "user", !.descs = {proj.objs[k].name : k \in DOMAIN proj.objs}]
  /\ result' = "none"
  /\ UNCHANGED <<proj, kustom, disk, inDir, cmd, todo, made, pc>>

---------------------------------------------------------------------------
(* generate kustomize manifests *)

(* bases.New: a default base of version 0.0.0. *)
newBase == [is |-> "csv", ui |-> "default", descs |-> {}, version |-> 0]

(* What the prompt asks for replaces the UI metadata of a base. *)
Answered(b) == [b EXCEPT !.ui = "answered"]

requiresInteraction(prompt) == prompt = "on" \/ (prompt = "unset" /\ base.is /= "csv")

(* GetBase: the base on disk if there is one; a prompt fills in its UI       *)
(* metadata.                                                                 *)
GetBase(prompt) ==
  LET b == IF base.is = "csv" THEN base ELSE newBase
  IN  IF requiresInteraction(prompt) THEN Answered(b) ELSE b

(* A base file without a CSV in it is an error. *)
BaseUnreadable == base.is = "cut"

KustomizeManifests ==
  /\ pc = "idle" /\ count.commands < MaxCommands /\ Spend("commands")
  /\ \E prompt \in Prompts :
       IF BaseUnreadable THEN End("failed")
       ELSE made' = GetBase(prompt) /\ pc' = "base" /\ result' = "running" /\ todo' = {}
  /\ cmd' = NoCmd
  /\ UNCHANGED <<proj, base, kustom, disk, inDir>>

WriteBase ==
  /\ pc = "base"
  /\ \/ base' = made /\ pc' = "kustomization" /\ UNCHANGED <<todo, made, count, result>>
     \/ CanFault /\ Spend("faults") /\ base' \in {base, Cut} /\ End("failed")
  /\ UNCHANGED <<proj, kustom, disk, inDir, cmd>>

(* A kustomization.yaml that exists is left alone. *)
WriteKustomization ==
  /\ pc = "kustomization"
  /\ kustom' = TRUE /\ End("ok")
  /\ UNCHANGED <<proj, base, disk, inDir, cmd, count>>

---------------------------------------------------------------------------
(* generate bundle: manifests *)

(* validateManifests: exactly one source of manifests; no --output-dir with *)
(* --stdout.                                                                *)
Accepted(c) == c.manifests => c.mode \in {"stdin", "inputDir", "deployDir"}

StartBundle ==
  /\ pc = "idle" /\ count.commands < MaxCommands /\ Spend("commands")
  /\ cmd' \in Commands
  /\ IF ~Accepted(cmd') THEN End("failed")
     ELSE /\ pc' = IF cmd'.manifests THEN "collect" ELSE "metadata"
          /\ result' = "running" /\ todo' = {} /\ made' = None
  /\ UNCHANGED <<proj, base, kustom, disk, inDir>>

Crds(p) == {p.objs[i].name : i \in {j \in DOMAIN p.objs : p.objs[j].kind = "crd"}}

(* applyCustomResourceDefinitions: one entry per served CRD, with the       *)
(* description the base has for it (TRUE) or an empty one.                  *)
Owned(b, p) == [k \in Crds(p) |-> k \in b.descs]

(* The examples and the deployments are those collected, whatever the base  *)
(* had; the CSV validator has the last word.                                *)
applyCustomResources(p) == p.crs
applyDeployments(p) == p.deps
Valid(p) == p.valid

(* Generator.generate: the base (or a default), the version of the flag,    *)
(* then everything that is derived from the collected manifests.            *)
generate(b, p, v) ==
  [is |-> "csv", ui |-> b.ui, version |-> IF v = 0 THEN b.version ELSE v,
   owned |-> Owned(b, p), examples |-> applyCustomResources(p),
   deps |-> applyDeployments(p), pinned |-> FALSE]

(* GetManifestObjects: CRDs, services, other supported kinds and the RBAC   *)
(* objects that are not part of the CSV, without their namespaces; here     *)
(* their positions, in whose order they are written.                        *)
GetManifestObjects(p) == {k \in DOMAIN p.objs : p.objs[k].kind /= "unsupported"}

(* Collection, the kustomize base, and ApplyTo with its validation: an      *)
(* error of any of them comes before the first write.                       *)
Generate ==
  /\ pc = "collect"
  /\ IF BaseUnreadable \/ ~Valid(proj) THEN End("failed")
     ELSE /\ made' = generate(IF base.is = "csv" THEN base ELSE newBase, proj, cmd.version)
          /\ pc' = "csv" /\ UNCHANGED <<todo, result>>
  /\ UNCHANGED <<proj, base, kustom, disk, inDir, cmd, count>>

WriteCSV ==
  /\ pc = "csv"
  /\ \/ /\ csv' = IF cmd.stdout THEN csv ELSE made
        /\ todo' = GetManifestObjects(proj) /\ pc' = "objects"
        /\ UNCHANGED <<made, count, result>>
     \/ /\ CanFault /\ Spend("faults") /\ End("failed")
        /\ csv' \in IF cmd.stdout THEN {csv} ELSE {csv, Cut}
  /\ UNCHANGED <<proj, base, kustom, files, annot, docker, score, inDir, cmd>>

(* File names: a name that this command has already used gets a number. *)
FileName(o) == [kind |-> o.kind, name |-> o.name, dup |-> 0]
NameAt(k) == FileName(proj.objs[k])

(* Mutant: a name that comes again is not numbered. *)
UniqueFileNamePlain(k) == NameAt(k)

UniqueFileName(k) ==
  LET seen == {j \in GetManifestObjects(proj) : j < k}
      dups == {j \in seen : \E l \in seen : l < j /\ NameAt(l) = NameAt(j)}
  IN  IF \E j \in seen : NameAt(j) = NameAt(k)
      THEN [NameAt(k) EXCEPT !.dup = Cardinality(dups) + 1]
      ELSE NameAt(k)

Put(n, v) == [f \in DOMAIN files \cup {n} |-> IF f = n THEN v ELSE files[f]]
Content(o) == [is |-> "obj", obj |-> o]

WriteObject ==
  /\ pc = "objects"
  /\ \E k \in todo :
       /\ \A l \in todo : k <= l
       /\ \/ /\ files' = IF cmd.stdout THEN files
                         ELSE Put(UniqueFileName(k), Content(proj.objs[k]))
             /\ todo' = todo \ {k} /\ UNCHANGED <<made, pc, count, result>>
          \/ /\ CanFault /\ Spend("faults") /\ End("failed")
             /\ files' \in IF cmd.stdout THEN {files} ELSE {files, Put(UniqueFileName(k), Cut)}
  /\ UNCHANGED <<proj, base, kustom, csv, annot, docker, score, inDir, cmd>>

ObjectsWritten ==
  /\ pc = "objects" /\ todo = {}
  /\ pc' = IF cmd.pin THEN "pin" ELSE "score"
  /\ UNCHANGED <<proj, base, kustom, disk, inDir, cmd, todo, made, count, result>>

(* FromDirectory reads every manifest, among them what a failed write has   *)
(* left, and keeps the ClusterServiceVersions.                              *)
Undecodable == \E f \in DOMAIN files : files[f] = Cut

(* pinImages replaces the tags in the CSV by digests; the other manifests   *)
(* are skipped.  Dump truncates the file before it writes.  With --stdout   *)
(* pinImages looks for a directory nobody made.                             *)
pinImages ==
  /\ pc = "pin"
  /\ IF cmd.stdout \/ Undecodable THEN End("failed") /\ UNCHANGED <<csv, count>>
     ELSE \/ /\ csv' = [csv EXCEPT !.pinned = TRUE] /\ pc' = "score"
             /\ UNCHANGED <<todo, made, count, result>>
          \/ /\ CanFault /\ Spend("faults") /\ End("failed")
             /\ csv' \in {csv, Cut}
  /\ UNCHANGED <<proj, base, kustom, files, annot, docker, score, inDir, cmd>>

(* writeScorecardConfig: nothing without a config.  With --stdout the file  *)
(* goes to the current directory.                                           *)
writeScorecardConfig ==
  /\ pc = "score"
  /\ \/ /\ score' = (score \/ (proj.score /\ ~cmd.stdout))
        /\ IF cmd.metadata THEN pc' = "metadata" /\ UNCHANGED <<todo, made, result>> ELSE End("ok")
        /\ UNCHANGED count
     \/ /\ proj.score /\ CanFault /\ Spend("faults") /\ End("failed") /\ UNCHANGED score
  /\ UNCHANGED <<proj, base, kustom, files, csv, annot, docker, inDir, cmd>>

---------------------------------------------------------------------------
(* generate bundle: metadata *)

(* The directory that is looked at for metadata and a scorecard config.     *)
(* runManifests has its own copy of the flags: --deploy-dir does not count. *)
FromInputDir == cmd.mode = "inputDir"
HasMetadata == IF FromInputDir THEN inDir.annot ELSE annot.is = "values"

IsScoreConfigPresent == IF FromInputDir THEN inDir.score ELSE score

runMetadata ==
  /\ pc = "metadata"
  /\ IF HasMetadata /\ ~cmd.overwrite THEN End("ok")
     ELSE /\ made' = [is |-> "metadata", more |-> TRUE,
                      values |-> [is |-> "values", channel |-> cmd.version, score |-> IsScoreConfigPresent]]
          /\ pc' \in {"annotations", "dockerfile"} /\ UNCHANGED <<todo, result>>
  /\ UNCHANGED <<proj, base, kustom, disk, inDir, cmd, count>>

(* The other file of GenerateMetadata follows, or the command is done. *)
Following(other) ==
  IF made.more THEN made' = [made EXCEPT !.more = FALSE] /\ pc' = other /\ UNCHANGED <<todo, result>>
               ELSE End("ok")

(* GenerateMetadata: Dockerfile and annotations.yaml in the order of a map; *)
(* a file is truncated before it is written.                                *)
WriteAnnotations ==
  /\ pc = "annotations"
  /\ \/ annot' = made.values /\ Following("dockerfile") /\ UNCHANGED count
     \/ CanFault /\ Spend("faults") /\ annot' = Cut /\ End("failed")
  /\ UNCHANGED <<proj, base, kustom, files, csv, docker, score, inDir, cmd>>

WriteDockerfile ==
  /\ pc = "dockerfile"
  /\ \/ docker' = made.values /\ Following("annotations") /\ UNCHANGED count
     \/ CanFault /\ Spend("faults") /\ docker' = Cut /\ End("failed")
  /\ UNCHANGED <<proj, base, kustom, files, csv, annot, score, inDir, cmd>>

Next ==
  \/ EditProject \/ EditBase
  \/ KustomizeManifests \/ WriteBase \/ WriteKustomization
  \/ StartBundle \/ Generate \/ WriteCSV \/ WriteObject \/ ObjectsWritten
  \/ pinImages \/ writeScorecardConfig \/ runMetadata
  \/ WriteAnnotations \/ WriteDockerfile

Spec == Init /\ [][Next]_vars

---------------------------------------------------------------------------

Generated == pc = "idle" /\ result = "ok" /\ cmd.manifests /\ ~cmd.stdout

(* BundleReflectsInput: when `generate bundle` has succeeded, whatever      *)
(* earlier commands and failures left behind, every object that belongs     *)
(* into the bundle is in a file of its own with its present content, and    *)
(* the CSV lists the present CRDs, examples and deployments, with digests   *)
(* if --use-image-digests was given and tags otherwise.  Files of objects   *)
(* that are no longer in the project may be left.                           *)
BundleReflectsInput ==
  Generated =>
    /\ \A k \in GetManifestObjects(proj) : \E f \in DOMAIN files : files[f] = Content(proj.objs[k])
    /\ csv.is = "csv" /\ csv.pinned = cmd.pin
    /\ DOMAIN csv.owned = Crds(proj) /\ csv.examples = proj.crs /\ csv.deps = proj.deps
=============================================================================
