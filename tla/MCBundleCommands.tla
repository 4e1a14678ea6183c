-------------------------- MODULE MCBundleCommands --------------------------
(***************************************************************************)
(* An instance of BundleCommands for TLC.  As in MCHelmHelpers, a          *)
(* behaviour is one of a single component.                                 *)
(***************************************************************************)
EXTENDS BundleCommands

-----------------------------------------------------------------------------
(* generate bundle: three projects, one of them invalid; two services of    *)
(* one name come from two namespaces.                                       *)
Obj(k, n, b) == [kind |-> k, name |-> n, body |-> b]
Proj(objs, crs, deps, s, v) == [objs |-> objs, crs |-> crs, deps |-> deps, score |-> s, valid |-> v]
MCProjects ==
  {Proj(<<Obj("crd", "a", 1), Obj("service", "s", 1), Obj("service", "s", 2)>>, {"a"}, {1}, TRUE, TRUE),
   Proj(<<Obj("crd", "b", 1), Obj("service", "s", 1), Obj("unsupported", "u", 1)>>, {}, {2}, FALSE, TRUE),
   Proj(<<Obj("crd", "a", 1)>>, {"a"}, {}, TRUE, FALSE)}
Cmd(m, out, ow, p, man, met, v) ==
  [mode |-> m, stdout |-> out, overwrite |-> ow, pin |-> p, manifests |-> man, metadata |-> met,
   version |-> v]
MCCommands ==
  {Cmd("stdin", FALSE, TRUE, p, TRUE, TRUE, v) : p \in BOOLEAN, v \in {0, 1}} \cup
  {Cmd("inputDir", FALSE, TRUE, FALSE, TRUE, met, 1) : met \in BOOLEAN} \cup
  {Cmd("deployDir", TRUE, TRUE, p, TRUE, FALSE, 0) : p \in BOOLEAN} \cup
  {Cmd("none", FALSE, TRUE, FALSE, TRUE, TRUE, 1), Cmd("stdin", FALSE, FALSE, FALSE, FALSE, TRUE, 2)}
Directory == [annot |-> FALSE, score |-> FALSE]

MCInputDirs == {Directory}

GenerationOff ==
  /\ proj = Proj(<<>>, {}, {}, FALSE, TRUE) /\ base = Gen!None /\ kustom = FALSE
  /\ files = <<>> /\ csv = Gen!None /\ annot = Gen!None /\ docker = Gen!None
  /\ score = FALSE /\ inDir = Directory /\ cmd = Gen!NoCmd /\ todo = {}
  /\ made = Gen!None /\ count = [commands |-> MaxCommands, edits |-> 1, faults |-> 1]
  /\ genPc = "idle" /\ result = "none"

(* packagemanifests: two versions, two channels, the flags that matter, and *)
(* the layouts a user may give a version's directory: config beside the     *)
(* CSV, in directories of their own, two configs, no CSV, a file of several *)
(* documents.                                                               *)
Flags(v, c, d, s) == [version |-> v, channel |-> c, isDefault |-> d, stdout |-> FALSE,
                      sameDir |-> s, objects |-> TRUE]
MCGenerates ==
  {Flags(v, c, d, s) : v \in {1, 2}, c \in {0, 1, 2}, d \in BOOLEAN, s \in BOOLEAN} \cup
  {[Flags(1, 0, FALSE, TRUE) EXCEPT !.stdout = TRUE], [Flags(2, 0, FALSE, TRUE) EXCEPT !.objects = FALSE]}
NoPackage == [is |-> "none"]
Package(channels, default) == [is |-> "package", channels |-> channels, default |-> default]
Layout(csvs, scores, bad) == [csvs |-> csvs, scores |-> scores, bad |-> bad]

MCPackages ==
  {NoPackage, Package(<<[name |-> 1, csv |-> 1]>>, 0),
   Package(<<[name |-> 2, csv |-> 1], [name |-> 1, csv |-> 1]>>, 2),
   Package(<<[name |-> 1, csv |-> 1], [name |-> 1, csv |-> 2]>>, 1)}
MCLayouts ==
  {Layout({"top"}, {"top"}, {}), Layout({"manifests"}, {"tests"}, {}),
   Layout({"manifests"}, {"top", "tests"}, {}), Layout({}, {}, {}),
   Layout({"top"}, {}, {"multi"})}

PackagingOff ==
  /\ package = NoPackage /\ dirs = <<>> /\ bundles = <<>> /\ images = {} /\ outDir = FALSE
  /\ pkgCmd = [op |-> "none", flags |-> Pkg!NoCmd, images |-> FALSE] /\ pkgTodo = {}
  /\ pkgCount = [commands |-> MaxPkgCommands, edits |-> 1, faults |-> 1]
  /\ pkgPc = "idle" /\ pkgResult = "none"

(* bundle validate: an error in any one place, up to two external           *)
(* validators, which may print several values and more than the pipe holds, *)
(* before or after the first value.                                         *)
Object(supported, meta) == [supported |-> supported, meta |-> meta]
Good == [image |-> FALSE, readable |-> TRUE, format |-> TRUE, media |-> "registry",
         objects |-> {Object(TRUE, TRUE)}, csv |-> 0, crds |-> <<0, 0>>, self |-> 0]
External(chunks) == [starts |-> TRUE, chunks |-> chunks, exit |-> 0]
Short == External(<<"passed">>)
Bad   == External(<<"part", "syntax", "part">>)

MCBundles ==
  {[b EXCEPT !.image = im] : im \in BOOLEAN, b \in
     {Good, [Good EXCEPT !.readable = FALSE], [Good EXCEPT !.format = FALSE],
      [Good EXCEPT !.csv = 1], [Good EXCEPT !.self = 1], [Good EXCEPT !.crds = <<0, 1>>],
      [Good EXCEPT !.objects = {Object(FALSE, TRUE)}, !.crds = <<>>],
      [Good EXCEPT !.objects = {Object(FALSE, TRUE)}, !.media = "plain"],
      [Good EXCEPT !.objects = {Object(TRUE, FALSE)}, !.media = "helm"]}}
MCEntrypoints ==
  {<<>>} \cup
  {<<e>> : e \in {External(<<"passed", "part">>), External(<<"passed", "failed">>), External(<<>>), Bad,
                  External(<<"passed", "part", "part", "failed">>), External(<<"Result">>),
                  [Short EXCEPT !.exit = 1], [Short EXCEPT !.starts = FALSE]}} \cup
  {<<e, f>> : e, f \in {Short, External(<<"part", "part", "part", "failed">>), Bad}}

ValidationOff ==
  /\ bundle = Good /\ selected = {} /\ entrypoints = <<>> /\ res = {} /\ pending = <<>> /\ i = 1
  /\ proc = "none" /\ written = 0 /\ pipe = <<>> /\ decoded = "reading" /\ deferred = {} /\ left = {}
  /\ faults = 0 /\ pc = "done" /\ exit = "ok"

\* These inputs are such as the theorems of BundleProofs speak of.
ASSUME InputsAsAssumed == ValidInputs /\ ValidProjects /\ ValidPackages /\ ChannelInputs

-----------------------------------------------------------------------------
MCInit ==
  \/ Gen!Init /\ PackagingOff /\ ValidationOff
  \/ GenerationOff /\ Pkg!Init /\ ValidationOff
  \/ GenerationOff /\ PackagingOff /\ Init

genVars == <<proj, base, kustom, files, csv, annot, docker, score, inDir,
             cmd, todo, made, count, genPc, result>>
pkgVars == <<package, dirs, bundles, images, outDir, pkgCmd, pkgTodo, pkgCount, pkgPc, pkgResult>>
allVars == <<genVars, pkgVars, vars>>

MCNext ==
  \/ Gen!Next /\ UNCHANGED <<pkgVars, vars>>
  \/ Pkg!Next /\ UNCHANGED <<genVars, vars>>
  \/ Next /\ UNCHANGED <<genVars, pkgVars>>

MCSpec == MCInit /\ [][MCNext]_allVars /\ Fairness
=============================================================================
