-------------------------- MODULE PackageManifests --------------------------
(***************************************************************************)
(* `generate packagemanifests` and `pkgman-to-bundle` run over and over on *)
(* one package directory (internal/generate/packagemanifest,               *)
(* internal/cmd/operator-sdk/generate/packagemanifests and pkgmantobundle).*)
(* A package is a file of channels and one directory per version.  Every   *)
(* write may fail and end the command; the user may rearrange a version's  *)
(* directory or remove the migrated bundles between commands.  How a CSV   *)
(* and its objects are made is the subject of BundleGeneration.            *)
(***************************************************************************)
EXTENDS Integers, Sequences, FiniteSets, SequencesExt

CONSTANTS
  Versions,      \* numbers; the CSV of version v is named after v
  Generates,     \* flags [version, channel, isDefault, stdout, sameDir, objects]
  Packages,      \* the package file at the start: None or one of the user's
  Layouts,       \* what the user may make of a version's directory
  BaseImages,    \* --image-tag-base given: a set of Booleans
  MaxCommands, MaxEdits, MaxFaults   \* bounds

None == [is |-> "none"]
Cut  == [is |-> "cut"]     \* a file that was truncated and not written
Alpha == 1                 \* channels are numbers in the order of their names; 0 is ""
Package(channels, default) == [is |-> "package", channels |-> channels, default |-> default]

VARIABLES
  package,   \* <dir>/<name>.package.yaml
  dirs,      \* version -> [csvs, scores: where in it such a file is; bad: unreadable files]
  bundles,   \* version -> [manifests, config, meta], what pkgman-to-bundle wrote
  images,    \* versions whose bundle image was built
  outDir,    \* the output directory of pkgman-to-bundle exists
  cmd,       \* the running or last command
  todo,      \* the versions whose directories it has still to migrate
  count,     \* [commands, edits, faults] used
  pc, result

vars == <<package, dirs, bundles, images, outDir, cmd, todo, count, pc, result>>

NoCmd == [version |-> 0, channel |-> 0, isDefault |-> FALSE, stdout |-> FALSE,
          sameDir |-> TRUE, objects |-> TRUE]

Init ==
  /\ package \in Packages /\ dirs = <<>>
  /\ bundles = <<>> /\ images = {} /\ outDir = FALSE
  /\ cmd = [op |-> "none", flags |-> NoCmd, images |-> FALSE] /\ todo = {}
  /\ count = [commands |-> 0, edits |-> 0, faults |-> 0]
  /\ pc = "idle" /\ result = "none"

Spend(what) == count' = [count EXCEPT ![what] = @ + 1]
CanFault == count.faults < MaxFaults
End(r) == pc' = "idle" /\ result' = r /\ todo' = {}
Put(f, k, v) == [x \in DOMAIN f \cup {k} |-> IF x = k THEN v ELSE f[x]]

(* Any step of a command may fail and end it. *)
Fail == CanFault /\ Spend("faults") /\ End("failed")

(* The user rearranges the files of a version, or removes the bundles. *)
EditVersion ==
  /\ pc = "idle" /\ count.edits < MaxEdits /\ Spend("edits")
  /\ \E v \in DOMAIN dirs, l \in Layouts :
       l /= dirs[v] /\ dirs' = Put(dirs, v, l)
  /\ result' = "none"
  /\ UNCHANGED <<package, bundles, images, outDir, cmd, todo, pc>>

RemoveBundles ==
  /\ pc = "idle" /\ outDir /\ count.edits < MaxEdits /\ Spend("edits")
  /\ outDir' = FALSE /\ bundles' = <<>> /\ result' = "none"
  /\ UNCHANGED <<package, dirs, images, cmd, todo, pc>>

---------------------------------------------------------------------------
(* generate packagemanifests *)

Names(p) == {p.channels[i].name : i \in DOMAIN p.channels}

(* setChannels: the first channel of that name gets the CSV; a new one is   *)
(* appended.                                                                *)
setChannels(channels, name, csv) ==
  LET at == {i \in DOMAIN channels : channels[i].name = name}
      first == CHOOSE i \in at : \A j \in at : i <= j
  IN  IF at = {} THEN Append(channels, [name |-> name, csv |-> csv])
      ELSE [channels EXCEPT ![first].csv = csv]

sortChannelsByName(channels) ==
  LET Before(i, j) == \/ channels[i].name < channels[j].name
                      \/ channels[i].name = channels[j].name /\ i < j
      place(i) == Cardinality({j \in DOMAIN channels : Before(j, i)}) + 1
  IN  [k \in DOMAIN channels |-> channels[CHOOSE i \in DOMAIN channels : place(i) = k]]

(* Mutant: the package starts anew with every version. *)
GetBaseAnew(sameDir) == Package(<<>>, 0)

(* GetBase: the package file of the input directory, if there is one.  By   *)
(* default that is the output directory too.                                *)
GetBase(sameDir) ==
  IF sameDir /\ package.is = "package" THEN package ELSE Package(<<>>, 0)

(* An existing file without a package in it is an error. *)
BaseUnreadable(sameDir) == sameDir /\ package.is = "cut"

(* generate: the named channel, or alpha in a package without channels,     *)
(* gets the new CSV as its head.                                            *)
generate(f) ==
  LET base == GetBase(f.sameDir)
      channels == sortChannelsByName(setChannels(base.channels, f.channel, f.version))
  IN  IF f.channel /= 0
      THEN Package(channels, IF f.isDefault \/ Len(channels) = 1 THEN f.channel
                             ELSE base.default)
      ELSE IF base.channels = <<>>
      THEN Package(setChannels(<<>>, Alpha, f.version), Alpha)
      ELSE base

(* validatePackageManifest *)
Valid(p) ==
  /\ p.channels /= <<>> /\ Cardinality(Names(p)) = Len(p.channels)
  /\ p.default = 0 => Len(p.channels) = 1
  /\ p.default /= 0 => p.default \in Names(p)

(* setDefaults leaves no output directory with --stdout; creating it, the   *)
(* first thing run does, then fails.                                        *)
OutputDirOK(f) == ~f.stdout

Accepted(f) == f.isDefault => f.channel /= 0

StartGenerate ==
  /\ pc = "idle" /\ count.commands < MaxCommands /\ Spend("commands")
  /\ \E f \in Generates :
       /\ cmd' = [op |-> "generate", flags |-> f, images |-> FALSE]
       /\ (IF Accepted(f) /\ OutputDirOK(f) /\ ~BaseUnreadable(f.sameDir) /\ Valid(generate(f))
           THEN pc' = "package" /\ result' = "running" /\ UNCHANGED todo
           ELSE End("failed"))
  /\ UNCHANGED <<package, dirs, bundles, images, outDir>>

(* The package file is written before the CSV is even collected. *)
WritePackage ==
  /\ pc = "package"
  /\ \/ package' = generate(cmd.flags) /\ pc' = "csv" /\ UNCHANGED <<count, result, todo>>
     \/ Fail /\ package' \in {package, Cut}
  /\ UNCHANGED <<dirs, bundles, images, outDir, cmd>>

NewDir == [csvs |-> {}, scores |-> {}, bad |-> {}]
DirOf(v) == IF v \in DOMAIN dirs THEN dirs[v] ELSE NewDir

(* Collecting, building and validating the CSV may fail with nothing        *)
(* written; so may the write, leaving a truncated file.                     *)
WriteCSV ==
  LET v == cmd.flags.version
      d == DirOf(v)
  IN  /\ pc = "csv"
      /\ \/ /\ dirs' = Put(dirs, v, [d EXCEPT !.csvs = @ \cup {"top"}, !.bad = @ \ {"csv"}])
            /\ (IF cmd.flags.objects THEN pc' = "objects" /\ UNCHANGED <<result, todo>>
                ELSE End("ok"))
            /\ UNCHANGED count
         \/ Fail /\ dirs' \in {dirs, Put(dirs, v, [d EXCEPT !.csvs = @ \ {"top"}, !.bad = @ \cup {"csv"}])}
      /\ UNCHANGED <<package, bundles, images, outDir, cmd>>

WriteObjects ==
  LET v == cmd.flags.version
  IN  /\ pc = "objects"
      /\ \/ dirs' = [dirs EXCEPT ![v].bad = @ \ {"object"}] /\ End("ok") /\ UNCHANGED count
         \/ Fail /\ dirs' \in {dirs, [dirs EXCEPT ![v].bad = @ \cup {"object"}]}
      /\ UNCHANGED <<package, bundles, images, outDir, cmd>>

---------------------------------------------------------------------------
(* pkgman-to-bundle *)

(* loadBundle: every file of a CSV's directory must decode, and none of     *)
(* them may be a directory.                                                 *)
Loads(d) == d.bad \cap {"csv", "object"} = {}
            /\ ("top" \in d.csvs => d.csvs \cup d.scores = {"top"})

(* Mutant: a CSV that heads two channels keeps the last of them. *)
channelsByCSVLast(v) ==
  LET heads == {i \in DOMAIN package.channels : package.channels[i].csv = v}
  IN  {package.channels[i].name : i \in {k \in heads : \A j \in heads : j <= k}}

(* getPackageMetadata: the channels a CSV is the head of. *)
channelsByCSV(v) ==
  LET heads == {i \in DOMAIN package.channels : package.channels[i].csv = v}
  IN  {package.channels[i].name : i \in heads}

(* getChannelsByCSV: the default channel for every other CSV. *)
getChannelsByCSV(v) ==
  IF channelsByCSV(v) = {} THEN {package.default} ELSE channelsByCSV(v)

(* Every version directory and the package file can be read. *)
GetManifestsDir == package.is /= "cut" /\ \A v \in DOMAIN dirs : Loads(dirs[v])

(* A directory without a package file yields a nil package, which IsEmpty   *)
(* dereferences; a package without a default channel is refused.            *)
StartMigration ==
  /\ pc = "idle" /\ count.commands < MaxCommands /\ Spend("commands")
  /\ \E b \in BaseImages : cmd' = [op |-> "migrate", flags |-> NoCmd, images |-> b]
  /\ \/ (outDir \/ ~GetManifestsDir) /\ End("failed")
     \/ ~outDir /\ GetManifestsDir /\ package.is = "none" /\ End("panic")
     \/ ~outDir /\ GetManifestsDir /\ package.is = "package" /\ package.default = 0 /\ End("failed")
     \/ /\ ~outDir /\ GetManifestsDir /\ package.is = "package" /\ package.default /= 0
        /\ todo' = DOMAIN dirs
        /\ (IF DOMAIN dirs = {} THEN pc' = "idle" /\ result' = "ok"
            ELSE pc' = "copy" /\ result' = "running")
  /\ UNCHANGED <<package, dirs, bundles, images, outDir>>

(* The directories are migrated in the order of their names. *)
Current == CHOOSE v \in todo : \A w \in todo : v <= w

(* getSDKStamps needs a CSV; CopyOperatorManifests creates the output       *)
(* directory and copies every file.                                         *)
CopyOperatorManifests ==
  LET v == Current
      b == [manifests |-> dirs[v], config |-> FALSE, meta |-> None]
  IN  /\ pc = "copy"
      /\ \/ /\ dirs[v].csvs = {} /\ End("failed") /\ UNCHANGED <<bundles, outDir, count>>
         \/ /\ dirs[v].csvs /= {}
            /\ bundles' = Put(bundles, v, b) /\ outDir' = TRUE /\ pc' = "score"
            /\ UNCHANGED <<count, result, todo>>
         \/ /\ dirs[v].csvs /= {} /\ Fail
            /\ outDir' \in {outDir, TRUE} /\ UNCHANGED bundles
      /\ UNCHANGED <<package, dirs, images, cmd>>

(* getScorecardConfigPath: at most one config, and no file of several       *)
(* documents ("multi": one longer than the reader's buffer), anywhere below *)
(* the version's directory.                                                 *)
ScorecardPathError(d) == Cardinality(d.scores) > 1 \/ "multi" \in d.bad

(* WriteScorecardConfig: a file of that name directly in manifests is       *)
(* removed, and the config is written to tests/scorecard.                   *)
WriteScorecardConfig ==
  LET v == Current
      d == dirs[v]
  IN  /\ pc = "score"
      /\ \/ ScorecardPathError(d) /\ End("failed") /\ UNCHANGED <<bundles, count>>
         \/ /\ ~ScorecardPathError(d)
            /\ bundles' = (IF d.scores = {} THEN bundles
                           ELSE [bundles EXCEPT ![v].manifests.scores = @ \ {"top"},
                                                ![v].config = TRUE])
            /\ pc' = "metadata" /\ UNCHANGED <<count, result, todo>>
         \/ ~ScorecardPathError(d) /\ d.scores /= {} /\ Fail /\ UNCHANGED bundles
      /\ UNCHANGED <<package, dirs, images, outDir, cmd>>

NextVersion ==
  /\ todo' = todo \ {Current}
  /\ (IF todo = {Current} THEN pc' = "idle" /\ result' = "ok"
      ELSE pc' = "copy" /\ UNCHANGED result)

GenerateMetadata ==
  LET v == Current
      meta == [is |-> "meta", channels |-> getChannelsByCSV(v), default |-> package.default,
               config |-> bundles[v].config]
  IN  /\ pc = "metadata"
      /\ \/ /\ bundles' = [bundles EXCEPT ![v].meta = meta] /\ UNCHANGED count
            /\ (IF cmd.images THEN pc' = "build" /\ UNCHANGED <<result, todo>>
                ELSE NextVersion)
         \/ Fail /\ bundles' \in {bundles, [bundles EXCEPT ![v].meta = meta],
                                  [bundles EXCEPT ![v].meta = Cut]}
      /\ UNCHANGED <<package, dirs, images, outDir, cmd>>

BuildBundleImage ==
  /\ pc = "build"
  /\ \/ images' = images \cup {Current} /\ NextVersion /\ UNCHANGED count
     \/ Fail /\ UNCHANGED images
  /\ UNCHANGED <<package, dirs, bundles, outDir, cmd>>

Next ==
  \/ EditVersion \/ RemoveBundles
  \/ StartGenerate \/ WritePackage \/ WriteCSV \/ WriteObjects
  \/ StartMigration \/ CopyOperatorManifests \/ WriteScorecardConfig
  \/ GenerateMetadata \/ BuildBundleImage

Spec == Init /\ [][Next]_vars

---------------------------------------------------------------------------
(* Whatever a sequence of commands, failures and edits went before, a       *)
(* migration that reports success has made a complete bundle of every       *)
(* version: its files, all the channels it heads (the default one if it     *)
(* heads none), and metadata that announces a scorecard config exactly if   *)
(* the bundle has one (pkgmantobundle/cmd.go run).                          *)
Migrated ==
  (result = "ok" /\ cmd.op = "migrate") =>
    /\ DOMAIN bundles = DOMAIN dirs
    /\ \A v \in DOMAIN dirs :
         LET m == bundles[v].meta
             heads == {c \in Names(package) : \E i \in DOMAIN package.channels :
                         package.channels[i].name = c /\ package.channels[i].csv = v}
         IN  /\ bundles[v].manifests.csvs = dirs[v].csvs
             /\ m.is = "meta"
             /\ m.channels = (IF heads = {} THEN {package.default} ELSE heads)
             /\ m.config = (dirs[v].scores /= {}) /\ bundles[v].config = m.config
             /\ cmd.images => v \in images

(* A step that rewrites the package moves the head of one channel at most. *)
HeadsKept ==
  (package.is = "package" /\ package'.is = "package" /\ cmd.flags.sameDir) =>
    \A i \in DOMAIN package.channels :
      package.channels[i].name /= cmd.flags.channel =>
        package.channels[i] \in ToSet(package'.channels)

(* Generating a version into a package moves the head of one channel only:  *)
(* the others keep theirs, and none disappears (packagemanifest.go          *)
(* setChannels on the base that GetBase read).                              *)
ChannelsKept == [][HeadsKept]_vars
=============================================================================
