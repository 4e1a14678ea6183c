--------------------------- MODULE BundleCommands ---------------------------
(***************************************************************************)
(* The commands on bundles: generate bundle (Gen), generate                *)
(* packagemanifests with pkgman-to-bundle (Pkg) and bundle validate, the   *)
(* module this one extends.  Each works on files of its own.               *)
(***************************************************************************)
EXTENDS BundleValidation

CONSTANTS Projects, Commands, InputDirs, Prompts, MaxCommands, MaxEdits,
          Versions, Generates, Packages, Layouts, BaseImages, MaxPkgCommands

VARIABLES proj, base, kustom, files, csv, annot, docker, score, inDir, cmd, todo, made, count,
          genPc, result,
          package, dirs, bundles, images, outDir, pkgCmd, pkgTodo, pkgCount, pkgPc, pkgResult

Gen == INSTANCE BundleGeneration WITH pc <- genPc

Pkg == INSTANCE PackageManifests
  WITH MaxCommands <- MaxPkgCommands,
       cmd <- pkgCmd, todo <- pkgTodo, count <- pkgCount, pc <- pkgPc, result <- pkgResult

-----------------------------------------------------------------------------
(* Properties *)

\* A generated bundle holds what the project has now, whatever failed before
\* (runManifests).
BundleReflectsInput == Gen!BundleReflectsInput

\* A successful migration has made complete bundles (pkgman-to-bundle).
Migrated == Pkg!Migrated

\* A version moves the head of one channel only (setChannels).
ChannelsKept == Pkg!ChannelsKept

-----------------------------------------------------------------------------
(* What the theorems of BundleProofs assume of the inputs: what the Go      *)
(* types say of them.                                                       *)

ValidBundle(b) ==
  /\ b.format \in BOOLEAN /\ b.readable \in BOOLEAN
  /\ b.self \in Nat /\ b.csv \in Nat /\ b.crds \in Seq(Nat) /\ IsFiniteSet(b.objects)

ValidEntry(e) == e.starts \in BOOLEAN /\ e.chunks \in Seq(Chunk)

ValidInputs ==
  /\ \A b \in Bundles : ValidBundle(b)
  /\ \A s \in Selections : IsFiniteSet(s)
  /\ \A es \in Entrypoints : DOMAIN es = 1 .. Len(es) /\ Len(es) \in Nat
                             /\ \A k \in DOMAIN es : ValidEntry(es[k])
  /\ MaxFaults \in Nat

(* A project's objects are a list, and flags are Booleans. *)
ValidProjects ==
  /\ \A p \in Projects : Len(p.objs) \in Nat /\ DOMAIN p.objs = 1 .. Len(p.objs)
  /\ \A c \in Commands : c.pin \in BOOLEAN /\ c.manifests \in BOOLEAN /\ c.stdout \in BOOLEAN

(* Versions are numbers, and a version's directory has CSVs, scorecard      *)
(* configs and files that cannot be read.                                   *)
VersionDir(d) == DOMAIN d = {"csvs", "scores", "bad"}
ValidPackages == (\A f \in Generates : f.version \in Nat) /\ \A l \in Layouts : VersionDir(l)

(* Channels and versions have names that sort. *)
Channel == [name : Nat, csv : Nat]
ChannelInputs ==
  /\ \A p \in Packages : p.is = "package" => p.channels \in Seq(Channel)
  /\ \A f \in Generates : f.channel \in Nat /\ f.version \in Nat
=============================================================================
