----------------------------- MODULE OLMCommands -----------------------------
(***************************************************************************)
(* The commands that work with OLM in a cluster: olm install and uninstall *)
(* of one version, run bundle with its upgrade and cleanup of one package, *)
(* the catalogs and registry pods those make, and run packagemanifests     *)
(* with a garbage collector that is prompt.  Each works on objects of its  *)
(* own; what each promises is stated here.                                 *)
(***************************************************************************)
EXTENDS Naturals, Sequences, FiniteSets

CONSTANTS Crds, Resources, KindOf, NoCRD, Within, Waits, VersionCSV, MaxInstalls, MaxOLMAborts,
          ThePackage, Versions, Supported, Modes, Own, Namespaces, UserGroups, MaxCommands,
          MaxAborts,
          AbortAt,   \* steps at which run bundle, its upgrade or cleanup may be cut off
          Package, Names, Indexes, Default, DefaultChannel, MaxItems,
          Catalogs, Packages, MaxRuns, MaxRegistryAborts

VARIABLES state, served, ready, olmPc, olmTodo, known, olmResult, installs, olmAborts,
          cat, pods, ogs, sub, approved, csv, pc, cmd, got, result, commands, aborts,
          index, catalog, injected, channel, last, catalogResult,
          podRun, podPc, docs, written, buffer, stored, store, regPods, podsSeen,
          cms, dep, service, source, address, runs, cmAborts, pkg, cmPc, cmTodo, cmResult

OLM == INSTANCE OLMInstall
  WITH MaxAborts <- MaxOLMAborts,
       pc <- olmPc, todo <- olmTodo, result <- olmResult, aborts <- olmAborts

Op == INSTANCE OperatorInstall WITH Packages <- {ThePackage}

Catalog == INSTANCE FileBasedCatalog
  WITH served <- catalog, items <- injected, result <- catalogResult

Pods == INSTANCE RegistryPods
  WITH n <- podRun, pc <- podPc, todo <- docs, cms <- written, cur <- buffer,
       written <- stored, pods <- regPods, succeeded <- podsSeen

Registry == INSTANCE ConfigMapRegistry
  WITH Prompt <- TRUE, MaxAborts <- MaxRegistryAborts,
       cat <- source, aborts <- cmAborts, pc <- cmPc, todo <- cmTodo, result <- cmResult

-----------------------------------------------------------------------------
(* Properties *)

\* A successful olm install leaves every object there to stay, a successful olm
\* uninstall nothing (InstallVersion, UninstallVersion).
OutcomeComplete == OLM!OutcomeComplete

\* A successful run or upgrade is served by the pod its catalog names, the pod
\* it took over from is gone, and the operator group is the one its install
\* mode asks for (InstallOperator, UpgradeOperator).
SuccessServed == Op!SuccessServed

\* A successful cleanup leaves nothing of the operator (Uninstall.Run).
CleanupComplete == Op!CleanupComplete

\* No command that is not cut off waits for what OLM will not produce.
CommandsEnd == Op!CommandsEnd

\* An upgrade's bundle is the channel's head, reached from the one before it.
UpgradePath == Catalog!UpgradePath

\* A pod that its command has seen running serves, when it serves, exactly the
\* catalog of that command (FBCRegistryPod.Create, SQLiteRegistryPod.Create).
PodServesCatalog == Pods!PodServesCatalog

\* A registry in use has the contents of the directory given last
\* (IsRegistryDataStale).
RegistryCurrent == Registry!RegistryCurrent

-----------------------------------------------------------------------------
(* What the theorems of OLMProofs assume of the inputs. *)

Manifest == OLM!All

\* How the manifests of an OLM version are laid out: definitions come first and
\* belong to nothing; of the other objects each comes after the namespace it is
\* in, and its kind is built in or one of the definitions.
ManifestOrder ==
  /\ Crds \in Seq(Manifest) /\ Resources \in Seq(Manifest)
  /\ KindOf \in [Manifest -> OLM!Range(Crds) \cup {NoCRD}]
  /\ Within \in [Manifest -> Manifest \cup {NoCRD}] /\ NoCRD \notin Manifest
  /\ \A o \in OLM!Range(Crds) : KindOf[o] = NoCRD /\ Within[o] = NoCRD
  /\ \A i \in 1 .. Len(Resources) :
       Within[Resources[i]] # NoCRD => \E j \in 1 .. i - 1 : Resources[j] = Within[Resources[i]]

\* A directory is finite, and none is a part of another one.
DirectoriesApart ==
  \A p \in Packages :
    /\ IsFiniteSet(DOMAIN p)
    /\ \A q \in Packages :
         DOMAIN p \subseteq DOMAIN q /\ (\A n \in DOMAIN p : p[n] = q[n]) => DOMAIN p = DOMAIN q

\* Versions are numbers other than 0, the modes are those of OLM, and groups are
\* finitely many.  A command is not cut off while it waits for its CSV, nor in
\* the middle of a cleanup's deletions.
CommandInputs ==
  /\ Versions \subseteq Nat \ {0}
  /\ \A m \in Modes : m.type \in {"AllNamespaces", "OwnNamespace", "SingleNamespace", "MultiNamespace"}
  /\ \A u \in UserGroups : IsFiniteSet(u)
  /\ "csv" \notin AbortAt /\ "delete" \notin AbortAt

Documents == UNION {OLM!Range(Catalogs[i].docs) : i \in DOMAIN Catalogs}
BundleImages == UNION {OLM!Range(Catalogs[i].bundles) : i \in DOMAIN Catalogs}

\* What the commands are given: sequences of documents and of bundles.
CatalogInputs ==
  /\ Catalogs \in Seq({Catalogs[i] : i \in DOMAIN Catalogs})
  /\ \A i \in DOMAIN Catalogs :
       /\ Catalogs[i].docs \in Seq(Documents) /\ Catalogs[i].bundles \in Seq(BundleImages)
       /\ Catalogs[i].fbc \in BOOLEAN

\* What an index image may hold: records of the catalog format in which each
\* channel of the package has a single head, as every catalog that opm accepts.
ChannelRecords == UNION {Catalog!Range(i.channels) : i \in Indexes}
EntryRecords == UNION {Catalog!Range(c.entries) : c \in ChannelRecords}
BundleNames ==
  Names \cup {0} \cup {e.name : e \in EntryRecords} \cup {e.replaces : e \in EntryRecords}
EntriesOf(N) == Seq([name : N, replaces : N])
ChannelsOf(C, P, N) == Seq([name : C, package : P, entries : EntriesOf(N)])
IndexImages ==
  /\ DefaultChannel # "none"
  /\ \A i \in Indexes : i \in
       [packages : {i.packages},
        channels : ChannelsOf({c.name : c \in ChannelRecords}, {c.package : c \in ChannelRecords},
                              BundleNames),
        bundles : Seq(Catalog!Range(i.bundles))]
  /\ \A c \in ChannelRecords : c.package = Package =>
       \E h \in BundleNames : Catalog!GetChannelHead(c.entries) = {h}
=============================================================================
