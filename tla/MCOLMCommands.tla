---------------------------- MODULE MCOLMCommands ----------------------------
(***************************************************************************)
(* An instance of OLMCommands for TLC.  As in MCHelmHelpers, a behaviour   *)
(* is one of a single component, and the others rest at values where they  *)
(* take no step.                                                           *)
(***************************************************************************)
EXTENDS OLMCommands

-----------------------------------------------------------------------------
(* olm install: one definition, a namespace with a deployment, objects of   *)
(* OLM's own kind and a cluster role, in the order of the 0.28.0 manifests. *)
MCCrds == <<"crd">>
MCResources == <<"ns", "config", "olm", "role", "csv">>
AllObjects == {"crd", "ns", "config", "olm", "role", "csv"}
MCKindOf == [o \in AllObjects |-> IF o \in {"config", "csv"} THEN "crd" ELSE "none"]
MCWithin == [o \in AllObjects |-> IF o \in {"olm", "csv"} THEN "ns" ELSE "none"]
MCWaits == <<"olm", "packageserver">>

OLMOff == /\ state = OLM!Untouched /\ served = {} /\ ready = {}
          /\ olmPc = "off" /\ olmTodo = <<>> /\ known = {} /\ olmResult = "none"
          /\ installs = 0 /\ olmAborts = 0

(* run bundle: two versions of a package, every install mode, and groups    *)
(* that a user has made before.                                             *)
MCModes == {[type |-> "AllNamespaces", targets |-> {}],
            [type |-> "OwnNamespace", targets |-> {}],
            [type |-> "SingleNamespace", targets |-> {"other"}],
            [type |-> "SingleNamespace", targets |-> {"own"}],
            [type |-> "MultiNamespace", targets |-> {"own", "other"}]}

MCSupported == [p \in {"p"} |-> {"OwnNamespace", "SingleNamespace", "MultiNamespace"}]
MCUserGroups == {{}, {{}}, {{"other"}}, {{"own"}, {"other"}}}

OperatorOff ==
  /\ cat = [p \in {"p"} |-> Op!NoCat] /\ sub = [p \in {"p"} |-> Op!NoSub]
  /\ csv = [p \in {"p"} |-> Op!NoCSV] /\ approved = [p \in {"p"} |-> {}]
  /\ pods = {} /\ ogs = {} /\ pc = [p \in {"p"} |-> "idle"] /\ cmd = <<>> /\ got = <<>>
  /\ result = [p \in {"p"} |-> "none"] /\ commands = 0 /\ aborts = 0

(* Catalogs: the default index, one with a dependency, one that has the     *)
(* package in a second channel, and one with the default channel.           *)
NoCatalog == [packages |-> {}, channels |-> <<>>, bundles |-> <<>>]
Entry(b, r) == [name |-> b, replaces |-> r]
Dependency == [packages |-> {"dep"}, bundles |-> <<[name |-> 1, package |-> "dep"]>>,
               channels |-> <<[name |-> "stable", package |-> "dep", entries |-> <<Entry(1, 0)>>]>>]
Both(name, first) ==
  LET own == [name |-> name, package |-> "op", entries |-> <<Entry(1, 0), Entry(2, 1)>>]
  IN [packages |-> {"dep", "op"},
      bundles |-> Dependency.bundles \o <<[name |-> 1, package |-> "op"], [name |-> 2, package |-> "op"]>>,
      channels |-> IF first THEN <<own>> \o Dependency.channels ELSE Dependency.channels \o <<own>>]

MCIndexes == {NoCatalog, Dependency, Both("stable", TRUE), Both("stable", FALSE), Both("sdk", TRUE)}

CatalogOff == /\ index = NoCatalog /\ catalog = NoCatalog /\ injected = <<>>
              /\ channel = "none" /\ last = 0 /\ catalogResult = "off"

(* Registry pods: catalogs of different lengths in turn, in both formats;   *)
(* the last names the same bundle twice.                                    *)
Fbc(d, b) == [fbc |-> TRUE, docs |-> d, bundles |-> b]
SQLite(b) == [fbc |-> FALSE, docs |-> <<>>, bundles |-> b]

MCCatalogs == <<Fbc(<<"a", "b", "c", "d">>, <<"b1">>), SQLite(<<"b1", "b2">>),
                Fbc(<<"b", "d", "a">>, <<"b3">>), SQLite(<<"b4", "b4">>)>>

PodsOff == /\ podRun = 4 /\ podPc = "idle" /\ docs = <<>> /\ written = <<>> /\ buffer = <<>>
           /\ stored = 0 /\ store = <<>> /\ regPods = [i \in 1..4 |-> Pods!NoPod] /\ podsSeen = {}

(* run packagemanifests: directories with one, two and two bundles.         *)
One == [f \in {"package", "v1"} |-> IF f = "package" THEN "m1" ELSE "a"]
Two(second) == [f \in {"package", "v1", "v2"} |->
                  CASE f = "package" -> "m2" [] f = "v1" -> "a" [] f = "v2" -> second]

MCPackages == {One, Two("b"), Two("b2")}

RegistryOff == /\ cms = {} /\ dep = {} /\ service = {} /\ source = 0 /\ address = FALSE
               /\ runs = MaxRuns /\ cmAborts = 0 /\ pkg = One /\ cmPc = "idle" /\ cmTodo = {}
               /\ cmResult = "none"

\* These inputs are such as the theorems of OLMProofs speak of, unless a cleanup
\* is cut off between its deletions to show what it then leaves.
ASSUME InputsAsAssumed ==
  /\ ManifestOrder /\ DirectoriesApart /\ CatalogInputs /\ IndexImages
  /\ AbortAt # {"delete"} => CommandInputs

-----------------------------------------------------------------------------
Init ==
  \/ OLM!Init /\ OperatorOff /\ CatalogOff /\ PodsOff /\ RegistryOff
  \/ OLMOff /\ Op!Init /\ CatalogOff /\ PodsOff /\ RegistryOff
  \/ OLMOff /\ OperatorOff /\ Catalog!Init /\ PodsOff /\ RegistryOff
  \/ OLMOff /\ OperatorOff /\ CatalogOff /\ Pods!Init /\ RegistryOff
  \/ OLMOff /\ OperatorOff /\ CatalogOff /\ PodsOff /\ Registry!Init

olmVars == <<state, served, ready, olmPc, olmTodo, known, olmResult, installs, olmAborts>>
operatorVars == <<cat, pods, ogs, sub, approved, csv, pc, cmd, got, result, commands, aborts>>
catalogVars == <<index, catalog, injected, channel, last, catalogResult>>
podVars == <<podRun, podPc, docs, written, buffer, stored, store, regPods, podsSeen>>
registryVars == <<cms, dep, service, source, address, runs, cmAborts, pkg, cmPc, cmTodo, cmResult>>
vars == <<olmVars, operatorVars, catalogVars, podVars, registryVars>>

Next ==
  \/ OLM!Next /\ UNCHANGED <<operatorVars, catalogVars, podVars, registryVars>>
  \/ Op!Next /\ UNCHANGED <<olmVars, catalogVars, podVars, registryVars>>
  \/ /\ catalogResult # "off" /\ Catalog!Next
     /\ UNCHANGED <<olmVars, operatorVars, podVars, registryVars>>
  \/ Pods!Next /\ UNCHANGED <<olmVars, operatorVars, catalogVars, registryVars>>
  \/ Registry!Next /\ UNCHANGED <<olmVars, operatorVars, catalogVars, podVars>>

Spec == Init /\ [][Next]_vars /\ Op!Fairness
=============================================================================
