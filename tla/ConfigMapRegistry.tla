------------------------- MODULE ConfigMapRegistry -------------------------
(***************************************************************************)
(* The registry of operator-sdk run packagemanifests: ConfigMaps with the  *)
(* package manifest and the bundles, a Deployment that mounts them and a   *)
(* Service, all owned by the catalog source.  Runs and cleanups follow     *)
(* each other and may be cut off; the garbage collector takes its time.    *)
(***************************************************************************)
EXTENDS Naturals, FiniteSets

CONSTANTS Packages,   \* package directories: [ConfigMap name -> contents]
          Prompt,     \* garbage is collected before the next run
          MaxRuns, MaxAborts

VARIABLES cms,       \* ConfigMaps of the package: [name, data, owner]
          dep,       \* sets, empty or with the Deployment and the Service
          service,
          cat,       \* generation of the catalog source, 0 if there is none
          address,   \* whether it has the address of the registry
          runs,      \* runs so far, which also number the catalog sources
          aborts,
          pkg, pc, todo, result  \* the running command

objects == <<cms, dep, service>>
vars    == <<objects, cat, address, runs, aborts, pkg, pc, todo, result>>

Orphan == 0  \* the owner of objects without one

Deployment(p, owner) == [mounts |-> DOMAIN p, owner |-> owner]

\* makeConfigMapsForPackageManifests: names with the version, keys with a hash
\* of the contents.
MakeConfigMaps(p, owner) == {[name |-> n, data |-> p[n], owner |-> owner] : n \in DOMAIN p}

\* At first there is no registry, or one that no catalog source owns any more.
Init == /\ \/ cms = {} /\ dep = {} /\ service = {}
           \/ \E p \in Packages : /\ cms = MakeConfigMaps(p, Orphan)
                                  /\ dep = {Deployment(p, Orphan)} /\ service = {Orphan}
        /\ cat = 0 /\ address = FALSE /\ runs = 0 /\ aborts = MaxAborts
        /\ pkg \in Packages /\ pc = "idle" /\ todo = {} /\ result = "none"

Owners == {c.owner : c \in cms} \cup {d.owner : d \in dep} \cup service
Garbage(owner) == owner \notin {Orphan, cat}

Go(step, left) == pc' = step /\ todo' = left /\ UNCHANGED <<cat, address, runs, aborts, pkg, result>>
End(how) == pc' = "idle" /\ todo' = {} /\ result' = how /\ UNCHANGED <<runs, aborts, pkg>>

-----------------------------------------------------------------------------
(* run packagemanifests *)

\* Install.setup, and CreateCatalog up to the creation of the catalog source.
CreateCatalog(p) ==
  /\ pc = "idle" /\ runs < MaxRuns /\ runs' = runs + 1
  /\ Prompt => ~\E o \in Owners : Garbage(o)
  /\ pkg' = p /\ todo' = {} /\ UNCHANGED <<objects, address, aborts>>
  /\ IF cat # 0 THEN pc' = "idle" /\ result' = "error" /\ UNCHANGED cat
                ELSE pc' = "exists" /\ result' = "none" /\ cat' = runs'

IsRegistryExist ==
  /\ pc = "exists" /\ UNCHANGED objects
  /\ IF dep # {} THEN Go("stale", {}) ELSE Go("create", DOMAIN pkg)

\* Mutant: only the number of ConfigMaps and their names are compared.
IsRegistryNamesStale == {c.name : c \in cms} # DOMAIN pkg

\* IsRegistryDataStale: by number, names, and keys with a hash of the contents.
IsRegistryDataStale ==
  \/ Cardinality(cms) # Cardinality(DOMAIN pkg)
  \/ \E c \in cms : c.name \notin DOMAIN pkg \/ c.data # pkg[c.name]

CheckStale ==
  /\ pc = "stale" /\ UNCHANGED objects
  /\ IF IsRegistryDataStale THEN Go("delete", {c.name : c \in cms}) ELSE Go("address", {})

\* DeletePackageManifestsRegistry: the ConfigMaps, then Deployment and Service.
DeleteConfigMap ==
  /\ pc = "delete" /\ \E n \in todo : /\ cms' = {c \in cms : c.name # n}
                                      /\ Go("delete", todo \ {n})
  /\ UNCHANGED <<dep, service>>

DeleteDeployment == /\ pc = "delete" /\ todo = {} /\ dep' = {} /\ Go("deleteService", {})
                    /\ UNCHANGED <<cms, service>>

DeleteService == /\ pc = "deleteService" /\ service' = {} /\ Go("create", DOMAIN pkg)
                 /\ UNCHANGED <<cms, dep>>

\* CreatePackageManifestsRegistry: DoCreate takes an object that is there for
\* its own.
CreateConfigMap ==
  /\ pc = "create"
  /\ \E n \in todo :
       /\ cms' = IF \E c \in cms : c.name = n THEN cms
                 ELSE cms \cup {[name |-> n, data |-> pkg[n], owner |-> cat]}
       /\ Go("create", todo \ {n})
  /\ UNCHANGED <<dep, service>>

CreateDeployment ==
  /\ pc = "create" /\ todo = {} /\ Go("createService", {})
  /\ dep' = IF dep = {} THEN {Deployment(pkg, cat)} ELSE dep
  /\ UNCHANGED <<cms, service>>

CreateService == /\ pc = "createService" /\ Go("rollout", {})
                 /\ service' = (IF service = {} THEN {cat} ELSE service)
                 /\ UNCHANGED <<cms, dep>>

\* DoRolloutWait: the pod runs when everything it mounts is there.
RolloutWait == /\ pc = "rollout" /\ \E d \in dep : d.mounts \subseteq {c.name : c \in cms}
               /\ Go("address", {}) /\ UNCHANGED objects

UpdateCatalogSource ==
  /\ pc = "address" /\ UNCHANGED objects
  /\ IF cat # 0 THEN address' = TRUE /\ End("up") /\ UNCHANGED cat
                ELSE End("error") /\ UNCHANGED <<cat, address>>

-----------------------------------------------------------------------------

\* External: cleanup deletes the catalog source, and GC what it owns.
Cleanup == /\ pc = "idle" /\ cat # 0 /\ cat' = 0 /\ address' = FALSE
           /\ End("none") /\ UNCHANGED objects

Collect == \E o \in Owners :
  /\ Garbage(o)
  /\ \/ \E c \in cms : c.owner = o /\ cms' = cms \ {c} /\ UNCHANGED <<dep, service>>
     \/ dep' = {d \in dep : d.owner # o} /\ dep' # dep /\ UNCHANGED <<cms, service>>
     \/ service' = service \ {o} /\ service' # service /\ UNCHANGED <<cms, dep>>
  /\ UNCHANGED <<cat, address, runs, aborts, pkg, pc, todo, result>>

TimeOut == /\ pc # "idle" /\ aborts > 0 /\ aborts' = aborts - 1
           /\ pc' = "idle" /\ todo' = {} /\ result' = "timeout"
           /\ UNCHANGED <<objects, cat, address, runs, pkg>>

Command == \/ IsRegistryExist \/ CheckStale \/ DeleteConfigMap \/ DeleteDeployment
           \/ DeleteService \/ CreateConfigMap \/ CreateDeployment \/ CreateService
           \/ RolloutWait \/ UpdateCatalogSource

Next == (\E p \in Packages : CreateCatalog(p)) \/ Command \/ Cleanup \/ Collect \/ TimeOut

Spec == Init /\ [][Next]_vars

-----------------------------------------------------------------------------
(* Properties *)

\* After a successful run the registry serves the directory the run was given,
\* and nothing older, whatever a run or a deletion cut off before has left.
RegistryCurrent ==
  result = "up" => /\ {[name |-> c.name, data |-> c.data] : c \in cms} =
                         {[name |-> n, data |-> pkg[n]] : n \in DOMAIN pkg}
                   /\ \E d \in dep : d.mounts = DOMAIN pkg
                   /\ service # {}
=============================================================================
