---------------------------- MODULE RegistryPods ----------------------------
(***************************************************************************)
(* The registry pods of run bundle and run bundle-upgrade.  For an index   *)
(* image in file-based format the catalog is split, document by document,  *)
(* over compressed ConfigMaps, which the pod's init container unpacks when *)
(* the pod starts; for a SQLite index the pod adds the bundles itself once *)
(* it runs.  Commands follow each other and may be cut off anywhere.       *)
(***************************************************************************)
EXTENDS Naturals, Sequences, SequencesExt

CONSTANT Catalogs     \* for each command in turn: format, documents and bundles,
                      \* the last of which, another one each time, names the pod

VARIABLES n,          \* the command
          pc,
          todo,       \* documents not yet written
          cms, cur,   \* ConfigMaps written, and the documents in the actual buffer
          written,    \* ConfigMaps put into the cluster by this command
          store,      \* ConfigMaps of the cluster, by number
          pods,       \* registry pods: [phase, mounts, content, serving]
          succeeded   \* commands whose Create returned the pod

writer == <<cms, cur>>
vars   == <<n, pc, todo, writer, written, store, pods, succeeded>>

Commands == DOMAIN Catalogs
NoPod == [phase |-> "none", mounts |-> 0, content |-> <<>>, serving |-> FALSE]

Empty == cms = <<>> /\ cur = <<>>

Init == /\ n = 0 /\ pc = "idle" /\ todo = <<>> /\ Empty /\ written = 0
        /\ store = <<>> /\ pods = [i \in Commands |-> NoPod] /\ succeeded = {}

-----------------------------------------------------------------------------
(* getConfigMaps and gzipCMWriter *)

\* validate of either pod: at least one bundle must be given.
Validate(c) == c.bundles # <<>>

Create ==
  /\ pc = "idle" /\ n < Len(Catalogs) /\ n' = n + 1
  /\ Validate(Catalogs[n'])
  /\ IF Catalogs[n'].fbc THEN pc' = "partition" /\ todo' = Catalogs[n'].docs
                         ELSE pc' = "pod" /\ todo' = <<>>
  /\ cms' = <<>> /\ cur' = <<>> /\ written' = 0
  /\ UNCHANGED <<store, pods, succeeded>>

\* isEmpty, named the other way round: data has been written to the buffer.
HasData == cur # <<>>

AddData(d) == cur' = Append(cur, d) /\ UNCHANGED cms

FirstDocument ==
  /\ pc = "partition" /\ todo # <<>> /\ ~HasData
  /\ AddData(Head(todo)) /\ todo' = Tail(todo)
  /\ UNCHANGED <<n, pc, written, store, pods, succeeded>>

\* closeCM resets both writers; the document begins the next ConfigMap.
NextCM(d) == cms' = Append(cms, cur) /\ cur' = <<d>>

\* Whether the ConfigMap would be too large with the document is a matter of its
\* compressed contents (exceedMaxLength), so both are possible.
NextDocument ==
  /\ pc = "partition" /\ todo # <<>> /\ HasData
  /\ NextCM(Head(todo)) \/ AddData(Head(todo))
  /\ todo' = Tail(todo)
  /\ UNCHANGED <<n, pc, written, store, pods, succeeded>>

WriteLastFragment ==
  /\ pc = "partition" /\ todo = <<>>
  /\ cms' = Append(cms, cur) /\ pc' = "store"
  /\ UNCHANGED <<n, todo, cur, written, store, pods, succeeded>>

-----------------------------------------------------------------------------
(* createConfigMaps, Create *)

\* Mutant: a ConfigMap that exists is left as it is.
CreateConfigMap ==
  /\ pc = "store" /\ written < Len(cms) /\ written' = written + 1
  /\ store' = IF written' \in DOMAIN store THEN store ELSE Append(store, cms[written'])
  /\ UNCHANGED <<n, pc, todo, writer, pods, succeeded>>

CreateOrUpdateConfigMap ==
  /\ pc = "store" /\ written < Len(cms) /\ written' = written + 1
  /\ store' = IF written' \in DOMAIN store THEN [store EXCEPT ![written'] = cms[written']]
              ELSE Append(store, cms[written'])
  /\ UNCHANGED <<n, pc, todo, writer, pods, succeeded>>

PodForBundleRegistry ==
  /\ pc = "store" /\ written = Len(cms) /\ pc' = "pod"
  /\ UNCHANGED <<n, todo, writer, written, store, pods, succeeded>>

\* The pod of a SQLite index mounts none.
CreateSQLitePod ==
  /\ pc = "pod" /\ ~Catalogs[n].fbc /\ pc' = "running"
  /\ pods' = [pods EXCEPT ![n].phase = "pending"]
  /\ UNCHANGED <<n, todo, writer, written, store, succeeded>>

CreatePod ==
  /\ pc = "pod" /\ Catalogs[n].fbc /\ pc' = "running"
  /\ pods' = [pods EXCEPT ![n].phase = "pending", ![n].mounts = Len(cms)]
  /\ UNCHANGED <<n, todo, writer, written, store, succeeded>>

\* Nothing but the pod's phase is asked for.
CheckPodStatus ==
  /\ pc = "running" /\ pods[n].phase = "running"
  /\ pc' = "idle" /\ succeeded' = succeeded \cup {n}
  /\ UNCHANGED <<n, todo, writer, written, store, pods>>

TimeOut == /\ pc # "idle" /\ pc' = "idle"
           /\ UNCHANGED <<n, todo, writer, written, store, pods, succeeded>>

-----------------------------------------------------------------------------
(* The cluster: a pod is running once its container has started, whatever   *)
(* the container's commands have done by then.                              *)

\* The init container decompresses every ConfigMap that is mounted.
AddGZIPInitContainer(i) ==
  /\ pods[i].phase = "pending" /\ Catalogs[i].fbc
  /\ pods' = [pods EXCEPT ![i].phase = "running",
                          ![i].content = FlattenSeq(SubSeq(store, 1, pods[i].mounts))]

StartContainer(i) ==
  /\ pods[i].phase = "pending" /\ ~Catalogs[i].fbc
  /\ pods' = [pods EXCEPT ![i].phase = "running"]

Adding(i) == pods[i].phase = "running" /\ ~Catalogs[i].fbc /\ ~pods[i].serving

\* opm registry add, for one bundle after the other; not if it is there already.
AddBundle(i) ==
  /\ Adding(i) /\ Len(pods[i].content) < Len(Catalogs[i].bundles)
  /\ LET b == Catalogs[i].bundles[Len(pods[i].content) + 1]
     IN /\ ~Contains(pods[i].content, b)
        /\ pods' = [pods EXCEPT ![i].content = Append(@, b)]

\* opm serve, in a SQLite pod only after every bundle has been added.
Serve(i) ==
  /\ pods[i].phase = "running"
  /\ Catalogs[i].fbc \/ Len(pods[i].content) = Len(Catalogs[i].bundles)
  /\ pods' = [pods EXCEPT ![i].serving = TRUE]

\* The container ends, as when a bundle cannot be added, and starts anew; its
\* own files are gone, but not what the init container has unpacked.
Restart(i) ==
  /\ pods[i].phase = "running"
  /\ pods' = [pods EXCEPT ![i].serving = FALSE,
                          ![i].content = IF Catalogs[i].fbc THEN @ ELSE <<>>]

ClusterStep(i) ==
  /\ AddGZIPInitContainer(i) \/ StartContainer(i) \/ AddBundle(i) \/ Serve(i) \/ Restart(i)
  /\ UNCHANGED <<n, pc, todo, writer, written, store, succeeded>>

Next == \/ Create \/ FirstDocument \/ NextDocument \/ WriteLastFragment
        \/ CreateOrUpdateConfigMap \/ PodForBundleRegistry \/ CreatePod \/ CreateSQLitePod
        \/ CheckPodStatus \/ TimeOut
        \/ \E i \in Commands : ClusterStep(i)

Spec == Init /\ [][Next]_vars

-----------------------------------------------------------------------------
(* Properties *)

CatalogOf(i) == IF Catalogs[i].fbc THEN Catalogs[i].docs ELSE Catalogs[i].bundles

\* Once a command has seen its pod running, whatever that pod serves, then or
\* later, is the whole catalog it was made for, whatever ConfigMaps earlier
\* commands have left, or later ones write.  (It need not serve yet, nor ever.)
PodServesCatalog == \A i \in succeeded : pods[i].serving => pods[i].content = CatalogOf(i)
=============================================================================
