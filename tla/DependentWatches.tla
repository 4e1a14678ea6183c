-------------------------- MODULE DependentWatches --------------------------
(***************************************************************************)
(* The release hook of the Helm operator's controller: after a release was *)
(* installed, upgraded or reconciled it starts a watch for every kind in   *)
(* the release's manifest.  The workers of the controller share one table  *)
(* of the kinds that are watched; its lock covers the look-up and the      *)
(* insertion, not what lies between them.                                  *)
(***************************************************************************)
EXTENDS Naturals, SequencesExt

CONSTANTS Workers,        \* MaxConcurrentReconciles goroutines
          Kinds,          \* group/version/kinds a chart can render
          ClusterScoped,  \* those of them without a namespace
          OwnerKind,      \* the kind of the custom resource
          Releases,       \* releases: a namespace and a set of documents
          MaxFaults       \* bound on failing REST mappings and Watch calls

VARIABLES table,    \* the map "watches"
          started,  \* how often c.Watch succeeded for a kind and a handler
          pc, rel, docs, items,  \* per worker: what its hook is at
          hooked,   \* releases whose hook has returned nil
          faults

vars == <<table, started, pc, rel, docs, items, hooked, faults>>

\* An event handler: by controller reference, or by an annotation that names
\* the kind of the resource to reconcile.
Handlers == {"owner", OwnerKind} \cup Kinds

Init ==
  /\ table = {} /\ started = [x \in Kinds \X Handlers |-> 0]
  /\ pc = [w \in Workers |-> "idle"]
  /\ rel \in [Workers -> Releases]
  /\ docs = [w \in Workers |-> {}] /\ items = [w \in Workers |-> <<>>]
  /\ hooked = {} /\ faults = MaxFaults

\* Objects carry the namespace their manifest spells out, "" when it has none.
SupportsOwnerReference(kind, ns, ownerNs) ==
  kind \notin ClusterScoped /\ ns = ownerNs

\* The handler setWatchOnResource chooses, from the manifest as it is stored.
Handler(obj, ownerNs) ==
  IF SupportsOwnerReference(obj.kind, obj.ns, ownerNs) THEN "owner" ELSE obj.kind

-----------------------------------------------------------------------------
Head1(w) == Head(items[w])

\* Reconcile calls the hook with the release it has just handled.
CallHook(w) ==
  /\ pc[w] \in {"idle", "failed"}
  /\ pc' = [pc EXCEPT ![w] = "hook"]
  /\ \E r \in IF pc[w] = "failed" THEN {rel[w]} ELSE Releases :
       /\ rel' = [rel EXCEPT ![w] = r]
       /\ docs' = [docs EXCEPT ![w] = r.docs]
  /\ items' = [items EXCEPT ![w] = <<>>]
  /\ UNCHANGED <<table, started, hooked, faults>>

\* SplitManifests returns a map: the documents come in any order.
NextDocument(w) ==
  /\ pc[w] = "hook" /\ items[w] = <<>>
  /\ \E d \in docs[w] :
       /\ docs' = [docs EXCEPT ![w] = @ \ {d}]
       /\ IF d.malformed
          THEN pc' = [pc EXCEPT ![w] = "failed"] /\ UNCHANGED items
          ELSE items' = [items EXCEPT ![w] = d.objects] /\ UNCHANGED pc
  /\ UNCHANGED <<table, started, rel, hooked, faults>>

\* Mutant: the entry is made when the kind is found missing.
LookUpInserting(w) ==
  /\ pc[w] = "hook" /\ items[w] # <<>>
  /\ IF Head1(w).kind \in table
     THEN items' = [items EXCEPT ![w] = Tail(@)] /\ UNCHANGED pc
     ELSE pc' = [pc EXCEPT ![w] = "watch"] /\ UNCHANGED items
  /\ table' = table \cup {Head1(w).kind}
  /\ UNCHANGED <<started, rel, docs, hooked, faults>>

LookUp(w) ==
  /\ pc[w] = "hook" /\ items[w] # <<>>
  /\ IF Head1(w).kind \in table
     THEN items' = [items EXCEPT ![w] = Tail(@)] /\ UNCHANGED pc
     ELSE pc' = [pc EXCEPT ![w] = "watch"] /\ UNCHANGED items
  /\ UNCHANGED <<table, started, rel, docs, hooked, faults>>

StartWatch(w) ==
  /\ pc[w] = "watch"
  /\ pc' = [pc EXCEPT ![w] = "insert"]
  /\ started' = [started EXCEPT
       ![<<Head1(w).kind, Handler(Head1(w), rel[w].ns)>>] = @ + 1]
  /\ UNCHANGED <<table, rel, docs, items, hooked, faults>>

\* The REST mapping of a kind is missing, or c.Watch fails.
WatchFails(w) ==
  /\ pc[w] = "watch" /\ faults > 0
  /\ faults' = faults - 1
  /\ pc' = [pc EXCEPT ![w] = "failed"]
  /\ UNCHANGED <<table, started, rel, docs, items, hooked>>

Insert(w) ==
  /\ pc[w] = "insert"
  /\ table' = table \cup {Head1(w).kind}
  /\ items' = [items EXCEPT ![w] = Tail(@)]
  /\ pc' = [pc EXCEPT ![w] = "hook"]
  /\ UNCHANGED <<started, rel, docs, hooked, faults>>

HookReturns(w) ==
  /\ pc[w] = "hook" /\ items[w] = <<>> /\ docs[w] = {}
  /\ hooked' = hooked \cup {rel[w]}
  /\ pc' = [pc EXCEPT ![w] = "idle"]
  /\ UNCHANGED <<table, started, rel, docs, items, faults>>

Step(w) == \/ CallHook(w) \/ NextDocument(w) \/ LookUp(w) \/ StartWatch(w)
           \/ WatchFails(w) \/ Insert(w) \/ HookReturns(w)

Next == \E w \in Workers : Step(w)

Spec == Init /\ [][Next]_vars

-----------------------------------------------------------------------------
(* Properties *)

ObjectsOf(r) == UNION {Range(d.objects) : d \in r.docs}

Watched(k) == \E h \in Handlers : started[<<k, h>>] > 0

\* When the hook has returned nil, every kind of the release's manifest has a
\* running watch, also when another worker was starting it meanwhile and when
\* earlier attempts failed half-way (watchDependentResources).
HookCovers ==
  \A r \in hooked : \A obj \in ObjectsOf(r) :
    obj.kind \in table /\ Watched(obj.kind)
=============================================================================
