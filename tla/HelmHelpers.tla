----------------------------- MODULE HelmHelpers -----------------------------
(***************************************************************************)
(* The parts of the Helm operator that reconciliations share: watches of   *)
(* dependent resources, informers of release secrets and the conditions of *)
(* a status; and the values that one of them computes.                     *)
(* Each keeps its own state; what each promises is stated here, for every  *)
(* value of the constants.                                                 *)
(***************************************************************************)
EXTENDS Naturals, Sequences

CONSTANTS Workers,   \* reconciling goroutines that call the release hook
          Kinds, ClusterScoped, OwnerKind, Releases, MaxFaults,
          Callers,   \* reconciling goroutines that ask for a namespace's informer
          Namespaces, MaxRestarts,
          Types, Stati, MaxTime,
          Specs, Overrides

VARIABLES table, started, watchPc, rel, docs, items, hooked, faults,
          mutex, entries, informer, made, informerPc, ns, restarts,
          conditions, since, now,
          spec, overrides, given, parsed, calls, values, valuePc

Watches == INSTANCE DependentWatches WITH pc <- watchPc
Informers == INSTANCE SecretInformers WITH Workers <- Callers, pc <- informerPc
Conditions == INSTANCE HelmConditions
Values == INSTANCE ReleaseValues WITH pc <- valuePc

-----------------------------------------------------------------------------
(* Properties *)

\* A release hook that returned nil has left every kind of its manifest
\* watched, whoever started the watch (watchDependentResources).
HookCovers == Watches!HookCovers

\* No reconciliation reads releases from an informer that has not loaded them
\* (getWatchedSecretsForNamespace).
SyncedBeforeUse == Informers!SyncedBeforeUse

\* A reconciliation that waits for the informers' mutex gets its turn.
Served == Informers!Served

\* The transition time of a condition is when it got its present status.
TransitionTimeFaithful == Conditions!TransitionTimeFaithful

\* The merged values are the overrides and what they leave of the spec.
MergeIsOverride == Values!MergeIsOverride

-----------------------------------------------------------------------------
(* What the theorems on watches and values assume of the inputs. *)

\* What a chart renders: documents that list objects of known kinds.
Rendered == [kind : Kinds, ns : STRING]
Documents == [malformed : BOOLEAN, objects : Seq(Rendered)]
RenderedReleases == [ns : STRING, docs : SUBSET Documents]

\* A spec is a map: its leaves have paths of which none leads through another.
\* An override names a path.
Leaves(tree) == \A l \in tree : l[1] \in Seq(STRING) /\ l[1] # <<>>
Tree(tree) == \A l, m \in tree : Values!IsPrefix(l[1], m[1]) => l = m
ValueInputs ==
  /\ \A t \in Specs : Leaves(t) /\ Tree(t)
  /\ \A t \in Overrides : Leaves(t)
=============================================================================
