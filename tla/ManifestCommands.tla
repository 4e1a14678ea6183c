-------------------------- MODULE ManifestCommands --------------------------
(***************************************************************************)
(* What the commands compute from the manifests of a project: the          *)
(* collection, and from it the permissions, the owned CRDs, the webhooks   *)
(* and the related images of the CSV; and the verdicts of the scorecard's  *)
(* built-in tests on a bundle.  Each has variables of its own.             *)
(***************************************************************************)
EXTENDS Integers, Sequences, FiniteSets

CONSTANTS Collections,
          Grants, NoneName, DefaultSA,
          Sources, Bases, KindInfo, TypeFields, APIs, NoGroup, NoType, MaxRuns, MaxDepth,
          HookInputs, URL, Nil,
          Names, Lower, ImageRefs, Deployments, MaxVars,
          TestInputs, KuttlTests

VARIABLES in, left, col, scorecard, colPc,
          m, split, perms, cPerms, rbacPc,
          pkgs, owned, before, types, root, todo, defs, walk, runs, defPc,
          source, hooks, services, descs, hookPc,
          at, relatedImages, seen, env, count, final, imagePc,
          bundle, test, report, args, kuttl, result

Collector == INSTANCE ManifestCollector WITH Inputs <- Collections, pc <- colPc
RBAC == INSTANCE BundleRBAC WITH Inputs <- Grants, pc <- rbacPc
Definitions == INSTANCE CSVDefinitions WITH pc <- defPc
Webhooks == INSTANCE WebhookDescriptions WITH Inputs <- HookInputs, in <- source, pc <- hookPc
Images == INSTANCE RelatedImages WITH Images <- ImageRefs, pc <- imagePc
Tests == INSTANCE ScorecardTests WITH Inputs <- TestInputs

-----------------------------------------------------------------------------
(* Properties *)

\* The examples of the CSV are the custom resources of the bundle's CRDs
\* (filterCustomResources).
ExamplesExact == Collector!ExamplesExact

\* An account has the permissions that bindings give it, and no others
\* (applyRoles, applyClusterRoles).
PermissionsExact == RBAC!PermissionsExact

\* Hand-written descriptions stay, generated ones are replaced
\* (updateDefinitionsByKey).
OwnedMerged == Definitions!OwnedMerged

\* A webhook is described with a deployment its service selects.
DeploymentServes == Webhooks!DeploymentServes

\* Every image of the environments is listed once (collectedRelatedImages).
ImagesListedOnce == Images!ImagesListedOnce

\* The spec descriptor test passes exactly when all fields are described.
SpecDescriptorsExact == Tests!SpecDescriptorsExact

-----------------------------------------------------------------------------
(* What the theorems of ManifestProofs assume of the inputs.               *)

Sequence(s) == s \in Seq({s[i] : i \in DOMAIN s})

\* Roles and bindings as the API server accepts them: a ClusterRoleBinding
\* refers to a ClusterRole.
BindingsTo(kinds) ==
  [name : STRING, kind : kinds, ref : STRING, subjects : SUBSET [kind : STRING, name : STRING]]
RBACInputs ==
  \A c \in Grants :
    /\ c.roles \in Seq([kind : {"Role"}, name : STRING, ns : STRING])
    /\ c.clusterRoles \in Seq([kind : {"ClusterRole"}, name : STRING, ns : STRING])
    /\ c.roleBindings \in Seq(BindingsTo({"Role", "ClusterRole"}))
    /\ c.clusterRoleBindings \in Seq(BindingsTo({"ClusterRole"}))

\* Services of one namespace have different names, none of which is the marker
\* for a webhook with a URL; a deployment has a name.
WebhookInputs ==
  \A c \in HookInputs :
    /\ Sequence(c.services) /\ Sequence(c.deployments) /\ Sequence(c.webhooks)
    /\ \A i, j \in DOMAIN c.services : c.services[i].name = c.services[j].name => i = j
    /\ \A i \in DOMAIN c.services : c.services[i].name # URL
    /\ \A i \in DOMAIN c.deployments : c.deployments[i].name # Nil

\* Every deployment has a container, as its validation demands; and the joined
\* name and image of a variable tell variables apart.
FormattedNames == {Images!formatName(n) : n \in Names}
ImageInputs ==
  /\ Sequence(Deployments) /\ Deployments # <<>>
  /\ \A d \in DOMAIN Deployments :
       Sequence(Deployments[d].containers) /\ Deployments[d].containers # <<>>
  /\ \A n, o \in FormattedNames, i, j \in ImageRefs :
       Images!Key(n, i) = Images!Key(o, j) => n = o /\ i = j

\* The CRs of a bundle are a list.
BundleInputs == \A i \in TestInputs : Sequence(i.bundle.crs)

WebhookKinds == {"ValidatingWebhook", "MutatingWebhook"}
CRDKinds == {"V1CRD", "V1beta1CRD"}

\* Everything that can get into a list of the collector: of a webhook
\* configuration its webhooks.
Objects(c) ==
  {d \in Collector!Elements(c.stream) : d.kind \notin WebhookKinds}
  \cup Collector!Elements(c.crdsDir)
  \cup UNION {Collector!Elements(d.webhooks)
                : d \in {e \in Collector!Elements(c.stream) : e.kind \in WebhookKinds}}

\* The webhooks of a configuration are of its kind; and a serialised form tells
\* custom resources apart and CRDs that serve different APIs.
CollectorInputs ==
  \A c \in Collections :
    /\ Sequence(c.stream) /\ Sequence(c.crdsDir)
    /\ \A d \in Collector!Elements(c.stream) : d.kind \in WebhookKinds =>
         /\ Sequence(d.webhooks)
         /\ \A w \in Collector!Elements(d.webhooks) : w.kind = d.kind
    /\ \A o \in Objects(c) : o.kind = "Other" =>
         o.gvk = [kind |-> o.gvk.kind, version |-> o.gvk.version]
    /\ \A o, p \in Objects(c) : Collector!Marshal(o) = Collector!Marshal(p) =>
         /\ o.kind = "Other" /\ p.kind = "Other" => o = p
         /\ o.kind \in CRDKinds =>
              p.kind \in CRDKinds /\ Collector!DefinitionsFor(o) = Collector!DefinitionsFor(p)

\* Orders are numbers, a kind tells APIs apart, and a base describes an API
\* once.
UniqueAPIs(list) ==
  /\ IsFiniteSet(DOMAIN list) /\ DOMAIN list \subseteq Nat
  /\ \A i, j \in DOMAIN list : list[i].api = list[j].api => i = j
DefinitionInputs ==
  /\ \A a \in APIs : a.kind \in Int /\ KindInfo[a.kind].order \in Int
  /\ \A a, b \in APIs : a.kind = b.kind => a = b
  /\ \A list \in Bases : UniqueAPIs(list)
=============================================================================
