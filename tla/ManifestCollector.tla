------------------------- MODULE ManifestCollector -------------------------
(***************************************************************************)
(* Collection of the manifests a bundle is generated from                  *)
(* (internal/generate/collector): the objects of a stream or of directory  *)
(* trees are sorted into one list per kind, the custom resources of the    *)
(* collected CRDs are picked out, and duplicates are removed by a hash of  *)
(* each object's serialised form.  A manifest is a record with its kind,   *)
(* a name, and a body that stands for all its other fields; the type meta  *)
(* of an object is not part of its protobuf form.  What is removed from a  *)
(* list leaves a gap in it.                                                *)
(***************************************************************************)
EXTENDS Integers, Sequences

CONSTANTS Inputs   \* the inputs: [stream, crdsDir, hasCRDsDir]

(* Kinds that have a list of their own, in the order deduplicate() visits   *)
(* them, and kinds it does not visit.                                       *)
Visited   == <<"Role", "ClusterRole", "Deployment", "V1CRD", "V1beta1CRD",
               "ValidatingWebhook", "MutatingWebhook">>
Unvisited == {"ClusterServiceVersion", "RoleBinding", "ClusterRoleBinding",
              "ServiceAccount", "Service"}
Elements(list) == {list[i] : i \in DOMAIN list}
Lists     == Elements(Visited) \cup Unvisited \cup {"Other", "CustomResource"}

VARIABLES
  in,         \* the input of this call
  left,       \* manifests of the stream not yet read
  col,        \* the collector: list name -> objects by their position
  scorecard,  \* collected scorecard configurations (at most one)
  pc

vars == <<in, left, col, scorecard, pc>>

(* Mutant: versions that are not served count too. *)
DefinitionsAllVersions(crd) == {[kind |-> crd.name, version |-> v] : v \in crd.versions}

(* The API versions a CRD serves: a v1beta1 CRD without a version list has   *)
(* its single version.                                                       *)
DefinitionsFor(crd) == {[kind |-> crd.name, version |-> v] : v \in crd.versions \cap crd.served}
GVKsFor(crds) == UNION {DefinitionsFor(crds[i]) : i \in DOMAIN crds}

Init ==
  /\ in \in Inputs
  /\ left = in.stream /\ col = [k \in Lists |-> <<>>] /\ scorecard = <<>> /\ pc = "read"

Read == pc = "read" /\ left /= <<>>
Take(list, objs) ==
  /\ left' = Tail(left) /\ col' = [col EXCEPT ![list] = @ \o objs]
  /\ UNCHANGED <<in, scorecard, pc>>

(* updateFromReader: a document without type meta is skipped. *)
SkipManifest ==
  /\ Read /\ Head(left).kind = "NoTypeMeta"
  /\ left' = Tail(left) /\ UNCHANGED <<in, col, scorecard, pc>>

(* A document that cannot be unmarshalled into its kind ends the command. *)
RejectManifest ==
  /\ Read /\ Head(left).kind \in {"Malformed", "V1alpha1CRD"}
  /\ pc' = "failed" /\ UNCHANGED <<in, left, col, scorecard>>

AddObject ==
  /\ Read /\ Head(left).kind \in (Unvisited \cup {"Role", "ClusterRole", "Deployment"})
  /\ Take(Head(left).kind, <<Head(left)>>)

addCustomResourceDefinitions ==
  /\ Read /\ Head(left).kind \in {"V1CRD", "V1beta1CRD"}
  /\ Take(Head(left).kind, <<Head(left)>>)

(* The webhooks of a configuration are collected, not the configuration. *)
addWebhookConfigurations ==
  /\ Read /\ Head(left).kind \in {"ValidatingWebhook", "MutatingWebhook"}
  /\ Take(Head(left).kind, Head(left).webhooks)

(* addScorecardConfig: a second configuration is an error. *)
addScorecardConfig ==
  /\ Read /\ Head(left).kind = "Configuration"
  /\ IF scorecard = <<>>
       THEN /\ scorecard' = <<Head(left)>> /\ left' = Tail(left) /\ pc' = pc
       ELSE /\ pc' = "failed" /\ UNCHANGED <<scorecard, left>>
  /\ UNCHANGED <<in, col>>

addOthers ==
  /\ Read /\ Head(left).kind = "Other"
  /\ Take("Other", <<Head(left)>>)

(* UpdateFromDirs: the CRDs of an existing CRDs directory replace those of   *)
(* the deploy directory.  GetCustomResourceDefinitions refuses two           *)
(* definitions of one API there.                                             *)
Conflict(crds) ==
  \E i, j \in DOMAIN crds : i < j /\ DefinitionsFor(crds[i]) \cap DefinitionsFor(crds[j]) /= {}

(* The objects of a list at some of its positions. *)
At(list, positions) == [i \in positions |-> list[i]]
OfKind(list, kind) == At(list, {i \in DOMAIN list : list[i].kind = kind})

GetCustomResourceDefinitions ==
  /\ pc = "read" /\ left = <<>>
  /\ IF ~in.hasCRDsDir THEN col' = col /\ pc' = "filter"
     ELSE IF Conflict(in.crdsDir) THEN col' = col /\ pc' = "failed"
     ELSE /\ col' = [col EXCEPT
               !["V1CRD"] = OfKind(in.crdsDir, "V1CRD"),
               !["V1beta1CRD"] = OfKind(in.crdsDir, "V1beta1CRD")]
          /\ pc' = "filter"
  /\ UNCHANGED <<in, left, scorecard>>

filterCustomResources ==
  /\ pc = "filter"
  /\ LET gvks == GVKsFor(col["V1CRD"]) \cup GVKsFor(col["V1beta1CRD"])
     IN  col' = [col EXCEPT !["CustomResource"] =
                   At(col["Other"], {i \in DOMAIN col["Other"] : col["Other"][i].gvk \in gvks})]
  /\ pc' = "dedup"
  /\ UNCHANGED <<in, left, scorecard>>

(* What is hashed: the protobuf form of a typed object, which has no kind,   *)
(* and the JSON form of a custom resource.                                   *)
Marshal(o) ==
  IF o.kind = "Other" THEN <<"json", o.gvk, o.name, o.body>> ELSE <<"proto", o.name, o.body>>

(* The loops of deduplicate(), in their order, share the hashes: an object  *)
(* is dropped if a loop before this one, or this one earlier, had its hash. *)
Loops == Visited \o <<"CustomResource">>
Hashed(l, i) ==
  \E k \in 1 .. l : \E j \in DOMAIN col[Loops[k]] :
    (k < l \/ j < i) /\ Marshal(col[Loops[k]][j]) = Marshal(col[Loops[l]][i])
Deduplicated(l) == At(col[Loops[l]], {i \in DOMAIN col[Loops[l]] : ~Hashed(l, i)})

deduplicate ==
  /\ pc = "dedup"
  /\ col' = [list \in Lists |->
               IF \E l \in DOMAIN Loops : Loops[l] = list
                 THEN Deduplicated(CHOOSE l \in DOMAIN Loops : Loops[l] = list)
                 ELSE col[list]]
  /\ pc' = "done"
  /\ UNCHANGED <<in, left, scorecard>>

Next ==
  \/ SkipManifest \/ RejectManifest \/ AddObject \/ addCustomResourceDefinitions
  \/ addWebhookConfigurations \/ addScorecardConfig \/ addOthers
  \/ GetCustomResourceDefinitions \/ filterCustomResources \/ deduplicate

Spec == Init /\ [][Next]_vars

---------------------------------------------------------------------------

(* The custom resources that become examples of the CSV are  *)
(* exactly the documents of the stream whose API is served by a CRD that    *)
(* ends up in the bundle, whichever of the two came first and even when the *)
(* CRDs directory replaced the CRDs the stream had.                         *)
ExamplesExact ==
  pc = "done" =>
    LET crds   == Elements(col["V1CRD"]) \cup Elements(col["V1beta1CRD"])
        others == {o \in Elements(in.stream) : o.kind = "Other"}
    IN  Elements(col["CustomResource"]) =
          {o \in others : \E c \in crds :
             c.name = o.gvk.kind /\ o.gvk.version \in c.served /\ o.gvk.version \in c.versions}
=============================================================================
