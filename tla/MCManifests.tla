----------------------------- MODULE MCManifests -----------------------------
(***************************************************************************)
(* What the commands compute from the manifests of a project: the          *)
(* collection, and from it the parts of the CSV; and the verdicts of the   *)
(* scorecard's built-in tests on a bundle.  As in MCHelmHelpers, a         *)
(* behaviour is one of a single component.                                 *)
(***************************************************************************)
EXTENDS ManifestCommands

-----------------------------------------------------------------------------
(* Collection: up to three documents of every kind, with and without a CRDs *)
(* directory; and objects of two kinds with one name and content.           *)
Obj(k, name, b) == [kind |-> k, name |-> name, body |-> b]
CRD(k, b, vs, sv) == [kind |-> k, name |-> "Memcached", body |-> b, versions |-> vs, served |-> sv]
CR(v) == [kind |-> "Other", name |-> "sample", body |-> "cr",
          gvk |-> [kind |-> "Memcached", version |-> v]]
Hooks(k) == [kind |-> k, webhooks |-> <<Obj(k, "hook", "h"), Obj(k, "hook", "h")>>]
Documents ==
  {Obj("Role", "r", "rules"), Obj("Deployment", "d", "spec"),
   Obj("RoleBinding", "b", "role"), Obj("NoTypeMeta", "x", "x"), Obj("Malformed", "x", "x"),
   Obj("Configuration", "config", "tests"), CR("v1"), CR("v2"), Hooks("ValidatingWebhook"),
   CRD("V1CRD", "one", {"v1", "v2"}, {"v1"}), CRD("V1beta1CRD", "two", {"v2"}, {"v2"})}
Twins == {Obj("Role", "r", "rules"), Obj("Role", "r", "other"), Obj("ClusterRole", "r", "rules"),
          Hooks("ValidatingWebhook"), Hooks("MutatingWebhook")}
UpTo(k, S) == UNION {[1..i -> S] : i \in 0..k}
Third == CRD("V1CRD", "three", {"v2"}, {"v2"})
MCCollections ==
  {[stream |-> s, crdsDir |-> <<>>, hasCRDsDir |-> FALSE] : s \in UpTo(3, Documents) \cup [1..2 -> Twins]}
  \cup
  {[stream |-> s, crdsDir |-> x, hasCRDsDir |-> TRUE] : s \in UpTo(2, Documents),
     x \in {<<>>, <<Third>>, <<Third, CRD("V1beta1CRD", "two", {"v2"}, {"v2"})>>}}

CollectorOff == in = <<>> /\ left = <<>> /\ col = <<>> /\ scorecard = <<>> /\ colPc = "off"

(* Permissions: an operator account, the default account of a second        *)
(* deployment, an account outside the CSV, a user of the operator's name;   *)
(* a binding of each kind, or two RoleBindings to two roles or to one.      *)
Subjects == {[kind |-> "ServiceAccount", name |-> "op"], [kind |-> "User", name |-> "op"],
             [kind |-> "ServiceAccount", name |-> "other"],
             [kind |-> "ServiceAccount", name |-> "default"]}
SubjectSets == {{}} \cup {{s, t} : s, t \in Subjects}
Role(name, ns) == [kind |-> "Role", name |-> name, ns |-> ns]
Binding(name, k, r, ss) == [name |-> name, kind |-> k, ref |-> r, subjects |-> ss]
Base == [roles |-> <<Role("r", "a")>>, clusterRoles |-> <<[kind |-> "ClusterRole", name |-> "r", ns |-> ""]>>,
         roleBindings |-> <<>>, clusterRoleBindings |-> <<>>,
         deployments |-> {"op", ""}, accounts |-> {"op", "other"}, extra |-> {}]
MCGrants ==
  {[Base EXCEPT !.roleBindings = <<Binding("b", k, r, ss)>>,
                !.clusterRoleBindings = <<Binding("c", "ClusterRole", q, st)>>, !.extra = x]
     : k \in {"Role", "ClusterRole"}, r \in {"r", "gone"}, q \in {"r", "gone"},
       ss \in SubjectSets, st \in SubjectSets, x \in {{}, {"other"}}}
  \cup
  {[Base EXCEPT !.roles = <<Role("r", "a"), Role("q", "a")>>,
                !.roleBindings = <<Binding("b", "Role", "r", ss), Binding("b2", l, x, st)>>]
     : l \in {"Role", "ClusterRole"}, x \in {"q", "r"}, ss \in SubjectSets, st \in SubjectSets}

RBACOff == m = Base /\ split = RBAC!NoSplit /\ perms = <<>> /\ cPerms = <<>> /\ rbacPc = "off"

(* Definitions: kinds 1 to 5 of one group, some with an order; a spec with  *)
(* an array of structs, an inlined struct and hidden fields.                *)
Pkg(s, g, ks) == [skip |-> s, group |-> g, kinds |-> ks]
Api(k) == [group |-> "g", kind |-> k]
Manual(k) == [api |-> Api(k), manual |-> TRUE, desc |-> <<>>]
Info(o) == [order |-> o, parses |-> TRUE, spec |-> "Spec", status |-> "Status"]
Field(i, emb, exp, js, arr, mk, t) ==
  [id |-> i, embedded |-> emb, exported |-> exp, json |-> js, array |-> arr, marked |-> mk,
   order |-> IF i = 1 THEN 99 ELSE 0, type |-> t]

MCSources ==
  {<<Pkg(FALSE, "g", a), Pkg(FALSE, x, b)>>
     : a \in SUBSET {1, 2}, x \in {"g", "none"}, b \in SUBSET {3, 4}} \cup
  {<<Pkg(FALSE, "g", {1}), Pkg(s, "g", {2})>> : s \in BOOLEAN} \cup
  {<<Pkg(TRUE, "g", {1}), Pkg(FALSE, "g", {2})>>, <<>>}
MCBases ==
  {<<>>} \cup {<<Manual(a)>> : a \in 1..5} \cup {<<Manual(4), Manual(b)>> : b \in {1, 2, 5}}
MCKindInfo == <<Info(0), Info(1), Info(99), [Info(1) EXCEPT !.status = "none"], Info(0)>>
MCTypeFields ==
  [Spec   |-> {Field(1, FALSE, TRUE, "name", TRUE, TRUE, "Item"),
               Field(2, TRUE, TRUE, "inline", FALSE, TRUE, "Item"),
               Field(3, FALSE, TRUE, "-", FALSE, TRUE, "Item"),
               Field(4, FALSE, FALSE, "none", FALSE, TRUE, "none")},
   Status |-> {Field(5, FALSE, TRUE, "none", FALSE, TRUE, "none")},
   Item   |-> {Field(6, FALSE, TRUE, "name", FALSE, TRUE, "none"),
               Field(7, FALSE, TRUE, "name", TRUE, FALSE, "none")}]
MCAPIs == {Api(k) : k \in 1..4}

DefinitionsOff == /\ pkgs = <<>> /\ owned = <<>> /\ before = <<>> /\ types = {} /\ root = 1
                  /\ todo = {} /\ defs = {} /\ walk = Definitions!NoWalk /\ runs = 0 /\ defPc = "off"

(* Webhooks: two deployments, services with and without a selector, two     *)
(* admission webhooks and two CRDs that convert.                            *)
Svc(name, sel, ext) == [name |-> name, selector |-> sel, external |-> ext, ports |-> {443}]
Dep(name, ls) == [name |-> name, labels |-> ls]
Hook(k, name, s, p) == [kind |-> k, name |-> name, svc |-> s, port |-> p, path |-> "/hook"]
Conv(name, a, p, path) == [name |-> name, api |-> a, svc |-> "s", port |-> p, path |-> path]
MCHookInputs ==
  [services : {<<Svc("s", sel, ext)>> : sel \in {{}, {"a"}, {"a", "b"}}, ext \in BOOLEAN} \cup
              {<<>>, <<Svc("t", {"b"}, FALSE), Svc("s", {"a"}, FALSE)>>},
   deployments : {<<Dep("d1", x), Dep("d2", y)>> : x \in {{}, {"a"}}, y \in {{"b"}, {"a", "b"}}},
   webhooks : {<<Hook("validating", "v", s, 0), Hook("mutating", "m", "s", 8443)>> : s \in {"s", "url"}},
   crds : {{Conv("x", "v1", p, "/convert"), Conv("y", a, q, path)}
             : p \in {0, 443}, q \in {0, 443}, a \in {"v1", "v1beta1"},
               path \in {"/convert", "/other", "nil"}} \cup {{}}]

WebhooksOff == source = <<>> /\ hooks = <<>> /\ services = <<>> /\ descs = {} /\ hookPc = "off"

(* Images: two deployments, one with two containers; two spellings of one   *)
(* name and a longer name.                                                  *)
MCNames == {<<"db">>, <<"DB">>, <<"db", "x">>}
MCLower == [w \in {"db", "DB", "x"} |-> IF w = "DB" THEN "db" ELSE w]
MCImageRefs == {<<"i1">>, <<"i2">>}
MCDeployments == <<[name |-> <<"op">>, containers |-> <<<<"manager">>, <<"proxy">>>>],
                   [name |-> <<"web">>, containers |-> <<<<"manager">>>>]>>

ImagesOff == /\ at = [deployment |-> 1, container |-> 1] /\ relatedImages = <<>> /\ seen = {}
             /\ env = {} /\ count = 0 /\ final = <<>> /\ imagePc = "off"

(* Tests: one API with two fields, every CR with every pair of CRD versions *)
(* or owned CRDs of that API, and the faults a bundle may have.             *)
Blocks == {[has |-> FALSE, fields |-> {}]} \cup [has : {TRUE}, fields : SUBSET {"f", "g"}]
Blocked == [api : {"A"}, spec : Blocks, status : Blocks]
Owned == [api : {"A"}, resources : BOOLEAN, specDesc : SUBSET {"f", "g"}, statusDesc : SUBSET {"f", "g"}]
NoBundle == [crs |-> <<>>, crds |-> <<>>, owned |-> <<>>, parses |-> TRUE,
             format |-> TRUE, loads |-> TRUE, valid |-> TRUE]
Faulty == [crs : {<<>>}, crds : {<<>>}, owned : {<<>>}, parses : BOOLEAN, format : BOOLEAN,
           loads : BOOLEAN, valid : BOOLEAN]
MCTestInputs ==
  [test : {"validation", "spec", "status", "basic"},
   bundle : {[NoBundle EXCEPT !.crs = <<c>>, !.crds = <<d, e>>] : c, d, e \in Blocked}
      \cup {[NoBundle EXCEPT !.crs = <<c, d>>, !.owned = <<o>>] : c, d \in Blocked, o \in Owned}
      \cup Faulty]
  \cup
  [test : {"bundle", "resources", "other"},
   bundle : {[NoBundle EXCEPT !.owned = <<o, p>>] : o, p \in Owned} \cup Faulty]

TestsOff == /\ bundle = NoBundle /\ test = "none" /\ report = <<>> /\ args = <<>>
            /\ kuttl = <<>> /\ result = "none"

\* These inputs are such as the theorems of ManifestProofs speak of.
ASSUME InputsAsAssumed ==
  /\ RBACInputs /\ WebhookInputs /\ ImageInputs
  /\ BundleInputs /\ CollectorInputs /\ DefinitionInputs

-----------------------------------------------------------------------------
Init ==
  \/ Collector!Init /\ RBACOff /\ DefinitionsOff /\ WebhooksOff /\ ImagesOff /\ TestsOff
  \/ CollectorOff /\ RBAC!Init /\ DefinitionsOff /\ WebhooksOff /\ ImagesOff /\ TestsOff
  \/ CollectorOff /\ RBACOff /\ Definitions!Init /\ WebhooksOff /\ ImagesOff /\ TestsOff
  \/ CollectorOff /\ RBACOff /\ DefinitionsOff /\ Webhooks!Init /\ ImagesOff /\ TestsOff
  \/ CollectorOff /\ RBACOff /\ DefinitionsOff /\ WebhooksOff /\ Images!Init /\ TestsOff
  \/ CollectorOff /\ RBACOff /\ DefinitionsOff /\ WebhooksOff /\ ImagesOff /\ Tests!Init

colVars == <<in, left, col, scorecard, colPc>>
rbacVars == <<m, split, perms, cPerms, rbacPc>>
defVars == <<pkgs, owned, before, types, root, todo, defs, walk, runs, defPc>>
hookVars == <<source, hooks, services, descs, hookPc>>
imageVars == <<at, relatedImages, seen, env, count, final, imagePc>>
testVars == <<bundle, test, report, args, kuttl, result>>
vars == <<colVars, rbacVars, defVars, hookVars, imageVars, testVars>>

Next ==
  \/ Collector!Next /\ UNCHANGED <<rbacVars, defVars, hookVars, imageVars, testVars>>
  \/ RBAC!Next /\ UNCHANGED <<colVars, defVars, hookVars, imageVars, testVars>>
  \/ Definitions!Next /\ UNCHANGED <<colVars, rbacVars, hookVars, imageVars, testVars>>
  \/ Webhooks!Next /\ UNCHANGED <<colVars, rbacVars, defVars, imageVars, testVars>>
  \/ Images!Next /\ UNCHANGED <<colVars, rbacVars, defVars, hookVars, testVars>>
  \/ Tests!Next /\ UNCHANGED <<colVars, rbacVars, defVars, hookVars, imageVars>>

Spec == Init /\ [][Next]_vars
=============================================================================
