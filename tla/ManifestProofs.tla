--------------------------- MODULE ManifestProofs ---------------------------
(***************************************************************************)
(* Proofs about what the commands compute from manifests: the examples,    *)
(* permissions, owned CRDs, webhooks and related images of a CSV, and the  *)
(* verdict of the scorecard's spec descriptor test.  Each holds for all    *)
(* inputs that satisfy its hypothesis, which ManifestCommands defines.     *)
(***************************************************************************)
EXTENDS ManifestCommands, FiniteSetTheorems, WellFoundedInduction, TLAPS

-----------------------------------------------------------------------------
(* Sequences and sets of positions. *)

\* The elements of a sequence.
LEMMA ElementType ==
  ASSUME NEW S, NEW s \in Seq(S), NEW i \in DOMAIN s
  PROVE  s[i] \in S
OBVIOUS

\* A set of natural numbers has a least one.
LEMMA LeastPosition ==
  ASSUME NEW S, S \subseteq Nat, S # {}
  PROVE  \E v \in S : \A w \in S : v <= w
<1>1. PICK x \in S : TRUE
  OBVIOUS
<1> DEFINE R == OpToRel(<, Nat)
<1>2. PICK v \in S : \A w \in S : ~ (<<w, v>> \in R)
  BY <1>1, NatLessThanWellFounded, WFMin
<1>3. \A w \in S : ~ (w < v)
  BY <1>2 DEF OpToRel
<1> QED BY <1>3

\* Induction over the natural numbers, for a set.
LEMMA SetInduction ==
  ASSUME NEW S, 0 \in S, \A k \in Nat : k \in S => k + 1 \in S
  PROVE  Nat \subseteq S
<1> DEFINE B == Nat \ S
<1> SUFFICES ASSUME B # {} PROVE FALSE
  OBVIOUS
<1>1. B \subseteq Nat
  OBVIOUS
<1>2. PICK v \in B : \A w \in B : v <= w
  <2> HIDE DEF B
  <2> QED BY <1>1, LeastPosition
<1>3. v \in Nat /\ v \notin S /\ v # 0
  BY <1>2
<1>4. v - 1 \in Nat /\ ~(v <= v - 1) /\ (v - 1) + 1 = v
  BY <1>3
<1>5. v - 1 \in S
  BY <1>2, <1>4
<1> QED BY <1>3, <1>4, <1>5

-----------------------------------------------------------------------------
(* The permissions of a CSV. *)

\* A map by name finds the only object of a name.
LEMMA ByNameFinds ==
  ASSUME NEW S, NEW s \in Seq(S), RBAC!Unique(s), NEW k \in DOMAIN s
  PROVE  /\ s[k].name \in DOMAIN RBAC!ByName(s)
         /\ RBAC!ByName(s)[s[k].name] = s[k]
<1> DEFINE n == s[k].name
           P(i) == s[i].name = n /\ \A j \in DOMAIN s : s[j].name = n => j <= i
<1>1. DOMAIN s \subseteq Nat OBVIOUS
<1>2. P(k) BY <1>1 DEF RBAC!Unique
<1>3. (CHOOSE i \in DOMAIN s : P(i)) = k
  <2>1. (CHOOSE i \in DOMAIN s : P(i)) \in DOMAIN s /\ P(CHOOSE i \in DOMAIN s : P(i))
    BY <1>2
  <2> QED BY <2>1 DEF RBAC!Unique
<1> QED BY <1>3 DEF RBAC!ByName, RBAC!NamesIn

LEMMA ByNameElement ==
  ASSUME NEW S, NEW s \in Seq(S), RBAC!Unique(s), NEW n \in DOMAIN RBAC!ByName(s)
  PROVE  /\ RBAC!ByName(s)[n] \in RBAC!All(s)
         /\ RBAC!ByName(s)[n].name = n
<1>1. PICK k \in DOMAIN s : s[k].name = n
  BY DEF RBAC!ByName, RBAC!NamesIn
<1> QED BY <1>1, ByNameFinds DEF RBAC!All

RBACInv ==
  /\ m \in Grants
  /\ rbacPc # "split" => split = RBAC!SplitCSVPermissionsObjects(m)
  /\ rbacPc \in {"clusterRoles", "done"} =>
       /\ RBAC!NilRole \notin split.inPerms
       /\ perms = RBAC!Granted(m, m.roleBindings, split.inPerms)
  /\ rbacPc = "done" =>
       cPerms = RBAC!Granted(m, RBAC!AsClusterRoles(m.clusterRoleBindings), split.inCPerms)

\* The subject that stands for a service account.
Account(sa) == [kind |-> "ServiceAccount", name |-> sa]

\* What makes an account of the CSV get a role is a binding of that role with the
\* account as a subject.
LEMMA GrantedExactly ==
  ASSUME NEW c, NEW K, NEW bs \in Seq(BindingsTo(K)), NEW roleSet, NEW sa \in RBAC!csvSAs(c)
  PROVE  RBAC!Granted(c, bs, roleSet)[sa] =
           {r \in roleSet : \E b \in RBAC!All(bs) :
              Account(sa) \in b.subjects /\ b.ref = r.name /\ b.kind = r.kind}
<1>1. \A i \in DOMAIN bs : bs[i] \in BindingsTo(K)
  OBVIOUS
<1>2. \A i \in DOMAIN bs : \A s \in bs[i].subjects :
        (s.name = sa /\ RBAC!Relevant(s, {sa})) <=> s = Account(sa)
  <2> SUFFICES ASSUME NEW i \in DOMAIN bs, NEW s \in bs[i].subjects
      PROVE (s.name = sa /\ RBAC!Relevant(s, {sa})) <=> s = Account(sa)
    OBVIOUS
  <2>1. s \in [kind : STRING, name : STRING] BY <1>1 DEF BindingsTo
  <2>2. s = [kind |-> s.kind, name |-> s.name] BY <2>1
  <2> QED BY <2>2 DEF RBAC!Relevant, Account
<1>3. sa \in DOMAIN RBAC!initPermissionSet(c)
  BY DEF RBAC!initPermissionSet
<1> DEFINE L == {r \in roleSet : \E i \in DOMAIN bs :
                   /\ bs[i].ref = r.name /\ bs[i].kind = r.kind
                   /\ \E s \in bs[i].subjects : s.name = sa /\ RBAC!Relevant(s, {sa})}
<1>4. RBAC!Granted(c, bs, roleSet)[sa] = L
  BY <1>3 DEF RBAC!Granted
<1>5. L = {r \in roleSet : \E i \in DOMAIN bs :
             Account(sa) \in bs[i].subjects /\ bs[i].ref = r.name /\ bs[i].kind = r.kind}
  BY <1>2
<1>6. \A r : (\E i \in DOMAIN bs :
               Account(sa) \in bs[i].subjects /\ bs[i].ref = r.name /\ bs[i].kind = r.kind)
            <=> \E b \in RBAC!All(bs) :
                  Account(sa) \in b.subjects /\ b.ref = r.name /\ b.kind = r.kind
  BY Zenon DEF RBAC!All
<1> HIDE DEF L
<1> QED BY <1>4, <1>5, <1>6

LEMMA NamespacedExact ==
  ASSUME RBACInputs, m \in Grants, RBAC!UniqueNames, NEW sa \in RBAC!csvSAs(m),
         split = RBAC!SplitCSVPermissionsObjects(m), RBAC!NilRole \notin split.inPerms
  PROVE  RBAC!Granted(m, m.roleBindings, split.inPerms)[sa] =
           {r \in RBAC!All(m.roles) \cup RBAC!All(m.clusterRoles) :
              \E b \in RBAC!All(m.roleBindings) :
                Account(sa) \in b.subjects /\ b.ref = r.name /\ b.kind = r.kind}
<1> DEFINE roleMap == RBAC!ByName(m.roles)
           cRoleMap == RBAC!ByName(m.clusterRoles)
           bs == m.roleBindings
           sas == RBAC!csvSAs(m)
           roleAt == RBAC!Bound(bs, "Role", DOMAIN roleMap, sas)
           cRoleAt == RBAC!Bound(bs, "ClusterRole", DOMAIN cRoleMap, sas)
           Through(r) == \E b \in RBAC!All(bs) :
                           Account(sa) \in b.subjects /\ b.ref = r.name /\ b.kind = r.kind
<1>0. /\ m.roles \in Seq([kind : {"Role"}, name : STRING, ns : STRING])
      /\ m.clusterRoles \in Seq([kind : {"ClusterRole"}, name : STRING, ns : STRING])
      /\ bs \in Seq(BindingsTo({"Role", "ClusterRole"}))
      /\ RBAC!Unique(m.roles) /\ RBAC!Unique(m.clusterRoles)
  BY DEF RBACInputs, RBAC!UniqueNames
<1>1. split.inPerms = {roleMap[n] : n \in RBAC!Refs(bs, roleAt)}
                      \cup {cRoleMap[n] : n \in RBAC!Refs(bs, cRoleAt)}
                      \cup (IF RBAC!Twice(bs, roleAt) THEN {RBAC!NilRole} ELSE {})
  BY DEF RBAC!SplitCSVPermissionsObjects
<1>2. RBAC!Granted(m, bs, split.inPerms)[sa] = {r \in split.inPerms : Through(r)}
  BY <1>0, GrantedExactly
<1>3. split.inPerms \subseteq RBAC!All(m.roles) \cup RBAC!All(m.clusterRoles)
  <2> SUFFICES ASSUME NEW r \in split.inPerms
      PROVE r \in RBAC!All(m.roles) \cup RBAC!All(m.clusterRoles)
    OBVIOUS
  <2>1. CASE \E n \in RBAC!Refs(bs, roleAt) : r = roleMap[n]
    <3>1. PICK i \in roleAt : r = roleMap[bs[i].ref] BY <2>1 DEF RBAC!Refs
    <3>2. bs[i].ref \in DOMAIN roleMap BY <3>1 DEF RBAC!Bound, RBAC!Matches
    <3> QED BY <3>1, <3>2, <1>0, ByNameElement
  <2>2. CASE \E n \in RBAC!Refs(bs, cRoleAt) : r = cRoleMap[n]
    <3>1. PICK i \in cRoleAt : r = cRoleMap[bs[i].ref] BY <2>2 DEF RBAC!Refs
    <3>2. bs[i].ref \in DOMAIN cRoleMap BY <3>1 DEF RBAC!Bound, RBAC!Matches
    <3> QED BY <3>1, <3>2, <1>0, ByNameElement
  <2> QED BY <1>1, <2>1, <2>2
<1>4. ASSUME NEW r \in RBAC!All(m.roles) \cup RBAC!All(m.clusterRoles), Through(r)
      PROVE r \in split.inPerms
  <2>1. PICK i \in DOMAIN bs :
          Account(sa) \in bs[i].subjects /\ bs[i].ref = r.name /\ bs[i].kind = r.kind
    BY <1>4 DEF RBAC!All
  <2>2. RBAC!Relevant(Account(sa), sas)
    BY DEF RBAC!Relevant, Account
  <2>3. CASE r \in RBAC!All(m.roles)
    <3>1. PICK k \in DOMAIN m.roles : r = m.roles[k] BY <2>3 DEF RBAC!All
    <3>2. r.kind = "Role"
      <4>1. r \in [kind : {"Role"}, name : STRING, ns : STRING] BY <3>1, <1>0, ElementType
      <4> QED BY <4>1
    <3>3. r.name \in DOMAIN roleMap /\ roleMap[r.name] = r BY <3>1, <1>0, ByNameFinds
    <3>4. i \in roleAt BY <2>1, <2>2, <3>2, <3>3 DEF RBAC!Bound, RBAC!Matches
    <3>5. r.name \in RBAC!Refs(bs, roleAt) BY <3>4, <2>1 DEF RBAC!Refs
    <3> QED BY <3>5, <3>3, <1>1
  <2>4. CASE r \in RBAC!All(m.clusterRoles)
    <3>1. PICK k \in DOMAIN m.clusterRoles : r = m.clusterRoles[k] BY <2>4 DEF RBAC!All
    <3>2. r.kind = "ClusterRole"
      <4>1. r \in [kind : {"ClusterRole"}, name : STRING, ns : STRING]
        BY <3>1, <1>0, ElementType
      <4> QED BY <4>1
    <3>3. r.name \in DOMAIN cRoleMap /\ cRoleMap[r.name] = r BY <3>1, <1>0, ByNameFinds
    <3>4. i \in cRoleAt BY <2>1, <2>2, <3>2, <3>3 DEF RBAC!Bound, RBAC!Matches
    <3>5. r.name \in RBAC!Refs(bs, cRoleAt) BY <3>4, <2>1 DEF RBAC!Refs
    <3> QED BY <3>5, <3>3, <1>1
  <2> QED BY <2>3, <2>4
<1> HIDE DEF Through, roleMap, cRoleMap, roleAt, cRoleAt
<1>5. {r \in split.inPerms : Through(r)} =
        {r \in RBAC!All(m.roles) \cup RBAC!All(m.clusterRoles) : Through(r)}
  BY <1>3, <1>4
<1> QED BY <1>2, <1>5 DEF Through

LEMMA ClusterWideExact ==
  ASSUME RBACInputs, m \in Grants, RBAC!UniqueNames, NEW sa \in RBAC!csvSAs(m),
         split = RBAC!SplitCSVPermissionsObjects(m)
  PROVE  RBAC!Granted(m, RBAC!AsClusterRoles(m.clusterRoleBindings), split.inCPerms)[sa] =
           {r \in RBAC!All(m.clusterRoles) : \E b \in RBAC!All(m.clusterRoleBindings) :
              Account(sa) \in b.subjects /\ b.ref = r.name /\ b.kind = r.kind}
<1> DEFINE cRoleMap == RBAC!ByName(m.clusterRoles)
           bs == m.clusterRoleBindings
           sas == RBAC!csvSAs(m)
           cRoleAt == RBAC!Bound(bs, "ClusterRole", DOMAIN cRoleMap, sas)
           Through(r) == \E b \in RBAC!All(bs) :
                           Account(sa) \in b.subjects /\ b.ref = r.name /\ b.kind = r.kind
<1>0. /\ m.clusterRoles \in Seq([kind : {"ClusterRole"}, name : STRING, ns : STRING])
      /\ bs \in Seq(BindingsTo({"ClusterRole"}))
      /\ RBAC!Unique(m.clusterRoles)
  BY DEF RBACInputs, RBAC!UniqueNames
<1>1. split.inCPerms = {cRoleMap[n] : n \in RBAC!Refs(bs, cRoleAt)}
  BY DEF RBAC!SplitCSVPermissionsObjects
<1>2. RBAC!AsClusterRoles(bs) = bs
  <2>1. \A i \in DOMAIN bs : [bs[i] EXCEPT !.kind = "ClusterRole"] = bs[i]
    <3> TAKE i \in DOMAIN bs
    <3>1. bs[i] \in BindingsTo({"ClusterRole"}) BY <1>0
    <3> QED BY <3>1 DEF BindingsTo
  <2>2. bs = [i \in DOMAIN bs |-> bs[i]] BY <1>0
  <2> HIDE DEF bs
  <2> QED BY <2>1, <2>2 DEF RBAC!AsClusterRoles
<1>3. RBAC!Granted(m, bs, split.inCPerms)[sa] = {r \in split.inCPerms : Through(r)}
  BY <1>0, GrantedExactly
<1>4. split.inCPerms \subseteq RBAC!All(m.clusterRoles)
  <2> SUFFICES ASSUME NEW r \in split.inCPerms PROVE r \in RBAC!All(m.clusterRoles)
    OBVIOUS
  <2>1. PICK i \in cRoleAt : r = cRoleMap[bs[i].ref] BY <1>1 DEF RBAC!Refs
  <2>2. bs[i].ref \in DOMAIN cRoleMap BY <2>1 DEF RBAC!Bound, RBAC!Matches
  <2> QED BY <2>1, <2>2, <1>0, ByNameElement
<1>5. ASSUME NEW r \in RBAC!All(m.clusterRoles), Through(r)
      PROVE r \in split.inCPerms
  <2>1. PICK i \in DOMAIN bs :
          Account(sa) \in bs[i].subjects /\ bs[i].ref = r.name /\ bs[i].kind = r.kind
    BY <1>5 DEF RBAC!All
  <2>2. RBAC!Relevant(Account(sa), sas)
    BY DEF RBAC!Relevant, Account
  <2>3. PICK k \in DOMAIN m.clusterRoles : r = m.clusterRoles[k] BY DEF RBAC!All
  <2>4. r.kind = "ClusterRole"
    <3>1. r \in [kind : {"ClusterRole"}, name : STRING, ns : STRING]
      BY <2>3, <1>0, ElementType
    <3> QED BY <3>1
  <2>5. r.name \in DOMAIN cRoleMap /\ cRoleMap[r.name] = r BY <2>3, <1>0, ByNameFinds
  <2>6. i \in cRoleAt BY <2>1, <2>2, <2>4, <2>5 DEF RBAC!Bound, RBAC!Matches
  <2>7. r.name \in RBAC!Refs(bs, cRoleAt) BY <2>6, <2>1 DEF RBAC!Refs
  <2> QED BY <2>7, <2>5, <1>1
<1> HIDE DEF Through, cRoleMap, cRoleAt
<1>6. {r \in split.inCPerms : Through(r)} = {r \in RBAC!All(m.clusterRoles) : Through(r)}
  BY <1>4, <1>5
<1> QED BY <1>2, <1>3, <1>6 DEF Through

\* For all roles, bindings and accounts: the permissions of the generated CSV are
\* those the bindings give, neither more nor fewer, whatever order the split and
\* the two appliers find them in (SplitCSVPermissionsObjects, applyRoles,
\* applyClusterRoles).
THEOREM PermissionsAsBound ==
  ASSUME RBACInputs PROVE RBAC!Spec => []PermissionsExact
<1>1. RBAC!Init => RBACInv
  BY DEF RBAC!Init, RBACInv
<1>2. RBACInv /\ [RBAC!Next]_(RBAC!vars) => RBACInv'
  <2> SUFFICES ASSUME RBACInv, [RBAC!Next]_(RBAC!vars) PROVE RBACInv'
    OBVIOUS
  <2>1. CASE RBAC!Split BY <2>1 DEF RBACInv, RBAC!Split
  <2>2. CASE RBAC!applyRoles BY <2>2 DEF RBACInv, RBAC!applyRoles
  <2>3. CASE RBAC!applyClusterRoles BY <2>3 DEF RBACInv, RBAC!applyClusterRoles
  <2>4. CASE UNCHANGED RBAC!vars BY <2>4 DEF RBACInv, RBAC!vars
  <2> QED BY <2>1, <2>2, <2>3, <2>4 DEF RBAC!Next
<1>3. RBACInv => PermissionsExact
  <2> SUFFICES ASSUME RBACInv, rbacPc = "done", RBAC!UniqueNames, NEW sa \in RBAC!csvSAs(m)
      PROVE  /\ perms[sa] = {r \in RBAC!All(m.roles) \cup RBAC!All(m.clusterRoles) :
                               \E b \in RBAC!All(m.roleBindings) : 
                                 Account(sa) \in b.subjects /\ b.ref = r.name /\ b.kind = r.kind}
             /\ cPerms[sa] = {r \in RBAC!All(m.clusterRoles) :
                               \E b \in RBAC!All(m.clusterRoleBindings) : 
                                 Account(sa) \in b.subjects /\ b.ref = r.name /\ b.kind = r.kind}
    BY DEF PermissionsExact, RBAC!PermissionsExact, Account
  <2> QED BY NamespacedExact, ClusterWideExact DEF RBACInv
<1> QED BY <1>1, <1>2, <1>3, PTL DEF RBAC!Spec

-----------------------------------------------------------------------------
(* The webhook descriptions of a CSV. *)

\* A webhook whose service was found is described as the property says.
LEMMA DescribedRight ==
  ASSUME WebhookInputs, source \in HookInputs,
         NEW hook, NEW svc \in Webhooks!Elements(source.services),
         hook.svc = svc.name, svc.selector # {}, ~svc.external
  PROVE  LET d == Webhooks!AdmissionDescription(source, hook) IN
         /\ d.type = hook.kind /\ d.of = {hook.name}
         /\ IF Webhooks!SelectedBy(svc) = {} THEN d.dep = Webhooks!Trimmed(svc.name)
            ELSE \E dep \in Webhooks!SelectedBy(svc) : d.dep = [name |-> dep.name]
<1> DEFINE found == Webhooks!ServiceOf(source, hook)
           hits == {i \in DOMAIN source.deployments : Webhooks!Selects(svc, source.deployments[i])}
           dep == Webhooks!findMatchingDeploymentAndServiceForWebhook(source, hook)
<1>1. PICK k \in DOMAIN source.services : svc = source.services[k]
  BY DEF Webhooks!Elements
<1>2. found = {k} /\ hook.svc # URL
  BY <1>1 DEF WebhookInputs, Webhooks!ServiceOf
<1>3. DOMAIN source.services \subseteq Nat /\ DOMAIN source.deployments \subseteq Nat
  <2>1. PICK S : source.services \in Seq(S) BY DEF WebhookInputs, Sequence
  <2>2. PICK T : source.deployments \in Seq(T) BY DEF WebhookInputs, Sequence
  <2> QED BY <2>1, <2>2
<1>4. Webhooks!First(found) = k
  BY <1>2, <1>3, <1>1 DEF Webhooks!First
<1>5. dep = Webhooks!findMatchingDepNameFromService(source, svc)
  BY <1>1, <1>2, <1>4 DEF Webhooks!findMatchingDeploymentAndServiceForWebhook
<1>6. CASE hits = {}
  <2>1. dep = Nil BY <1>5, <1>6 DEF Webhooks!findMatchingDepNameFromService
  <2>2. Webhooks!SelectedBy(svc) = {}
    BY <1>6 DEF Webhooks!SelectedBy, Webhooks!Elements, Webhooks!Selects
  <2> QED BY <2>1, <2>2, <1>2 DEF Webhooks!AdmissionDescription
<1>7. CASE hits # {}
  <2>1. Webhooks!First(hits) \in hits
    <3>1. hits \subseteq Nat BY <1>3
    <3> HIDE DEF hits
    <3>2. \E v \in hits : \A w \in hits : v <= w BY <3>1, <1>7, LeastPosition
    <3> QED BY <3>2 DEF Webhooks!First
  <2>2. dep = source.deployments[Webhooks!First(hits)].name
    BY <1>5, <1>7 DEF Webhooks!findMatchingDepNameFromService
  <2>3. dep # Nil
    BY <2>1, <2>2 DEF WebhookInputs
  <2>4. source.deployments[Webhooks!First(hits)] \in Webhooks!SelectedBy(svc)
    BY <2>1 DEF Webhooks!SelectedBy, Webhooks!Elements, Webhooks!Selects
  <2>5. Webhooks!AdmissionDescription(source, hook).dep =
          [name |-> source.deployments[Webhooks!First(hits)].name]
    BY <2>2, <2>3, <1>2 DEF Webhooks!AdmissionDescription
  <2>6. /\ Webhooks!AdmissionDescription(source, hook).type = hook.kind
        /\ Webhooks!AdmissionDescription(source, hook).of = {hook.name}
    BY DEF Webhooks!AdmissionDescription
  <2> HIDE DEF hits
  <2> QED BY <2>4, <2>5, <2>6
<1> QED BY <1>6, <1>7

\* The webhooks that are not waiting any more are described.
HooksInv ==
  /\ source \in HookInputs
  /\ \E S : hooks \in Seq(S)
  /\ hookPc = "done" => hooks = <<>>
  /\ \A hook \in Webhooks!Elements(source.webhooks) :
       \/ hook \in Webhooks!Elements(hooks)
       \/ Webhooks!AdmissionDescription(source, hook) \in descs

\* For all services, deployments and webhooks: every admission webhook is
\* described, with a deployment that its service sends the calls to
\* (applyWebhooks, findMatchingDeploymentAndServiceForWebhook).
THEOREM WebhooksReachDeployments ==
  ASSUME WebhookInputs PROVE Webhooks!Spec => []DeploymentServes
<1>1. Webhooks!Init => HooksInv
  BY DEF Webhooks!Init, HooksInv, WebhookInputs, Sequence
<1>2. HooksInv /\ [Webhooks!Next]_(Webhooks!vars) => HooksInv'
  <2> SUFFICES ASSUME HooksInv, [Webhooks!Next]_(Webhooks!vars) PROVE HooksInv'
    OBVIOUS
  <2>1. CASE Webhooks!applyAdmission
    <3>1. PICK S : hooks \in Seq(S) BY DEF HooksInv
    <3>2. /\ hooks # <<>> /\ hooks' = Tail(hooks) /\ source' = source /\ hookPc' = hookPc
          /\ hookPc = "admission"
          /\ descs' = descs \cup {Webhooks!AdmissionDescription(source, Head(hooks))}
      BY <2>1 DEF Webhooks!applyAdmission
    <3>3. Tail(hooks) \in Seq(S) BY <3>1, <3>2
    <3>4. \A i \in DOMAIN hooks : hooks[i] = Head(hooks) \/ \E j \in DOMAIN Tail(hooks) : hooks[i] = Tail(hooks)[j]
      <4> TAKE i \in DOMAIN hooks
      <4>1. CASE i = 1 BY <4>1
      <4>2. CASE i # 1
        <5>1. i - 1 \in DOMAIN Tail(hooks) /\ Tail(hooks)[i - 1] = hooks[i]
          BY <4>2, <3>1, <3>2
        <5> QED BY <5>1
      <4> QED BY <4>1, <4>2
    <3>5. \A hook \in Webhooks!Elements(source.webhooks) :
            \/ hook \in Webhooks!Elements(Tail(hooks))
            \/ Webhooks!AdmissionDescription(source, hook) \in descs'
      BY <3>2, <3>4 DEF HooksInv, Webhooks!Elements
    <3> QED BY <3>2, <3>3, <3>5 DEF HooksInv
  <2>2. CASE Webhooks!applyConversion
    BY <2>2 DEF HooksInv, Webhooks!applyConversion
  <2>3. CASE Webhooks!Finish BY <2>3 DEF HooksInv, Webhooks!Finish
  <2>4. CASE UNCHANGED Webhooks!vars BY <2>4 DEF HooksInv, Webhooks!vars
  <2> QED BY <2>1, <2>2, <2>3, <2>4 DEF Webhooks!Next
<1>3. HooksInv => DeploymentServes
  <2> SUFFICES ASSUME HooksInv, hookPc = "done",
                      NEW hook \in Webhooks!Elements(source.webhooks),
                      NEW svc \in Webhooks!Elements(source.services),
                      hook.svc = svc.name, svc.selector # {}, ~svc.external
      PROVE \E d \in descs :
              /\ d.type = hook.kind /\ d.of = {hook.name}
              /\ IF Webhooks!SelectedBy(svc) = {} THEN d.dep = Webhooks!Trimmed(svc.name)
                 ELSE \E dep \in Webhooks!SelectedBy(svc) : d.dep = [name |-> dep.name]
    BY DEF DeploymentServes, Webhooks!DeploymentServes
  <2>1. Webhooks!AdmissionDescription(source, hook) \in descs
    BY DEF HooksInv, Webhooks!Elements
  <2> WITNESS Webhooks!AdmissionDescription(source, hook) \in descs
  <2> QED BY DescribedRight DEF HooksInv
<1> QED BY <1>1, <1>2, <1>3, PTL DEF Webhooks!Spec

-----------------------------------------------------------------------------
(* The related images of a CSV. *)

Collected == [name : FormattedNames, image : ImageRefs, ref : Images!ContainerRefs]

ImagesTyped ==
  /\ relatedImages \in Seq(Collected)
  /\ at \in [deployment : Nat, container : Nat]
  /\ at.deployment \in DOMAIN Deployments
  /\ at.container \in DOMAIN Deployments[at.deployment].containers

\* What was read is what was collected, once.
ImagesInv ==
  /\ ImagesTyped
  /\ seen = {Images!Key(relatedImages[k].name, relatedImages[k].image) : k \in DOMAIN relatedImages}
  /\ env = {[name |-> relatedImages[k].name, image |-> relatedImages[k].image]
              : k \in DOMAIN relatedImages}
  /\ \A k, j \in DOMAIN relatedImages :
       relatedImages[k].name = relatedImages[j].name /\ relatedImages[k].image = relatedImages[j].image
         => k = j
  /\ imagePc = "done" =>
       final = [k \in {j \in DOMAIN relatedImages : Images!Listed(relatedImages[j])} |->
                  [name |-> Images!ListedName(relatedImages[k]), image |-> relatedImages[k].image]]

LEMMA ImagesStart ==
  ASSUME ImageInputs, Images!Init
  PROVE  ImagesInv
<1>1. PICK S : Deployments \in Seq(S) BY DEF ImageInputs, Sequence
<1>2. 1 \in DOMAIN Deployments BY <1>1 DEF ImageInputs
<1>3. PICK T : Deployments[1].containers \in Seq(T) BY <1>2 DEF ImageInputs, Sequence
<1>4. 1 \in DOMAIN Deployments[1].containers BY <1>2, <1>3 DEF ImageInputs
<1>5. relatedImages = <<>> /\ DOMAIN relatedImages = {} BY DEF Images!Init
<1>6. <<>> \in Seq(Collected) OBVIOUS
<1>7. ImagesTyped BY <1>2, <1>4, <1>5, <1>6 DEF Images!Init, ImagesTyped
<1> QED BY <1>5, <1>7 DEF Images!Init, ImagesInv

\* A variable whose pair is new extends the list by it, one that was there leaves
\* it alone.
LEMMA VariableCollected ==
  ASSUME ImageInputs, ImagesInv, Images!Variable
  PROVE  ImagesInv'
<1>1. PICK n \in Names, i \in ImageRefs :
        /\ Images!collect(Images!formatName(n), i)
        /\ env' = env \cup {[name |-> Images!formatName(n), image |-> i]}
  BY DEF Images!Variable
<1> DEFINE f == Images!formatName(n)
           ri == relatedImages
           ref == Images!containerRef(at.deployment, at.container)
           new == [name |-> f, image |-> i, ref |-> ref]
<1>2. f \in FormattedNames BY DEF FormattedNames
<1>3. imagePc = "read" /\ imagePc' = "read" /\ at' = at
  BY DEF Images!Variable
<1>4. ref \in Images!ContainerRefs
  BY DEF ImagesInv, ImagesTyped, Images!ContainerRefs
<1>5. new \in Collected BY <1>2, <1>4 DEF Collected
<1>6. ri \in Seq(Collected) BY DEF ImagesInv, ImagesTyped
<1>7. \A k \in DOMAIN ri : ri[k] \in Collected BY <1>6, ElementType
<1>8. \A k \in DOMAIN ri : ri[k].name \in FormattedNames /\ ri[k].image \in ImageRefs
  BY <1>7 DEF Collected
<1> HIDE DEF f
<1>9. CASE Images!Key(f, i) \in seen
  <2>1. relatedImages' = ri /\ seen' = seen BY <1>1, <1>9 DEF Images!collect, f
  <2>2. PICK k \in DOMAIN ri : Images!Key(ri[k].name, ri[k].image) = Images!Key(f, i)
    BY <1>9 DEF ImagesInv
  <2>3. ri[k].name = f /\ ri[k].image = i
    BY <2>2, <1>2, <1>8 DEF ImageInputs
  <2>4. env' = env BY <2>3, <1>1 DEF ImagesInv, f
  <2> QED BY <2>1, <2>4, <1>3 DEF ImagesInv, ImagesTyped
<1>10. CASE Images!Key(f, i) \notin seen
  <2>1. relatedImages' = Append(ri, new) /\ seen' = seen \cup {Images!Key(f, i)}
    BY <1>1, <1>10 DEF Images!collect, f
  <2>2. /\ Append(ri, new) \in Seq(Collected)
        /\ DOMAIN Append(ri, new) = DOMAIN ri \cup {Len(ri) + 1}
        /\ Append(ri, new)[Len(ri) + 1] = new
        /\ \A k \in DOMAIN ri : Append(ri, new)[k] = ri[k]
        /\ Len(ri) + 1 \notin DOMAIN ri
    <3> HIDE DEF new, ri
    <3> QED BY <1>5, <1>6
  <2>3. \A k \in DOMAIN ri : ~ (ri[k].name = f /\ ri[k].image = i)
    BY <1>10 DEF ImagesInv
  <2>4. new.name = f /\ new.image = i OBVIOUS
  <2> HIDE DEF new
  <2>5. ImagesTyped' BY <2>1, <2>2, <1>3 DEF ImagesInv, ImagesTyped
  <2> DEFINE q == Append(ri, new)
  <2>6. seen' = {Images!Key(q[k].name, q[k].image) : k \in DOMAIN q}
    BY <2>1, <2>2, <2>4 DEF ImagesInv
  <2>7. env' = {[name |-> q[k].name, image |-> q[k].image] : k \in DOMAIN q}
    BY <2>2, <2>4, <1>1 DEF ImagesInv, f
  <2>8. \A k, j \in DOMAIN q : q[k].name = q[j].name /\ q[k].image = q[j].image => k = j
    BY <2>2, <2>3, <2>4 DEF ImagesInv
  <2> HIDE DEF q
  <2> QED BY <2>1, <2>5, <2>6, <2>7, <2>8, <1>3 DEF ImagesInv, q
<1> QED BY <1>9, <1>10

LEMMA ContainersWalked ==
  ASSUME ImageInputs, ImagesInv, Images!NextContainer
  PROVE  ImagesInv'
<1>1. UNCHANGED <<relatedImages, seen, env, count, final>> /\ imagePc' # "done"
  BY DEF Images!NextContainer
<1>2. /\ at' \in [deployment : Nat, container : Nat]
      /\ at'.deployment \in DOMAIN Deployments
      /\ at'.container \in DOMAIN Deployments[at'.deployment].containers
  <2>1. PICK S : Deployments \in Seq(S) BY DEF ImageInputs, Sequence
  <2>2. PICK T : Deployments[at.deployment].containers \in Seq(T)
    BY DEF ImageInputs, Sequence, ImagesInv, ImagesTyped
  <2>3. CASE at.container < Len(Deployments[at.deployment].containers)
             /\ at' = [at EXCEPT !.container = @ + 1]
    BY <2>2, <2>3 DEF ImagesInv, ImagesTyped
  <2>4. CASE at.deployment < Len(Deployments)
             /\ at' = [deployment |-> at.deployment + 1, container |-> 1]
    <3>1. at.deployment + 1 \in DOMAIN Deployments BY <2>1, <2>4 DEF ImagesInv, ImagesTyped
    <3>2. PICK U : Deployments[at.deployment + 1].containers \in Seq(U)
      BY <3>1 DEF ImageInputs, Sequence
    <3>3. 1 \in DOMAIN Deployments[at.deployment + 1].containers
      BY <3>1, <3>2 DEF ImageInputs
    <3> QED BY <3>1, <3>3, <2>4 DEF ImagesInv, ImagesTyped
  <2>5. CASE at' = at BY <2>5 DEF ImagesInv, ImagesTyped
  <2> QED BY <2>3, <2>4, <2>5 DEF Images!NextContainer
<1>3. ImagesTyped' BY <1>1, <1>2 DEF ImagesInv, ImagesTyped
<1> QED BY <1>1, <1>3 DEF ImagesInv

LEMMA ImagesStep ==
  ASSUME ImageInputs, ImagesInv, [Images!Next]_(Images!vars)
  PROVE  ImagesInv'
<1>1. CASE Images!ValueFrom
  BY <1>1 DEF ImagesInv, ImagesTyped, Images!ValueFrom
<1>2. CASE Images!collectedRelatedImages
  BY <1>2 DEF ImagesInv, ImagesTyped, Images!collectedRelatedImages, Images!Listed,
     Images!ListedName, Images!relatedImagesByImageRef, Images!relatedImagesByName
<1>3. CASE UNCHANGED Images!vars
  <2>1. UNCHANGED <<at, relatedImages, seen, env, final, imagePc>>
    BY <1>3 DEF Images!vars
  <2>2. ImagesTyped' BY <2>1 DEF ImagesInv, ImagesTyped
  <2> DEFINE list == [k \in {j \in DOMAIN relatedImages : Images!Listed(relatedImages[j])} |->
                  [name |-> Images!ListedName(relatedImages[k]), image |-> relatedImages[k].image]]
  <2>3. list' = list
    BY <2>1 DEF Images!Listed, Images!ListedName, Images!relatedImagesByImageRef,
       Images!relatedImagesByName
  <2>4. imagePc = "done" => final = list BY DEF ImagesInv
  <2>5. imagePc' = "done" => final' = list' BY <2>1, <2>3, <2>4
  <2> QED BY <2>1, <2>2, <2>5 DEF ImagesInv
<1> QED BY <1>1, <1>2, <1>3, VariableCollected, ContainersWalked DEF Images!Next

\* An image is listed at its first place and at no other.
LEMMA ListedFirst ==
  ASSUME ImagesInv, NEW k \in DOMAIN relatedImages
  PROVE  LET f == Images!First(Images!relatedImagesByImageRef(relatedImages[k].image)) IN
         /\ f \in DOMAIN relatedImages
         /\ relatedImages[f].image = relatedImages[k].image
         /\ Images!Listed(relatedImages[f])
         /\ Images!Listed(relatedImages[k]) => k = f
<1> DEFINE B == Images!relatedImagesByImageRef(relatedImages[k].image)
           f == Images!First(B)
<1>1. k \in B BY DEF Images!relatedImagesByImageRef
<1>2. B \subseteq Nat
  <2>1. relatedImages \in Seq(Collected) BY DEF ImagesInv, ImagesTyped
  <2> QED BY <2>1 DEF Images!relatedImagesByImageRef
<1>3. f \in B
  <2> HIDE DEF B
  <2>1. \E v \in B : \A w \in B : v <= w BY <1>1, <1>2, LeastPosition
  <2> QED BY <2>1 DEF Images!First
<1>4. f \in DOMAIN relatedImages /\ relatedImages[f].image = relatedImages[k].image
  BY <1>3 DEF Images!relatedImagesByImageRef
<1>5. Images!Listed(relatedImages[f])
  BY <1>4 DEF Images!Listed
<1>6. Images!Listed(relatedImages[k]) => relatedImages[f].name = relatedImages[k].name
  BY DEF Images!Listed
<1> HIDE DEF f
<1>7. Images!Listed(relatedImages[k]) => k = f
  BY <1>4, <1>6 DEF ImagesInv
<1> QED BY <1>4, <1>5, <1>7 DEF f

LEMMA CountedAlike == \A S : Images!Cardinality(S) = Cardinality(S)
BY DEF Images!Cardinality, Cardinality

\* The names of an image are as many as the places where it was collected.
LEMMA NamesCounted ==
  ASSUME ImagesInv, NEW img
  PROVE  Cardinality({relatedImages[k].name : k \in Images!relatedImagesByImageRef(img)})
           = Cardinality(Images!relatedImagesByImageRef(img))
<1> DEFINE B == Images!relatedImagesByImageRef(img)
           N == {relatedImages[k].name : k \in B}
           f == [k \in B |-> relatedImages[k].name]
<1>1. IsFiniteSet(B)
  <2>1. relatedImages \in Seq(Collected) BY DEF ImagesInv, ImagesTyped
  <2>2. B \subseteq 1 .. Len(relatedImages) /\ Len(relatedImages) \in Nat
    BY <2>1 DEF Images!relatedImagesByImageRef
  <2>3. IsFiniteSet(1 .. Len(relatedImages)) BY <2>2, FS_Interval
  <2> QED BY <2>2, <2>3, FS_Subset
<1>2. f \in Surjection(B, N) BY DEF Surjection
<1>3. f \in Injection(B, N)
  <2>1. \A k, j \in B : relatedImages[k].name = relatedImages[j].name => k = j
    BY DEF ImagesInv, Images!relatedImagesByImageRef
  <2> HIDE DEF B
  <2> QED BY <2>1 DEF Injection, IsInjective
<1> HIDE DEF f, N, B
<1>4. Cardinality(N) = Cardinality(B) BY <1>1, <1>2, <1>3, FS_Surjection
<1> QED BY <1>4 DEF N, B

LEMMA ImagesDone ==
  ASSUME ImagesInv, imagePc = "done"
  PROVE  ImagesListedOnce
<1> DEFINE D == DOMAIN relatedImages
           L == {j \in D : Images!Listed(relatedImages[j])}
           F(k) == Images!First(Images!relatedImagesByImageRef(relatedImages[k].image))
<1>1. /\ DOMAIN final = L
      /\ \A k \in L : final[k].name = Images!ListedName(relatedImages[k])
                      /\ final[k].image = relatedImages[k].image
  BY DEF ImagesInv
<1>2. \A k \in D : F(k) \in L /\ relatedImages[F(k)].image = relatedImages[k].image
                   /\ (k \in L => k = F(k))
  BY ListedFirst
<1>3. {final[k].image : k \in DOMAIN final} = {e.image : e \in env}
  <2>1. {e.image : e \in env} = {relatedImages[k].image : k \in D}
    <3>1. env = {[name |-> relatedImages[k].name, image |-> relatedImages[k].image] : k \in D}
      BY DEF ImagesInv
    <3>2. \A e \in env : \E k \in D : e.image = relatedImages[k].image
      BY <3>1
    <3>3. \A k \in D : \E e \in env : e.image = relatedImages[k].image
      <4> TAKE k \in D
      <4> DEFINE e == [name |-> relatedImages[k].name, image |-> relatedImages[k].image]
      <4>1. e \in env BY <3>1
      <4> WITNESS e \in env
      <4> QED OBVIOUS
    <3> QED BY ONLY <3>2, <3>3
  <2> HIDE DEF F
  <2>2. {relatedImages[k].image : k \in D} = {relatedImages[k].image : k \in L}
    BY <1>2
  <2> QED BY <2>1, <2>2, <1>1
<1>4. \A k, j \in DOMAIN final : final[k].image = final[j].image => k = j
  <2> SUFFICES ASSUME NEW k \in L, NEW j \in L, relatedImages[k].image = relatedImages[j].image
      PROVE k = j
    BY <1>1
  <2>1. F(k) = F(j) OBVIOUS
  <2> QED BY <2>1, <1>2
<1>5. ASSUME NEW k \in DOMAIN final
      PROVE LET names == {e.name : e \in {x \in env : x.image = final[k].image}}
            IN  IF Cardinality(names) > 1 THEN final[k].name = <<>>
                ELSE \E n \in names : final[k].name \in {n} \cup {ref \o n : ref \in Images!ContainerRefs}
  <2> DEFINE names == {e.name : e \in {x \in env : x.image = final[k].image}}
             r == relatedImages[k]
  <2>1. k \in D /\ final[k].image = r.image /\ final[k].name = Images!ListedName(r)
    BY <1>1
  <2>2. names = {relatedImages[j].name : j \in Images!relatedImagesByImageRef(r.image)}
    <3> DEFINE X == {x \in env : x.image = r.image}
               B == Images!relatedImagesByImageRef(r.image)
    <3>1. \A x \in X : \E j \in B : x.name = relatedImages[j].name
      BY DEF ImagesInv, Images!relatedImagesByImageRef
    <3>2. \A j \in B : \E x \in X : x.name = relatedImages[j].name
      <4> TAKE j \in B
      <4> DEFINE x == [name |-> relatedImages[j].name, image |-> relatedImages[j].image]
      <4>1. x \in X BY DEF ImagesInv, Images!relatedImagesByImageRef
      <4> WITNESS x \in X
      <4> QED OBVIOUS
    <3>3. {x.name : x \in X} = {relatedImages[j].name : j \in B} BY ONLY <3>1, <3>2
    <3> QED BY <2>1, <3>3
  <2>3. Cardinality(names) = Cardinality(Images!relatedImagesByImageRef(r.image))
    BY <2>2, NamesCounted
  <2>4. r.name \in names
    BY <2>1, <2>2 DEF Images!relatedImagesByImageRef
  <2>5. r.ref \in Images!ContainerRefs
    <3>1. r \in Collected BY <2>1, ElementType DEF ImagesInv, ImagesTyped
    <3> QED BY <3>1 DEF Collected
  <2> HIDE DEF names, r
  <2>6. Cardinality(names) > 1 => final[k].name = <<>>
    BY <2>1, <2>3, CountedAlike DEF Images!ListedName
  <2>7. ~(Cardinality(names) > 1) => final[k].name \in {r.name, r.ref \o r.name}
    BY <2>1, <2>3, CountedAlike DEF Images!ListedName
  <2>8. IF Cardinality(names) > 1 THEN final[k].name = <<>>
        ELSE \E n \in names : final[k].name \in {n} \cup {ref \o n : ref \in Images!ContainerRefs}
    BY <2>4, <2>5, <2>6, <2>7
  <2> QED BY <2>8 DEF names
<1> HIDE DEF D, L, F
<1> QED BY <1>3, <1>4, <1>5, CountedAlike DEF ImagesListedOnce, Images!ImagesListedOnce

\* For all environments, deployments and images whose joined keys are not
\* ambiguous: every image of the environments is in the list of related images
\* once, under a name that was given to it (collect, collectedRelatedImages).
THEOREM RelatedImagesExact ==
  ASSUME ImageInputs PROVE Images!Spec => []ImagesListedOnce
<1>1. Images!Init => ImagesInv BY ImagesStart
<1>2. ImagesInv /\ [Images!Next]_(Images!vars) => ImagesInv' BY ImagesStep
<1>3. ImagesInv => ImagesListedOnce
  BY ImagesDone DEF ImagesListedOnce, Images!ImagesListedOnce
<1> QED BY <1>1, <1>2, <1>3, PTL DEF Images!Spec

-----------------------------------------------------------------------------
(* The spec descriptor test of the scorecard. *)

\* The CR has a spec, and its owned CRD describes all its fields.
Described(cr, crds) ==
  /\ cr.spec.has
  /\ Tests!OwnedOf(cr, crds) # {}
  /\ cr.spec.fields \subseteq Tests!FirstOf(cr, crds).specDesc

\* The results after every CR, as checkCSVDescriptors computes them.
ResultsOf(crs, crds, k, f) ==
  f = [i \in 0 .. k |-> IF i = 0 THEN "pass"
                        ELSE Tests!checkOwnedCSVSpecDescriptors(crs[i], crds, f[i - 1])]

LEMMA ResultsExist ==
  ASSUME NEW crs, NEW crds, NEW k \in Nat
  PROVE  \E f : ResultsOf(crs, crds, k, f)
<1> DEFINE C(i, r) == Tests!checkOwnedCSVSpecDescriptors(crs[i], crds, r)
           S == {j \in Nat : \E f : ResultsOf(crs, crds, j, f)}
<1>1. 0 \in S
  <2> DEFINE f == [i \in 0 .. 0 |-> "pass"]
  <2>1. ResultsOf(crs, crds, 0, f)
    BY DEF ResultsOf
  <2> QED BY <2>1
<1>2. ASSUME NEW j \in Nat, j \in S PROVE j + 1 \in S
  <2>1. PICK g : ResultsOf(crs, crds, j, g)
    BY <1>2
  <2> DEFINE f == [i \in 0 .. j + 1 |-> IF i = j + 1 THEN C(i, g[j]) ELSE g[i]]
  <2>2. ASSUME NEW i \in 0 .. j + 1
        PROVE  f[i] = IF i = 0 THEN "pass" ELSE C(i, f[i - 1])
    <3>1. CASE i = j + 1
      <4>1. i # 0 /\ i - 1 \in 0 .. j + 1 /\ i - 1 # j + 1 /\ i - 1 = j
        BY <3>1
      <4>2. f[i - 1] = g[j]
        BY <4>1
      <4>3. f[i] = C(i, g[j])
        BY <3>1
      <4> QED BY <4>1, <4>2, <4>3
    <3>2. CASE i # j + 1
      <4>1. i \in 0 .. j /\ (i # 0 => i - 1 \in 0 .. j + 1 /\ i - 1 # j + 1)
        BY <3>2
      <4>2. g[i] = IF i = 0 THEN "pass" ELSE C(i, g[i - 1])
        BY <4>1, <2>1 DEF ResultsOf
      <4>3. f[i] = g[i]
        BY <3>2
      <4>4. i # 0 => f[i - 1] = g[i - 1]
        BY <4>1
      <4> QED BY <4>2, <4>3, <4>4
    <3> QED BY <3>1, <3>2
  <2>3. ResultsOf(crs, crds, j + 1, f)
    BY <2>2 DEF ResultsOf
  <2> QED BY <2>3
<1>3. Nat \subseteq S
  <2> HIDE DEF S
  <2> QED BY <1>1, <1>2, SetInduction
<1> QED BY <1>3

\* One CR: a failure is never taken back, and an undescribed field is one.
LEMMA OneChecked ==
  ASSUME NEW cr, NEW crds, NEW r
  PROVE  Tests!checkOwnedCSVSpecDescriptors(cr, crds, r) = "pass"
           <=> (r = "pass" /\ Described(cr, crds))
BY DEF Tests!checkOwnedCSVSpecDescriptors, Described

LEMMA AllChecked ==
  ASSUME NEW crs, NEW crds, NEW n \in Nat, NEW f, ResultsOf(crs, crds, n, f)
  PROVE  \A k \in 0 .. n : f[k] = "pass" <=> \A i \in 1 .. k : Described(crs[i], crds)
<1> DEFINE G(k) == f[k] = "pass" <=> \A i \in 1 .. k : Described(crs[i], crds)
           S == {k \in Nat : k \in 0 .. n => G(k)}
<1>1. 0 \in S
  <2>1. f[0] = "pass"
    BY DEF ResultsOf
  <2>2. 1 .. 0 = {} OBVIOUS
  <2> QED BY <2>1, <2>2
<1>2. ASSUME NEW j \in Nat, j \in S PROVE j + 1 \in S
  <2> SUFFICES ASSUME j + 1 \in 0 .. n PROVE G(j + 1)
    OBVIOUS
  <2>1. j \in 0 .. n /\ j + 1 # 0 /\ (j + 1) - 1 = j
    OBVIOUS
  <2>2. f[j + 1] = Tests!checkOwnedCSVSpecDescriptors(crs[j + 1], crds, f[j])
    BY <2>1 DEF ResultsOf
  <2>3. G(j) BY <1>2, <2>1
  <2>4. f[j + 1] = "pass" <=> (f[j] = "pass" /\ Described(crs[j + 1], crds))
    BY <2>2, OneChecked
  <2>5. 1 .. (j + 1) = (1 .. j) \cup {j + 1} OBVIOUS
  <2> QED BY <2>3, <2>4, <2>5
<1>3. Nat \subseteq S
  <2> HIDE DEF S
  <2> QED BY <1>1, <1>2, SetInduction
<1> QED BY <1>3

LEMMA VerdictOfTest ==
  ASSUME NEW b, NEW S, b.crs \in Seq(S), b.parses
  PROVE  Tests!checkCSVDescriptors(b, FALSE) = "pass"
           <=> \A i \in DOMAIN b.crs : Described(b.crs[i], b.owned)
<1> DEFINE crs == b.crs
           P(f) == ResultsOf(crs, b.owned, Len(crs), f)
           after == CHOOSE f : P(f)
<1>1. Len(crs) \in Nat /\ DOMAIN crs = 1 .. Len(crs) OBVIOUS
<1>2. Tests!checkCSVDescriptors(b, FALSE) = after[Len(crs)]
  BY DEF Tests!checkCSVDescriptors, Tests!Unparsable, Tests!GetCRs, ResultsOf
<1>3. P(after)
  <2>1. \E f : P(f) BY <1>1, ResultsExist
  <2> HIDE DEF P
  <2> QED BY <2>1
<1> HIDE DEF after
<1>4. after[Len(crs)] = "pass" <=> \A i \in 1 .. Len(crs) : Described(crs[i], b.owned)
  <2>1. ResultsOf(crs, b.owned, Len(crs), after) BY <1>3
  <2>2. \A k \in 0 .. Len(crs) :
          after[k] = "pass" <=> \A i \in 1 .. k : Described(crs[i], b.owned)
    BY <1>1, <2>1, AllChecked
  <2>3. Len(crs) \in 0 .. Len(crs) BY <1>1
  <2> QED BY <2>2, <2>3
<1> QED BY <1>1, <1>2, <1>4

TestsInv ==
  test = "spec" =>
    /\ \E i \in TestInputs : bundle = i.bundle
    /\ (result # "none" /\ bundle.loads) =>
         result = Tests!checkCSVDescriptors(bundle, FALSE)

\* For all bundles: the spec descriptor test passes exactly when every CR has a
\* spec that its owned CRD describes, whatever failures and repairs the loop over
\* the CRs goes through (checkCSVDescriptors, checkOwnedCSVSpecDescriptors).
THEOREM DescriptorVerdict ==
  ASSUME BundleInputs PROVE Tests!Spec => []SpecDescriptorsExact
<1>1. Tests!Init => TestsInv
  BY DEF Tests!Init, TestsInv
<1>2. TestsInv /\ [Tests!Next]_(Tests!vars) => TestsInv'
  <2> SUFFICES ASSUME TestsInv, [Tests!Next]_(Tests!vars) PROVE TestsInv'
    OBVIOUS
  <2>1. CASE Tests!RunTest
    <3>1. /\ test' = test /\ bundle' = bundle
          /\ test = "spec" /\ bundle.loads => result' = Tests!checkCSVDescriptors(bundle, FALSE)
      BY <2>1 DEF Tests!RunTest
    <3> QED BY <3>1 DEF TestsInv
  <2>2. CASE Tests!CallKuttl BY <2>2 DEF TestsInv, Tests!CallKuttl
  <2>3. CASE Tests!ConvertKuttl BY <2>3 DEF TestsInv, Tests!ConvertKuttl
  <2>4. CASE UNCHANGED Tests!vars BY <2>4 DEF TestsInv, Tests!vars
  <2> QED BY <2>1, <2>2, <2>3, <2>4 DEF Tests!Next
<1>3. TestsInv => SpecDescriptorsExact
  <2> SUFFICES ASSUME TestsInv, test = "spec", result # "none", bundle.loads, bundle.parses
      PROVE (result = "pass") = Tests!SpecDescribed
    BY DEF SpecDescriptorsExact, Tests!SpecDescriptorsExact
  <2>1. PICK S : bundle.crs \in Seq(S) BY DEF TestsInv, BundleInputs, Sequence
  <2>2. result = "pass" <=> \A i \in DOMAIN bundle.crs : Described(bundle.crs[i], bundle.owned)
    BY <2>1, VerdictOfTest DEF TestsInv
  <2>3. Tests!SpecDescribed <=> \A i \in DOMAIN bundle.crs : Described(bundle.crs[i], bundle.owned)
    BY DEF Tests!SpecDescribed, Described
  <2>4. Tests!SpecDescribed \in BOOLEAN BY DEF Tests!SpecDescribed
  <2> QED BY <2>2, <2>3, <2>4
<1> QED BY <1>1, <1>2, <1>3, PTL DEF Tests!Spec

-----------------------------------------------------------------------------
(* The examples of a CSV. *)

ListKind(l) == IF l = "CustomResource" THEN "Other" ELSE l
Served(c) == Collector!GVKsFor(c["V1CRD"]) \cup Collector!GVKsFor(c["V1beta1CRD"])
Others(s) == {o \in Collector!Elements(s) : o.kind = "Other"}

\* The lists hold objects of their kinds, at positions that are numbers.
ListsTyped ==
  /\ DOMAIN col = Collector!Lists /\ col = [l \in Collector!Lists |-> col[l]]
  /\ \A l \in Collector!Lists :
       /\ DOMAIN col[l] \subseteq Nat
       /\ \A i \in DOMAIN col[l] : col[l][i] \in Objects(in) /\ col[l][i].kind = ListKind(l)
  /\ colPc = "read" => \A l \in Collector!Lists : col[l] \in Seq(Objects(in))

CollectorInv ==
  /\ in \in Collections /\ left \in Seq(Collector!Elements(in.stream))
  /\ ListsTyped
  /\ colPc \in {"filter", "dedup", "done"} => left = <<>>
  /\ Collector!Elements(col["Other"]) \cup Others(left) = Others(in.stream)
  /\ colPc \in {"dedup", "done"} =>
       Collector!Elements(col["CustomResource"]) =
         {o \in Collector!Elements(col["Other"]) : o.gvk \in Served(col)}

LEMMA SequenceOfElements ==
  ASSUME NEW S, NEW s \in Seq(S)
  PROVE  s \in Seq(Collector!Elements(s))
BY DEF Collector!Elements

LEMMA ListNames ==
  /\ {"Other", "CustomResource", "V1CRD", "V1beta1CRD", "ValidatingWebhook", "MutatingWebhook",
      "Role", "ClusterRole", "Deployment"} \subseteq Collector!Lists
  /\ Collector!Unvisited \subseteq Collector!Lists
  /\ "Other" \notin Collector!Unvisited /\ "CustomResource" \notin Collector!Unvisited
<1>1. /\ Collector!Visited = <<"Role", "ClusterRole", "Deployment", "V1CRD", "V1beta1CRD",
                               "ValidatingWebhook", "MutatingWebhook">>
      /\ DOMAIN Collector!Visited = 1 .. 7
  BY DEF Collector!Visited
<1>2. {"Role", "ClusterRole", "Deployment", "V1CRD", "V1beta1CRD",
       "ValidatingWebhook", "MutatingWebhook"} \subseteq Collector!Elements(Collector!Visited)
  <2>1. /\ Collector!Visited[1] = "Role" /\ Collector!Visited[2] = "ClusterRole"
        /\ Collector!Visited[3] = "Deployment" /\ Collector!Visited[4] = "V1CRD"
        /\ Collector!Visited[5] = "V1beta1CRD" /\ Collector!Visited[6] = "ValidatingWebhook"
        /\ Collector!Visited[7] = "MutatingWebhook"
    BY <1>1
  <2> QED BY <1>1, <2>1 DEF Collector!Elements
<1> QED BY <1>2 DEF Collector!Lists, Collector!Unvisited

LEMMA CollectorStart ==
  ASSUME CollectorInputs, Collector!Init
  PROVE  CollectorInv
<1>1. /\ in \in Collections /\ left = in.stream /\ col = [k \in Collector!Lists |-> <<>>]
      /\ colPc = "read"
  BY DEF Collector!Init
<1>2. PICK S : in.stream \in Seq(S) BY <1>1 DEF CollectorInputs, Sequence
<1>3. left \in Seq(Collector!Elements(in.stream)) BY <1>1, <1>2, SequenceOfElements
<1>4. <<>> \in Seq(Objects(in)) /\ DOMAIN <<>> = {} OBVIOUS
<1>5. ListsTyped BY <1>1, <1>4 DEF ListsTyped
<1>6. Collector!Elements(col["Other"]) = {} BY <1>1, ListNames DEF Collector!Elements
<1> QED BY <1>1, <1>3, <1>5, <1>6 DEF CollectorInv

\* The head of what is left, and the rest.
LEMMA NextDocument ==
  ASSUME CollectorInv, left # <<>>
  PROVE  /\ Head(left) \in Collector!Elements(in.stream)
         /\ Head(left).kind \notin WebhookKinds => Head(left) \in Objects(in)
         /\ Tail(left) \in Seq(Collector!Elements(in.stream))
         /\ Others(left) = Others(Tail(left)) \cup (IF Head(left).kind = "Other" THEN {Head(left)} ELSE {})
<1>1. left \in Seq(Collector!Elements(in.stream)) BY DEF CollectorInv
<1>2. Head(left) \in Collector!Elements(in.stream) /\ Tail(left) \in Seq(Collector!Elements(in.stream))
  BY <1>1
<1>3. Collector!Elements(left) = Collector!Elements(Tail(left)) \cup {Head(left)}
  <2>1. \A i \in DOMAIN left : left[i] \in Collector!Elements(Tail(left)) \cup {Head(left)}
    <3> TAKE i \in DOMAIN left
    <3>1. CASE i = 1 BY <3>1
    <3>2. CASE i # 1
      <4>1. i - 1 \in DOMAIN Tail(left) /\ Tail(left)[i - 1] = left[i] BY <1>1, <3>2
      <4> QED BY <4>1 DEF Collector!Elements
    <3> QED BY <3>1, <3>2
  <2>2. \A i \in DOMAIN Tail(left) : i + 1 \in DOMAIN left /\ Tail(left)[i] = left[i + 1]
    BY <1>1
  <2>3. 1 \in DOMAIN left /\ Head(left) = left[1] BY <1>1
  <2> QED BY <2>1, <2>2, <2>3 DEF Collector!Elements
<1>4. Head(left).kind \notin WebhookKinds => Head(left) \in Objects(in) BY <1>2 DEF Objects
<1> QED BY <1>2, <1>3, <1>4 DEF Others

\* A document goes to the end of the list of its kind.
LEMMA DocumentTaken ==
  ASSUME CollectorInputs, CollectorInv, Collector!Read,
         NEW list \in Collector!Lists, list # "CustomResource",
         NEW objs \in Seq(Objects(in)), \A i \in DOMAIN objs : objs[i].kind = list,
         list = "Other" => objs = <<Head(left)>>,
         (list = "Other") <=> (Head(left).kind = "Other"),
         Collector!Take(list, objs)
  PROVE  CollectorInv'
<1>1. colPc = "read" /\ left # <<>> BY DEF Collector!Read
<1>2. /\ left' = Tail(left) /\ col' = [col EXCEPT ![list] = @ \o objs]
      /\ in' = in /\ colPc' = "read"
  BY <1>1 DEF Collector!Take
<1>3. col[list] \in Seq(Objects(in)) BY <1>1 DEF CollectorInv, ListsTyped
<1> DEFINE q == col[list] \o objs
<1>4. /\ q \in Seq(Objects(in))
      /\ \A i \in DOMAIN q : q[i] \in Collector!Elements(col[list]) \cup Collector!Elements(objs)
      /\ Collector!Elements(q) = Collector!Elements(col[list]) \cup Collector!Elements(objs)
  <2>1. q \in Seq(Objects(in)) /\ Len(q) = Len(col[list]) + Len(objs) BY <1>3
  <2>2. \A i \in DOMAIN q : IF i <= Len(col[list]) THEN i \in DOMAIN col[list] /\ q[i] = col[list][i]
                            ELSE i - Len(col[list]) \in DOMAIN objs /\ q[i] = objs[i - Len(col[list])]
    BY <1>3, <2>1
  <2>3. \A i \in DOMAIN col[list] : i \in DOMAIN q /\ q[i] = col[list][i] BY <1>3, <2>1
  <2>4. \A i \in DOMAIN objs : Len(col[list]) + i \in DOMAIN q /\ q[Len(col[list]) + i] = objs[i]
    BY <1>3, <2>1
  <2> HIDE DEF q
  <2> QED BY <2>1, <2>2, <2>3, <2>4 DEF Collector!Elements
<1>5. \A i \in DOMAIN q : q[i] \in Objects(in) /\ q[i].kind = list
  <2>1. \A i \in DOMAIN col[list] : col[list][i].kind = list
    BY DEF CollectorInv, ListsTyped, ListKind
  <2> HIDE DEF q
  <2>2. \A i \in DOMAIN q : q[i] \in Objects(in) BY <1>4, ElementType
  <2> QED BY <2>1, <2>2, <1>4 DEF Collector!Elements
<1>6. /\ DOMAIN col' = Collector!Lists /\ col'[list] = q
      /\ \A l \in Collector!Lists : l # list => col'[l] = col[l]
      /\ col' = [l \in Collector!Lists |-> col'[l]]
  BY <1>2 DEF CollectorInv, ListsTyped
<1>7. DOMAIN q \subseteq Nat
  <2> HIDE DEF q
  <2> QED BY <1>4
<1> HIDE DEF q
<1>8. ListsTyped'
  <2>1. \A l \in Collector!Lists :
          /\ DOMAIN col'[l] \subseteq Nat
          /\ \A i \in DOMAIN col'[l] : col'[l][i] \in Objects(in) /\ col'[l][i].kind = ListKind(l)
    BY <1>5, <1>6, <1>7 DEF CollectorInv, ListsTyped, ListKind
  <2>2. \A l \in Collector!Lists : col'[l] \in Seq(Objects(in))
    BY <1>1, <1>4, <1>6 DEF CollectorInv, ListsTyped
  <2> QED BY <2>1, <2>2, <1>2, <1>6 DEF ListsTyped
<1>9. (Collector!Elements(col["Other"]) \cup Others(left) = Others(in.stream))'
  <2>1. /\ Collector!Elements(col["Other"]) \cup Others(left) = Others(in.stream)
        /\ "Other" \in Collector!Lists
    BY ListNames DEF CollectorInv
  <2>2. Others(left) = Others(Tail(left)) \cup (IF Head(left).kind = "Other" THEN {Head(left)} ELSE {})
    BY <1>1, NextDocument
  <2>3. CASE list = "Other"
    <3>1. Collector!Elements(objs) = {Head(left)}
      <4>1. objs = <<Head(left)>> BY <2>3
      <4>2. DOMAIN <<Head(left)>> = {1} /\ <<Head(left)>>[1] = Head(left) OBVIOUS
      <4> QED BY <4>1, <4>2 DEF Collector!Elements
    <3>2. Collector!Elements(col'["Other"]) = Collector!Elements(col["Other"]) \cup {Head(left)}
      BY <2>3, <3>1, <1>4, <1>6
    <3>3. Collector!Elements(col'["Other"]) \cup Others(Tail(left)) = Others(in.stream)
      BY <3>2, <2>1, <2>2, <2>3
    <3> QED BY <3>3, <1>2 DEF Others, Collector!Elements
  <2>4. CASE list # "Other"
    <3>1. col'["Other"] = col["Other"] BY <2>4, <2>1, <1>6
    <3>2. Collector!Elements(col'["Other"]) \cup Others(Tail(left)) = Others(in.stream)
      BY <3>1, <2>1, <2>2, <2>4
    <3> QED BY <3>2, <1>2 DEF Others, Collector!Elements
  <2> QED BY <2>3, <2>4
<1>10. left' \in Seq(Collector!Elements(in.stream)) BY <1>1, <1>2, NextDocument
<1> QED BY <1>2, <1>8, <1>9, <1>10 DEF CollectorInv

\* A document that is not a custom resource may be left out.
LEMMA DocumentSkipped ==
  ASSUME CollectorInv, left # <<>>, Head(left).kind # "Other", left' = Tail(left),
         UNCHANGED <<in, col>>, colPc = "read", colPc' = "read"
  PROVE  CollectorInv'
<1>1. Others(left') = Others(left) BY NextDocument
<1>2. ListsTyped' BY DEF CollectorInv, ListsTyped
<1>3. left' \in Seq(Collector!Elements(in.stream)) BY NextDocument
<1> QED BY <1>1, <1>2, <1>3 DEF CollectorInv, Others, Collector!Elements

LEMMA CollectionFailed ==
  ASSUME CollectorInv, UNCHANGED <<in, col, left>>, colPc' = "failed"
  PROVE  CollectorInv'
<1>1. ListsTyped' BY DEF CollectorInv, ListsTyped
<1> QED BY <1>1 DEF CollectorInv, Others, Collector!Elements

LEMMA DocumentRead ==
  ASSUME CollectorInputs, CollectorInv,
         \/ Collector!SkipManifest \/ Collector!RejectManifest \/ Collector!AddObject
         \/ Collector!addCustomResourceDefinitions \/ Collector!addWebhookConfigurations
         \/ Collector!addScorecardConfig \/ Collector!addOthers
  PROVE  CollectorInv'
<1> DEFINE h == Head(left)
<1>1. CASE Collector!SkipManifest
  BY <1>1, DocumentSkipped DEF Collector!SkipManifest, Collector!Read
<1>2. CASE Collector!RejectManifest
  BY <1>2, CollectionFailed DEF Collector!RejectManifest
<1>3. CASE Collector!addScorecardConfig
  BY <1>3, DocumentSkipped, CollectionFailed DEF Collector!addScorecardConfig, Collector!Read
<1>4. ASSUME Collector!Read, h.kind \in Collector!Lists, h.kind # "CustomResource",
             h.kind \notin WebhookKinds,
             Collector!Take(h.kind, <<h>>)
      PROVE  CollectorInv'
  <2>1. h \in Objects(in) BY <1>4, NextDocument DEF Collector!Read
  <2>2. <<h>> \in Seq(Objects(in)) /\ \A i \in DOMAIN <<h>> : <<h>>[i].kind = h.kind
    <3> HIDE DEF h
    <3> QED BY <2>1
  <2> HIDE DEF h
  <2>3. (h.kind = "Other") <=> (Head(left).kind = "Other") BY DEF h
  <2>4. h.kind = "Other" => <<h>> = <<Head(left)>> BY DEF h
  <2> QED BY <1>4, <2>2, <2>3, <2>4, DocumentTaken
<1>5. CASE Collector!AddObject
  <2>1. h.kind \in Collector!Lists /\ h.kind # "CustomResource" /\ h.kind \notin WebhookKinds
    BY <1>5, ListNames DEF Collector!AddObject, Collector!Unvisited, WebhookKinds
  <2> QED BY <2>1, <1>4, <1>5 DEF Collector!AddObject
<1>6. CASE Collector!addCustomResourceDefinitions
  <2>1. h.kind \in Collector!Lists /\ h.kind # "CustomResource" /\ h.kind \notin WebhookKinds
    BY <1>6, ListNames DEF Collector!addCustomResourceDefinitions, WebhookKinds
  <2> QED BY <2>1, <1>4, <1>6 DEF Collector!addCustomResourceDefinitions
<1>7. CASE Collector!addOthers
  <2>1. h.kind = "Other" /\ h.kind \in Collector!Lists /\ h.kind # "CustomResource"
        /\ h.kind \notin WebhookKinds
    BY <1>7, ListNames DEF Collector!addOthers, WebhookKinds
  <2>2. Collector!Read /\ Collector!Take(h.kind, <<h>>)
    BY <1>7, <2>1 DEF Collector!addOthers
  <2> QED BY <2>1, <2>2, <1>4
<1>8. CASE Collector!addWebhookConfigurations
  <2>1. /\ Collector!Read /\ left # <<>> /\ h.kind \in WebhookKinds /\ Collector!Take(h.kind, h.webhooks)
    BY <1>8 DEF Collector!addWebhookConfigurations, WebhookKinds, Collector!Read
  <2>2. h.kind \in Collector!Lists /\ h.kind # "CustomResource" /\ h.kind # "Other"
    BY <2>1, ListNames DEF WebhookKinds
  <2>3. h \in Collector!Elements(in.stream) BY <2>1, NextDocument
  <2>4. in \in Collections BY DEF CollectorInv
  <2>5. /\ \E S : h.webhooks \in Seq(S)
        /\ \A w \in Collector!Elements(h.webhooks) : w.kind = h.kind
    BY <2>1, <2>3, <2>4 DEF CollectorInputs, Sequence
  <2> HIDE DEF h
  <2>6. h.webhooks \in Seq(Collector!Elements(h.webhooks)) BY <2>5, SequenceOfElements
  <2>7. Collector!Elements(h.webhooks) \subseteq Objects(in)
    BY <2>1, <2>3 DEF Objects
  <2>8. h.webhooks \in Seq(Objects(in)) BY <2>6, <2>7
  <2>9. \A i \in DOMAIN h.webhooks : h.webhooks[i].kind = h.kind
    BY <2>5 DEF Collector!Elements
  <2>10. (h.kind = "Other") <=> (Head(left).kind = "Other") BY DEF h
  <2> QED BY <2>1, <2>2, <2>8, <2>9, <2>10, DocumentTaken
<1> QED BY <1>1, <1>2, <1>3, <1>5, <1>6, <1>7, <1>8

LEMMA DefinitionsRead ==
  ASSUME CollectorInputs, CollectorInv, Collector!GetCustomResourceDefinitions
  PROVE  CollectorInv'
<1>1. /\ colPc = "read" /\ left = <<>> /\ left' = left /\ in' = in
  BY DEF Collector!GetCustomResourceDefinitions
<1>2. CASE col' = col /\ colPc' = "failed" BY <1>1, <1>2, CollectionFailed
<1>3. CASE col' = col /\ colPc' = "filter"
  <2>1. ListsTyped' BY <1>1, <1>3 DEF CollectorInv, ListsTyped
  <2> QED BY <2>1, <1>1, <1>3 DEF CollectorInv, Others, Collector!Elements
<1>4. CASE /\ col' = [col EXCEPT !["V1CRD"] = Collector!OfKind(in.crdsDir, "V1CRD"),
                                 !["V1beta1CRD"] = Collector!OfKind(in.crdsDir, "V1beta1CRD")]
           /\ colPc' = "filter"
  <2>1. /\ DOMAIN col' = Collector!Lists /\ col' = [l \in Collector!Lists |-> col'[l]]
        /\ col'["V1CRD"] = Collector!OfKind(in.crdsDir, "V1CRD")
        /\ col'["V1beta1CRD"] = Collector!OfKind(in.crdsDir, "V1beta1CRD")
        /\ \A l \in Collector!Lists : l \notin CRDKinds => col'[l] = col[l]
    BY <1>4, ListNames DEF CollectorInv, ListsTyped, CRDKinds
  <2>2. \A l \in CRDKinds :
          /\ DOMAIN Collector!OfKind(in.crdsDir, l) \subseteq Nat
          /\ \A i \in DOMAIN Collector!OfKind(in.crdsDir, l) :
               /\ Collector!OfKind(in.crdsDir, l)[i] \in Objects(in)
               /\ Collector!OfKind(in.crdsDir, l)[i].kind = l
    <3>1. PICK S : in.crdsDir \in Seq(S) BY DEF CollectorInv, CollectorInputs, Sequence
    <3>2. DOMAIN in.crdsDir \subseteq Nat BY <3>1
    <3>3. \A i \in DOMAIN in.crdsDir : in.crdsDir[i] \in Objects(in)
      BY DEF Objects, Collector!Elements
    <3> QED BY <3>2, <3>3 DEF Collector!OfKind, Collector!At
  <2>3. \A l \in Collector!Lists :
          /\ DOMAIN col'[l] \subseteq Nat
          /\ \A i \in DOMAIN col'[l] : col'[l][i] \in Objects(in) /\ col'[l][i].kind = ListKind(l)
    BY <2>1, <2>2 DEF CollectorInv, ListsTyped, ListKind, CRDKinds
  <2>4. ListsTyped' BY <2>1, <2>3, <1>1, <1>4 DEF ListsTyped
  <2>5. col'["Other"] = col["Other"] BY <2>1, ListNames DEF CRDKinds
  <2> QED BY <2>4, <2>5, <1>1, <1>4 DEF CollectorInv, Others, Collector!Elements
<1> QED BY <1>2, <1>3, <1>4 DEF Collector!GetCustomResourceDefinitions

LEMMA ResourcesFiltered ==
  ASSUME CollectorInputs, CollectorInv, Collector!filterCustomResources
  PROVE  CollectorInv'
<1> DEFINE o == col["Other"]
           crs == Collector!At(o, {i \in DOMAIN o : o[i].gvk \in Served(col)})
<1>1. /\ colPc = "filter" /\ colPc' = "dedup" /\ left' = left /\ in' = in
      /\ col' = [col EXCEPT !["CustomResource"] = crs]
  BY DEF Collector!filterCustomResources, Served
<1>2. /\ DOMAIN crs \subseteq DOMAIN o
      /\ \A i \in DOMAIN crs : crs[i] = o[i]
      /\ Collector!Elements(crs) = {x \in Collector!Elements(o) : x.gvk \in Served(col)}
  BY DEF Collector!At, Collector!Elements
<1>3. "Other" \in Collector!Lists /\ "CustomResource" \in Collector!Lists
      /\ "V1CRD" \in Collector!Lists /\ "V1beta1CRD" \in Collector!Lists
  BY ListNames
<1> HIDE DEF crs
<1>4. /\ DOMAIN col' = Collector!Lists /\ col' = [l \in Collector!Lists |-> col'[l]]
      /\ col'["CustomResource"] = crs
      /\ \A l \in Collector!Lists : l # "CustomResource" => col'[l] = col[l]
  BY <1>1, <1>3 DEF CollectorInv, ListsTyped
<1>5. \A l \in Collector!Lists :
        /\ DOMAIN col'[l] \subseteq Nat
        /\ \A i \in DOMAIN col'[l] : col'[l][i] \in Objects(in) /\ col'[l][i].kind = ListKind(l)
  BY <1>2, <1>3, <1>4 DEF CollectorInv, ListsTyped, ListKind
<1>6. ListsTyped' BY <1>1, <1>4, <1>5 DEF ListsTyped
<1>7. col'["Other"] = o /\ Served(col') = Served(col)
  BY <1>3, <1>4 DEF Served
<1>8. Collector!Elements(col'["CustomResource"]) =
        {x \in Collector!Elements(col'["Other"]) : x.gvk \in Served(col')}
  BY <1>2, <1>4, <1>7
<1> QED BY <1>1, <1>6, <1>7, <1>8 DEF CollectorInv, Others, Collector!Elements, Served,
        Collector!GVKsFor

-----------------------------------------------------------------------------
(* Removing duplicates changes neither the custom resources nor the served  *)
(* APIs.                                                                    *)

LEMMA LoopsInOrder ==
  /\ DOMAIN Collector!Loops = 1 .. 8
  /\ Collector!Loops[1] = "Role" /\ Collector!Loops[2] = "ClusterRole"
  /\ Collector!Loops[3] = "Deployment" /\ Collector!Loops[4] = "V1CRD"
  /\ Collector!Loops[5] = "V1beta1CRD" /\ Collector!Loops[6] = "ValidatingWebhook"
  /\ Collector!Loops[7] = "MutatingWebhook" /\ Collector!Loops[8] = "CustomResource"
BY DEF Collector!Loops, Collector!Visited

LEMMA LoopsApart ==
  /\ \A l \in 1 .. 8 : Collector!Loops[l] \in Collector!Lists
  /\ \A k, l \in 1 .. 8 : Collector!Loops[k] = Collector!Loops[l] => k = l
  /\ \A l \in 1 .. 8 : Collector!Loops[l] \in CRDKinds => l \in {4, 5}
  /\ \A l \in 1 .. 8 : ListKind(Collector!Loops[l]) = "Other" => l = 8
  /\ \A l \in 1 .. 8 : ListKind(Collector!Loops[l]) \in CRDKinds => l \in {4, 5}
<1>1. 1 .. 8 = {1, 2, 3, 4, 5, 6, 7, 8} OBVIOUS
<1> QED BY <1>1, LoopsInOrder, ListNames DEF CRDKinds, ListKind

\* Of the objects with one hash, the first that the loops meet stays.
LEMMA FirstStays ==
  ASSUME ListsTyped, NEW l \in 1 .. 8, NEW i \in DOMAIN col[Collector!Loops[l]]
  PROVE  \E k \in 1 .. 8 : \E j \in DOMAIN col[Collector!Loops[k]] :
           /\ ~Collector!Hashed(k, j)
           /\ Collector!Marshal(col[Collector!Loops[k]][j]) = Collector!Marshal(col[Collector!Loops[l]][i])
<1> DEFINE h == Collector!Marshal(col[Collector!Loops[l]][i])
           J(k) == {j \in DOMAIN col[Collector!Loops[k]] : Collector!Marshal(col[Collector!Loops[k]][j]) = h}
           K == {k \in 1 .. 8 : J(k) # {}}
<1>1. l \in K OBVIOUS
<1>2. PICK k \in K : \A p \in K : k <= p
  <2>1. K \subseteq Nat OBVIOUS
  <2> HIDE DEF K
  <2> QED BY <1>1, <2>1, LeastPosition
<1>3. k \in 1 .. 8 /\ J(k) # {} OBVIOUS
<1>4. PICK j \in J(k) : \A q \in J(k) : j <= q
  <2>1. J(k) \subseteq Nat BY <1>3, LoopsApart DEF ListsTyped
  <2> HIDE DEF J
  <2> QED BY <1>3, <2>1, LeastPosition
<1>5. ~Collector!Hashed(k, j)
  <2> SUFFICES ASSUME NEW p \in 1 .. k, NEW q \in DOMAIN col[Collector!Loops[p]],
                      p < k \/ q < j,
                      Collector!Marshal(col[Collector!Loops[p]][q]) = Collector!Marshal(col[Collector!Loops[k]][j])
      PROVE FALSE
    BY DEF Collector!Hashed
  <2>1. p \in 1 .. 8 /\ q \in J(p) BY <1>3, <1>4
  <2>2. p \in K BY <2>1
  <2>3. p = k BY <2>2, <1>2, <1>3
  <2>4. q \in J(k) BY <2>1, <2>3
  <2>5. j \in Nat /\ q \in Nat BY <1>3, <1>4, <2>4, LoopsApart DEF ListsTyped
  <2>6. j <= q BY <2>4, <1>4
  <2> QED BY <2>3, <2>5, <2>6, <1>3
<1> QED BY <1>3, <1>4, <1>5

LEMMA DeduplicatedLists ==
  ASSUME Collector!deduplicate
  PROVE  /\ \A l \in 1 .. 8 : col'[Collector!Loops[l]] = Collector!Deduplicated(l)
         /\ \A n \in Collector!Lists :
              col'[n] = col[n] \/ \E l \in 1 .. 8 : n = Collector!Loops[l]
         /\ col'["Other"] = col["Other"]
         /\ DOMAIN col' = Collector!Lists /\ col' = [n \in Collector!Lists |-> col'[n]]
<1>1. col' = [n \in Collector!Lists |->
               IF \E l \in DOMAIN Collector!Loops : Collector!Loops[l] = n
                 THEN Collector!Deduplicated(CHOOSE l \in DOMAIN Collector!Loops : Collector!Loops[l] = n)
                 ELSE col[n]]
  BY DEF Collector!deduplicate
<1>2. DOMAIN Collector!Loops = 1 .. 8 BY LoopsInOrder
<1>3. ASSUME NEW l \in 1 .. 8 PROVE col'[Collector!Loops[l]] = Collector!Deduplicated(l)
  <2>1. Collector!Loops[l] \in Collector!Lists BY LoopsApart
  <2>2. (CHOOSE k \in 1 .. 8 : Collector!Loops[k] = Collector!Loops[l]) = l BY LoopsApart
  <2> QED BY <1>1, <1>2, <2>1, <2>2
<1>4. \A n \in Collector!Lists : col'[n] = col[n] \/ \E l \in 1 .. 8 : n = Collector!Loops[l]
  BY <1>1, <1>2
<1>5. \A l \in 1 .. 8 : Collector!Loops[l] # "Other"
  <2>1. 1 .. 8 = {1, 2, 3, 4, 5, 6, 7, 8} OBVIOUS
  <2> QED BY <2>1, LoopsInOrder
<1> QED BY <1>1, <1>3, <1>4, <1>5, ListNames

LEMMA DuplicatesRemoved ==
  ASSUME CollectorInputs, CollectorInv, Collector!deduplicate
  PROVE  CollectorInv'
<1>1. /\ colPc = "dedup" /\ colPc' = "done" /\ left' = left /\ in' = in
  BY DEF Collector!deduplicate
<1>2. \A l \in 1 .. 8 :
        /\ DOMAIN col'[Collector!Loops[l]] = {i \in DOMAIN col[Collector!Loops[l]] : ~Collector!Hashed(l, i)}
        /\ \A i \in DOMAIN col'[Collector!Loops[l]] :
             col'[Collector!Loops[l]][i] = col[Collector!Loops[l]][i]
  BY DeduplicatedLists DEF Collector!Deduplicated, Collector!At
<1>3. \A l \in 1 .. 8 : \A i \in DOMAIN col[Collector!Loops[l]] :
        /\ col[Collector!Loops[l]][i] \in Objects(in)
        /\ col[Collector!Loops[l]][i].kind = ListKind(Collector!Loops[l])
  BY LoopsApart DEF CollectorInv, ListsTyped
<1>4. \A n \in Collector!Lists :
        /\ DOMAIN col'[n] \subseteq DOMAIN col[n]
        /\ \A i \in DOMAIN col'[n] : col'[n][i] = col[n][i]
  BY <1>2, DeduplicatedLists
<1>5. ListsTyped'
  <2>1. \A n \in Collector!Lists :
          /\ DOMAIN col'[n] \subseteq Nat
          /\ \A i \in DOMAIN col'[n] : col'[n][i] \in Objects(in) /\ col'[n][i].kind = ListKind(n)
    BY <1>4 DEF CollectorInv, ListsTyped
  <2> QED BY <2>1, <1>1, DeduplicatedLists DEF ListsTyped
<1>6. in \in Collections /\ ListsTyped BY DEF CollectorInv
<1>7. Collector!Elements(col'["CustomResource"]) = Collector!Elements(col["CustomResource"])
  <2>1. Collector!Loops[8] = "CustomResource" /\ "CustomResource" \in Collector!Lists
    BY LoopsInOrder, ListNames
  <2>2. ASSUME NEW i \in DOMAIN col["CustomResource"]
        PROVE  \E j \in DOMAIN col'["CustomResource"] : col'["CustomResource"][j] = col["CustomResource"][i]
    <3> DEFINE a == col["CustomResource"][i]
    <3>0b. PICK k \in 1 .. 8 : \E j \in DOMAIN col[Collector!Loops[k]] :
            /\ ~Collector!Hashed(k, j)
            /\ Collector!Marshal(col[Collector!Loops[k]][j]) = Collector!Marshal(a)
      <4>1. 8 \in 1 .. 8 /\ i \in DOMAIN col[Collector!Loops[8]] BY <2>1
      <4> QED BY <4>1, <1>6, <2>1, FirstStays
    <3>1. PICK j \in DOMAIN col[Collector!Loops[k]] :
            /\ ~Collector!Hashed(k, j)
            /\ Collector!Marshal(col[Collector!Loops[k]][j]) = Collector!Marshal(a)
      BY <3>0b
    <3> DEFINE b == col[Collector!Loops[k]][j]
    <3>2. a \in Objects(in) /\ a.kind = "Other" BY <1>3, <2>1 DEF ListKind
    <3>3. b \in Objects(in) /\ b.kind = ListKind(Collector!Loops[k]) BY <1>3, <3>1
    <3>4. b.kind = "Other"
      <4>1. Collector!Marshal(a) = <<"json", a.gvk, a.name, a.body>> BY <3>2 DEF Collector!Marshal
      <4>2. b.kind # "Other" => Collector!Marshal(b) = <<"proto", b.name, b.body>>
        BY DEF Collector!Marshal
      <4> QED BY <4>1, <4>2, <3>1
    <3>5. k = 8 BY <3>3, <3>4, LoopsApart
    <3>6. a = b
      <4> HIDE DEF a, b
      <4>1. Collector!Marshal(b) = Collector!Marshal(a) BY <3>1 DEF b
      <4> QED BY <3>2, <3>3, <3>4, <4>1, <1>6 DEF CollectorInputs
    <3>7. j \in DOMAIN col'["CustomResource"] /\ col'["CustomResource"][j] = b
      BY <1>2, <2>1, <3>1, <3>5
    <3> QED BY <3>6, <3>7
  <2> QED BY <2>1, <2>2, <1>4 DEF Collector!Elements
<1>8. Served(col') = Served(col)
  <2>1. Collector!Loops[4] = "V1CRD" /\ Collector!Loops[5] = "V1beta1CRD"
        /\ "V1CRD" \in Collector!Lists /\ "V1beta1CRD" \in Collector!Lists
    BY LoopsInOrder, ListNames
  <2>2. Served(col') \subseteq Served(col)
    BY <1>4, <2>1 DEF Served, Collector!GVKsFor
  <2>3. ASSUME NEW l \in {4, 5}, NEW i \in DOMAIN col[Collector!Loops[l]]
        PROVE  Collector!DefinitionsFor(col[Collector!Loops[l]][i]) \subseteq Served(col')
    <3> DEFINE a == col[Collector!Loops[l]][i]
    <3>0. l \in 1 .. 8 OBVIOUS
    <3>0b. PICK k \in 1 .. 8 : \E j \in DOMAIN col[Collector!Loops[k]] :
            /\ ~Collector!Hashed(k, j)
            /\ Collector!Marshal(col[Collector!Loops[k]][j]) = Collector!Marshal(a)
      BY <3>0, <1>6, FirstStays
    <3>1. PICK j \in DOMAIN col[Collector!Loops[k]] :
            /\ ~Collector!Hashed(k, j)
            /\ Collector!Marshal(col[Collector!Loops[k]][j]) = Collector!Marshal(a)
      BY <3>0b
    <3> DEFINE b == col[Collector!Loops[k]][j]
    <3>2. a \in Objects(in) /\ a.kind \in CRDKinds
      BY <3>0, <1>3, <2>1 DEF ListKind, CRDKinds
    <3>3. b \in Objects(in) /\ b.kind = ListKind(Collector!Loops[k]) BY <1>3, <3>1
    <3>4. b.kind \in CRDKinds /\ Collector!DefinitionsFor(a) = Collector!DefinitionsFor(b)
      <4> HIDE DEF a, b
      <4>1. Collector!Marshal(b) = Collector!Marshal(a) BY <3>1 DEF b
      <4> QED BY <3>2, <3>3, <4>1, <1>6 DEF CollectorInputs
    <3>5. k \in {4, 5} BY <3>3, <3>4, LoopsApart
    <3>6. j \in DOMAIN col'[Collector!Loops[k]] /\ col'[Collector!Loops[k]][j] = b
      BY <1>2, <3>1
    <3>7. Collector!DefinitionsFor(b) \subseteq Collector!GVKsFor(col'[Collector!Loops[k]])
      BY <3>6 DEF Collector!GVKsFor
    <3> QED BY <3>4, <3>5, <3>7, <2>1 DEF Served
  <2>4. Served(col) \subseteq Served(col')
    <3> SUFFICES ASSUME NEW g \in Served(col) PROVE g \in Served(col')
      OBVIOUS
    <3>1. PICK l \in {4, 5} : g \in Collector!GVKsFor(col[Collector!Loops[l]])
      BY <2>1 DEF Served
    <3>2. PICK i \in DOMAIN col[Collector!Loops[l]] : g \in Collector!DefinitionsFor(col[Collector!Loops[l]][i])
      BY <3>1 DEF Collector!GVKsFor
    <3> QED BY <3>2, <2>3
  <2> QED BY <2>2, <2>4
<1>9. col'["Other"] = col["Other"] BY DeduplicatedLists
<1>10. Collector!Elements(col'["CustomResource"]) =
         {x \in Collector!Elements(col'["Other"]) : x.gvk \in Served(col')}
  BY <1>1, <1>7, <1>8, <1>9 DEF CollectorInv
<1>11. Collector!Elements(col'["Other"]) \cup Others(left') = Others(in'.stream)
  <2>1. Others(left') = Others(left) /\ Others(in'.stream) = Others(in.stream) BY <1>1
  <2>2. Collector!Elements(col'["Other"]) = Collector!Elements(col["Other"]) BY <1>9
  <2> QED BY <2>1, <2>2 DEF CollectorInv
<1>12. in' \in Collections /\ left' \in Seq(Collector!Elements(in'.stream)) /\ left' = <<>>
  BY <1>1 DEF CollectorInv
<1> QED BY <1>5, <1>10, <1>11, <1>12 DEF CollectorInv

LEMMA CollectorStep ==
  ASSUME CollectorInputs, CollectorInv, [Collector!Next]_(Collector!vars)
  PROVE  CollectorInv'
<1>1. CASE UNCHANGED Collector!vars
  <2>1. UNCHANGED <<in, left, col, colPc>> BY <1>1 DEF Collector!vars
  <2>2. ListsTyped' BY <2>1 DEF CollectorInv, ListsTyped
  <2>3. in' = in /\ left' = left /\ col' = col /\ colPc' = colPc BY <2>1
  <2>4. Others(left') = Others(left) /\ Others(in'.stream) = Others(in.stream)
        /\ Served(col') = Served(col)
        /\ Collector!Elements(in'.stream) = Collector!Elements(in.stream)
        /\ \A n \in Collector!Lists : Collector!Elements(col'[n]) = Collector!Elements(col[n])
    BY <2>3
  <2>5. Collector!Elements(col'["Other"]) = Collector!Elements(col["Other"])
        /\ Collector!Elements(col'["CustomResource"]) = Collector!Elements(col["CustomResource"])
    BY <2>3
  <2> QED BY <2>2, <2>3, <2>4, <2>5 DEF CollectorInv
<1> QED BY <1>1, DocumentRead, DefinitionsRead, ResourcesFiltered, DuplicatesRemoved
  DEF Collector!Next

LEMMA ExamplesFromLists ==
  ASSUME CollectorInputs, CollectorInv, colPc = "done"
  PROVE  ExamplesExact
<1> DEFINE crds == Collector!Elements(col["V1CRD"]) \cup Collector!Elements(col["V1beta1CRD"])
           others == {o \in Collector!Elements(in.stream) : o.kind = "Other"}
<1>1. Collector!Elements(col["CustomResource"]) = {o \in others : o.gvk \in Served(col)}
  <2>1. left = <<>> /\ Others(left) = {}
    BY DEF CollectorInv, Others, Collector!Elements
  <2>2. Collector!Elements(col["Other"]) = others BY <2>1 DEF CollectorInv, Others
  <2> QED BY <2>2 DEF CollectorInv
<1>2. ASSUME NEW o \in others
      PROVE  o.gvk \in Served(col) <=> \E c \in crds :
               c.name = o.gvk.kind /\ o.gvk.version \in c.served /\ o.gvk.version \in c.versions
  <2>1. o.gvk = [kind |-> o.gvk.kind, version |-> o.gvk.version]
    BY DEF CollectorInv, CollectorInputs, Objects, WebhookKinds
  <2>2. o.gvk \in Served(col) <=> \E c \in crds : o.gvk \in Collector!DefinitionsFor(c)
    BY DEF Served, Collector!GVKsFor, Collector!Elements
  <2> HIDE DEF crds, others
  <2>3. ASSUME NEW c
        PROVE  o.gvk \in Collector!DefinitionsFor(c) <=>
               (c.name = o.gvk.kind /\ o.gvk.version \in c.served /\ o.gvk.version \in c.versions)
    <3> DEFINE k == o.gvk.kind
               v == o.gvk.version
    <3>1. o.gvk = [kind |-> k, version |-> v] BY <2>1
    <3> HIDE DEF k, v
    <3>2. [kind |-> k, version |-> v] \in Collector!DefinitionsFor(c)
             <=> (c.name = k /\ v \in c.served /\ v \in c.versions)
      BY DEF Collector!DefinitionsFor
    <3> QED BY <3>1, <3>2 DEF k, v
  <2> QED BY <2>2, <2>3
<1> HIDE DEF crds, others
<1>3. Collector!Elements(col["CustomResource"]) = {o \in others : \E c \in crds :
         c.name = o.gvk.kind /\ o.gvk.version \in c.served /\ o.gvk.version \in c.versions}
  BY <1>1, <1>2
<1> QED BY <1>3 DEF ExamplesExact, Collector!ExamplesExact, crds, others

\* For all streams and CRDs directories whose documents are told apart by their
\* serialised form: the examples of the CSV are the custom resources of the APIs
\* that the bundle's CRDs serve (filterCustomResources, deduplicate).
THEOREM ExamplesOfServedAPIs ==
  ASSUME CollectorInputs PROVE Collector!Spec => []ExamplesExact
<1>1. Collector!Init => CollectorInv BY CollectorStart
<1>2. CollectorInv /\ [Collector!Next]_(Collector!vars) => CollectorInv' BY CollectorStep
<1>3. CollectorInv => ExamplesExact
  BY ExamplesFromLists DEF ExamplesExact, Collector!ExamplesExact
<1> QED BY <1>1, <1>2, <1>3, PTL DEF Collector!Spec

-----------------------------------------------------------------------------
(* The owned CRDs of the base. *)

LEMMA FiniteImage ==
  ASSUME NEW S, IsFiniteSet(S), NEW f
  PROVE  IsFiniteSet({f[x] : x \in S})
<1> DEFINE T == {f[x] : x \in S}
           g == [x \in S |-> f[x]]
<1>1. g \in Surjection(S, T) BY DEF Surjection
<1> HIDE DEF g, T
<1>2. IsFiniteSet(T) BY <1>1, FS_Surjection
<1> QED BY <1>2 DEF T

\* A set that another one holds with one more element has fewer elements.
LEMMA FewerElements ==
  ASSUME NEW T, IsFiniteSet(T), NEW S, S \subseteq T, NEW e \in T, e \notin S
  PROVE  /\ Cardinality(S) \in Nat /\ Cardinality(T) \in Nat
         /\ Cardinality(S) < Cardinality(T)
<1>1. IsFiniteSet(S) /\ Cardinality(S) <= Cardinality(T)
      /\ (Cardinality(T) = Cardinality(S) => T = S)
  BY FS_Subset
<1>2. Cardinality(S) \in Nat /\ Cardinality(T) \in Nat BY <1>1, FS_CardinalityType
<1>3. T # S OBVIOUS
<1> QED BY <1>1, <1>2, <1>3

LEMMA DefinitionsCountAlike == \A S : Definitions!Cardinality(S) = Cardinality(S)
BY DEF Definitions!Cardinality, Cardinality

GeneratedTyped ==
  /\ IsFiniteSet(defs)
  /\ \A d \in defs : d.api \in APIs
  /\ \A d, e \in defs : d.api = e.api => d = e

DefinitionInv ==
  /\ UniqueAPIs(owned) /\ GeneratedTyped
  /\ todo \subseteq APIs /\ runs \in Nat
  /\ defPc = "load" => defs = {}
  /\ defPc \in {"describe", "walk"} => \A d \in defs : d.api \notin todo
  /\ defPc = "walk" => /\ walk.api \in APIs \ todo
                       /\ \A d \in defs : d.api # walk.api
  /\ defPc # "idle" => before = owned
  /\ OwnedMerged

-----------------------------------------------------------------------------
(* The merge. *)

Generated(d) == [order |-> Definitions!Order(d), kept |-> 0, kind |-> d.api.kind, crd |-> d]
Retained(list, i) == [order |-> i - 1, kept |-> 1, kind |-> 0, crd |-> list[i]]

LEMMA BucketForms ==
  ASSUME NEW list, NEW new
  PROVE  /\ \A e \in Definitions!Buckets(list, new) :
              \/ \E d \in new : e = Generated(d)
              \/ \E i \in Definitions!Kept(list, new) : e = Retained(list, i)
         /\ \A d \in new : Generated(d) \in Definitions!Buckets(list, new)
         /\ \A i \in Definitions!Kept(list, new) : Retained(list, i) \in Definitions!Buckets(list, new)
BY DEF Definitions!Buckets, Generated, Retained

LEMMA BucketsFinite ==
  ASSUME UniqueAPIs(owned), GeneratedTyped
  PROVE  IsFiniteSet(Definitions!Buckets(owned, defs))
<1> DEFINE f == [d \in defs |-> Generated(d)]
           g == [i \in DOMAIN owned |-> Retained(owned, i)]
           K == Definitions!Kept(owned, defs)
<1>1. IsFiniteSet({f[d] : d \in defs})
  <2> HIDE DEF f
  <2> QED BY FiniteImage DEF GeneratedTyped
<1>2. IsFiniteSet({g[i] : i \in K})
  <2>1. K \in SUBSET DOMAIN owned BY DEF Definitions!Kept
  <2>2. IsFiniteSet(K) BY <2>1, FS_Subset DEF UniqueAPIs
  <2> HIDE DEF g, K
  <2> QED BY <2>2, FiniteImage
<1>3. Definitions!Buckets(owned, defs) = {f[d] : d \in defs} \cup {g[i] : i \in K}
  <2>1. K \subseteq DOMAIN owned BY DEF Definitions!Kept
  <2> QED BY <2>1 DEF Definitions!Buckets, Generated, Retained
<1> HIDE DEF f, g, K
<1> QED BY <1>1, <1>2, <1>3, FS_Union

LEMMA BucketTypes ==
  ASSUME DefinitionInputs, UniqueAPIs(owned), GeneratedTyped,
         NEW e \in Definitions!Buckets(owned, defs)
  PROVE  e.order \in Int /\ e.kept \in {0, 1} /\ e.kind \in Int
<1>1. CASE \E d \in defs : e = Generated(d)
  BY <1>1 DEF Generated, DefinitionInputs, GeneratedTyped, Definitions!Order
<1>2. CASE \E i \in Definitions!Kept(owned, defs) : e = Retained(owned, i)
  BY <1>2 DEF Retained, UniqueAPIs, Definitions!Kept
<1> QED BY <1>1, <1>2, BucketForms

\* No two entries share a place: a bucket's generated descriptions differ in
\* kind, and it keeps at most one.
LEMMA BucketOrder ==
  ASSUME DefinitionInputs, UniqueAPIs(owned), GeneratedTyped,
         NEW e \in Definitions!Buckets(owned, defs), NEW f \in Definitions!Buckets(owned, defs),
         e.order = f.order, e.kept = f.kept, e.kind = f.kind
  PROVE  e = f
<1>1. CASE e.kept = 0
  <2>1. PICK c \in defs : e = Generated(c) BY <1>1, BucketForms DEF Retained
  <2>0. f.kept = 0 BY <1>1
  <2>2. PICK d \in defs : f = Generated(d) BY <2>0, BucketForms DEF Retained
  <2>3. c.api.kind = d.api.kind BY <2>1, <2>2 DEF Generated
  <2>4. c = d BY <2>3 DEF DefinitionInputs, GeneratedTyped
  <2> QED BY <2>1, <2>2, <2>4
<1>2. CASE e.kept # 0
  <2>1. PICK i \in Definitions!Kept(owned, defs) : e = Retained(owned, i) BY <1>2,
          BucketForms DEF Generated
  <2>2. PICK j \in Definitions!Kept(owned, defs) : f = Retained(owned, j) BY <1>2,
          BucketForms DEF Generated
  <2>3. i \in Nat /\ j \in Nat BY DEF UniqueAPIs, Definitions!Kept
  <2>4. i - 1 = j - 1 BY <2>1, <2>2 DEF Retained
  <2> QED BY <2>1, <2>2, <2>3, <2>4
<1> QED BY <1>1, <1>2

\* Different entries describe different APIs.
LEMMA BucketAPIs ==
  ASSUME UniqueAPIs(owned), GeneratedTyped,
         NEW e \in Definitions!Buckets(owned, defs), NEW f \in Definitions!Buckets(owned, defs),
         e.crd.api = f.crd.api
  PROVE  e = f
<1>1. ASSUME NEW c \in defs, NEW d \in defs, e = Generated(c), f = Generated(d) PROVE e = f
  BY <1>1 DEF Generated, GeneratedTyped
<1>2. ASSUME NEW i \in Definitions!Kept(owned, defs), NEW j \in Definitions!Kept(owned, defs),
             e = Retained(owned, i), f = Retained(owned, j)
      PROVE e = f
  BY <1>2 DEF Retained, UniqueAPIs, Definitions!Kept
<1>3. ASSUME NEW c \in defs, NEW j \in Definitions!Kept(owned, defs),
             \/ e = Generated(c) /\ f = Retained(owned, j)
             \/ f = Generated(c) /\ e = Retained(owned, j)
      PROVE FALSE
  <2>1. c.api # owned[j].api BY DEF Definitions!Kept
  <2> QED BY <1>3, <2>1 DEF Generated, Retained
<1> QED BY <1>1, <1>2, <1>3, BucketForms

LEMMA PlacesApart ==
  ASSUME DefinitionInputs, UniqueAPIs(owned), GeneratedTyped,
         NEW e \in Definitions!Buckets(owned, defs), NEW f \in Definitions!Buckets(owned, defs)
  PROVE  LET preceding(x) == {y \in Definitions!Buckets(owned, defs) : Definitions!Before(y, x)}
         IN  /\ Cardinality(preceding(e)) \in Nat
             /\ Cardinality(preceding(e)) = Cardinality(preceding(f)) => e = f
<1> DEFINE all == Definitions!Buckets(owned, defs)
           preceding(x) == {y \in all : Definitions!Before(y, x)}
<1>1. IsFiniteSet(all) BY BucketsFinite
<1>2. \A x \in all : x.order \in Int /\ x.kept \in Int /\ x.kind \in Int
  BY BucketTypes
<1> HIDE DEF all
<1>3. ASSUME NEW x \in all PROVE IsFiniteSet(preceding(x)) /\ Cardinality(preceding(x)) \in Nat
  <2>1. preceding(x) \in SUBSET all OBVIOUS
  <2> HIDE DEF preceding
  <2> QED BY <1>1, <2>1, FS_Subset, FS_CardinalityType
<1>4. ASSUME NEW x \in all, NEW z \in all, Definitions!Before(x, z)
      PROVE  Cardinality(preceding(x)) < Cardinality(preceding(z))
  <2>1. x \in preceding(z) BY <1>4
  <2>2. x \notin preceding(x) BY <1>2 DEF Definitions!Before
  <2>3. preceding(x) \subseteq preceding(z)
    <3> SUFFICES ASSUME NEW y \in all, Definitions!Before(y, x) PROVE Definitions!Before(y, z)
      OBVIOUS
    <3> QED BY <1>2, <1>4 DEF Definitions!Before
  <2>4. IsFiniteSet(preceding(z)) BY <1>3
  <2> HIDE DEF preceding
  <2> QED BY <2>1, <2>2, <2>3, <2>4, FewerElements
<1>5. e \in all /\ f \in all BY DEF all
<1>6. e # f => Definitions!Before(e, f) \/ Definitions!Before(f, e)
  <2>1. e # f => e.order # f.order \/ e.kept # f.kept \/ e.kind # f.kind BY BucketOrder
  <2> QED BY <2>1, <1>2, <1>5 DEF Definitions!Before
<1>7. Cardinality(preceding(e)) = Cardinality(preceding(f)) => e = f
  <2>1. Cardinality(preceding(e)) \in Nat /\ Cardinality(preceding(f)) \in Nat BY <1>3, <1>5
  <2> HIDE DEF preceding
  <2> QED BY <1>4, <1>5, <1>6, <2>1
<1> QED BY <1>3, <1>5, <1>7 DEF all

\* The new list holds each entry once.
LEMMA MergedList ==
  ASSUME DefinitionInputs, UniqueAPIs(owned), GeneratedTyped, owned' = Definitions!Merged(owned, defs)
  PROVE  /\ UniqueAPIs(owned')
         /\ Definitions!Elements(owned') =
              defs \cup {d \in Definitions!Elements(owned) : \A e \in defs : e.api # d.api}
<1> DEFINE all == Definitions!Buckets(owned, defs)
           place(e) == Definitions!Cardinality({f \in all : Definitions!Before(f, e)}) + 1
<1>0. \A e \in all : place(e) = Cardinality({f \in all : Definitions!Before(f, e)}) + 1
  BY DefinitionsCountAlike
<1>1. owned' = [k \in {place(e) : e \in all} |-> (CHOOSE e \in all : place(e) = k).crd]
  BY DEF Definitions!Merged
<1>2. \A e \in all : place(e) \in Nat
  <2> SUFFICES ASSUME NEW e \in all PROVE place(e) \in Nat
    OBVIOUS
  <2>1. Cardinality({y \in all : Definitions!Before(y, e)}) \in Nat BY PlacesApart
  <2> QED BY <1>0, <2>1
<1>3. \A e, f \in all : place(e) = place(f) => e = f
  <2> SUFFICES ASSUME NEW e \in all, NEW f \in all, place(e) = place(f) PROVE e = f
    OBVIOUS
  <2>1. Cardinality({y \in all : Definitions!Before(y, e)}) \in Nat
        /\ Cardinality({y \in all : Definitions!Before(y, f)}) \in Nat
    BY PlacesApart
  <2>2. Cardinality({y \in all : Definitions!Before(y, e)}) = Cardinality({y \in all : Definitions!Before(y, f)})
    BY <1>0, <2>1
  <2> QED BY <2>2, PlacesApart
<1>4. IsFiniteSet({place(e) : e \in all})
  <2> DEFINE g == [e \in all |-> place(e)]
  <2>1. IsFiniteSet(all) BY BucketsFinite
  <2>2. {place(e) : e \in all} = {g[e] : e \in all} OBVIOUS
  <2> HIDE DEF g, all
  <2> QED BY <2>1, <2>2, FiniteImage
<1> HIDE DEF place
<1>5. \A e \in all : place(e) \in DOMAIN owned' /\ owned'[place(e)] = e.crd
  <2> SUFFICES ASSUME NEW e \in all PROVE place(e) \in DOMAIN owned' /\ owned'[place(e)] = e.crd
    OBVIOUS
  <2>1. (CHOOSE f \in all : place(f) = place(e)) = e BY <1>3
  <2> QED BY <1>1, <2>1
<1>6. \A k \in DOMAIN owned' : \E e \in all : k = place(e) BY <1>1
<1>7. UniqueAPIs(owned')
  <2>1. IsFiniteSet(DOMAIN owned') /\ DOMAIN owned' \subseteq Nat BY <1>1, <1>2, <1>4
  <2>2. ASSUME NEW i \in DOMAIN owned', NEW j \in DOMAIN owned', owned'[i].api = owned'[j].api
        PROVE  i = j
    <3>1. PICK e \in all : i = place(e) BY <1>6
    <3>2. PICK f \in all : j = place(f) BY <1>6
    <3>3. e.crd.api = f.crd.api BY <1>5, <2>2, <3>1, <3>2
    <3>4. e = f BY <3>3, BucketAPIs
    <3> QED BY <3>1, <3>2, <3>4
  <2> QED BY <2>1, <2>2 DEF UniqueAPIs
<1>8. Definitions!Elements(owned') = {e.crd : e \in all}
  BY <1>5, <1>6 DEF Definitions!Elements
<1>9. {e.crd : e \in all} = defs \cup {d \in Definitions!Elements(owned) : \A e \in defs : e.api # d.api}
  <2>1. \A d \in defs : \E e \in all : e.crd = d 
    <3> SUFFICES ASSUME NEW d \in defs PROVE \E e \in all : e.crd = d
      OBVIOUS
    <3>1. Generated(d) \in all BY BucketForms
    <3>2. Generated(d).crd = d BY DEF Generated
    <3> QED BY <3>1, <3>2
  <2>2. ASSUME NEW d \in Definitions!Elements(owned), \A e \in defs : e.api # d.api
        PROVE  \E e \in all : e.crd = d
    <3>1. PICK i \in DOMAIN owned : d = owned[i] BY DEF Definitions!Elements
    <3>2. i \in Definitions!Kept(owned, defs) BY <2>2, <3>1 DEF Definitions!Kept
    <3>3. Retained(owned, i) \in all BY <3>2, BucketForms
    <3>4. Retained(owned, i).crd = d BY <3>1 DEF Retained
    <3> QED BY <3>3, <3>4
  <2>3. ASSUME NEW e \in all
        PROVE  e.crd \in defs \/ (e.crd \in Definitions!Elements(owned) /\ \A d \in defs : d.api # e.crd.api)
    <3>1. CASE \E d \in defs : e = Generated(d) BY <3>1 DEF Generated
    <3>2. CASE \E i \in Definitions!Kept(owned, defs) : e = Retained(owned, i)
      BY <3>2 DEF Retained, Definitions!Kept, Definitions!Elements
    <3> QED BY <3>1, <3>2, BucketForms
  <2> HIDE DEF all
  <2> QED BY <2>1, <2>2, <2>3
<1> QED BY <1>7, <1>8, <1>9

LEMMA DefinitionsStart == ASSUME DefinitionInputs, Definitions!Init PROVE DefinitionInv
<1>1. UniqueAPIs(owned) BY DEF DefinitionInputs, Definitions!Init
<1>2. GeneratedTyped BY FS_EmptySet DEF Definitions!Init, GeneratedTyped
<1> QED BY <1>1, <1>2 DEF Definitions!Init, DefinitionInv, OwnedMerged, Definitions!OwnedMerged,
        Definitions!Ended

LEMMA DefinitionsStep ==
  ASSUME DefinitionInputs, DefinitionInv, [Definitions!Next]_(Definitions!vars)
  PROVE  DefinitionInv'
<1> USE DEF DefinitionInv
<1>0. ASSUME owned' = owned, defs' = defs PROVE UniqueAPIs(owned)' /\ GeneratedTyped'
  BY <1>0 DEF UniqueAPIs, GeneratedTyped
<1>n. ASSUME defPc' # "idle" PROVE OwnedMerged'
  BY <1>n DEF OwnedMerged, Definitions!OwnedMerged, Definitions!Ended
<1>1. CASE Definitions!Start
  <2>1. GeneratedTyped' BY <1>1, FS_EmptySet DEF Definitions!Start, GeneratedTyped
  <2>2. UniqueAPIs(owned)' BY <1>1 DEF Definitions!Start, UniqueAPIs
  <2> QED BY <1>1, <1>n, <2>1, <2>2 DEF Definitions!Start
<1>2. CASE Definitions!needTypes
  BY <1>2, <1>0, <1>n DEF Definitions!needTypes
<1>3. CASE Definitions!Match
  BY <1>3, <1>0, <1>n DEF Definitions!Match
<1>4. CASE Definitions!BeginType
  <2>1. PICK api \in todo :
          /\ todo' = todo \ {api}
          /\ (defPc' = "walk" /\ walk'.api = api) \/ defPc' = "failed"
    BY <1>4 DEF Definitions!BeginType
  <2>2. UNCHANGED <<owned, before, defs, runs>> /\ defPc = "describe" BY <1>4
    DEF Definitions!BeginType
  <2> QED BY <2>1, <2>2, <1>0, <1>n
<1>5. CASE Definitions!WalkLevel
  <2>1. walk'.api = walk.api
    BY <1>5 DEF Definitions!WalkLevel
  <2> QED BY <1>5, <2>1, <1>0, <1>n DEF Definitions!WalkLevel
<1>6. CASE Definitions!FinishType
  <2> DEFINE d == [api |-> walk.api, manual |-> FALSE, desc |-> Definitions!Descriptors(walk.marked)]
  <2>1. defs' = defs \cup {d} /\ d.api = walk.api /\ defPc = "walk" /\ defPc' = "describe"
        /\ UNCHANGED <<owned, before, todo, runs>>
    BY <1>6 DEF Definitions!FinishType
  <2> HIDE DEF d
  <2>2. GeneratedTyped' BY <2>1, FS_AddElement DEF GeneratedTyped
  <2>3. UniqueAPIs(owned)' BY <2>1 DEF UniqueAPIs
  <2> QED BY <2>1, <2>2, <2>3, <1>n
<1>7. CASE Definitions!updateDefinitionsByKey
  <2>1. /\ owned' = Definitions!Merged(owned, defs) /\ defPc = "describe" /\ defPc' = "idle"
        /\ UNCHANGED <<before, defs, todo, runs>>
    BY <1>7 DEF Definitions!updateDefinitionsByKey
  <2>2. UniqueAPIs(owned') /\ Definitions!Elements(owned') =
              defs \cup {d \in Definitions!Elements(owned) : \A e \in defs : e.api # d.api}
    BY <2>1, MergedList
  <2>3. GeneratedTyped' BY <2>1 DEF GeneratedTyped
  <2>4. OwnedMerged'
    <3>1. Definitions!Elements(owned)' = Definitions!Elements(owned') BY DEF Definitions!Elements
    <3>2. before' = owned BY <2>1
    <3> QED BY <2>1, <2>2, <3>2 DEF OwnedMerged, Definitions!OwnedMerged, UniqueAPIs
  <2> QED BY <2>1, <2>2, <2>3, <2>4
<1>8. CASE UNCHANGED Definitions!vars
  <2>1. UNCHANGED <<owned, before, todo, defs, walk, runs, defPc>> BY <1>8 DEF Definitions!vars
  <2>2. OwnedMerged'
    BY <2>1 DEF OwnedMerged, Definitions!OwnedMerged, Definitions!Ended
  <2> QED BY <2>1, <2>2, <1>0
<1> QED BY <1>1, <1>2, <1>3, <1>4, <1>5, <1>6, <1>7, <1>8 DEF Definitions!Next

\* For all bases, API packages and markers: after a run the base describes
\* what it described before, each API once; a description the run generated
\* replaces the older one and the others stay as they were
\* (updateDefinitionsByKey).
THEOREM OwnedKeptOrReplaced ==
  ASSUME DefinitionInputs PROVE Definitions!Spec => []OwnedMerged
<1>1. Definitions!Init => DefinitionInv BY DefinitionsStart
<1>2. DefinitionInv /\ [Definitions!Next]_(Definitions!vars) => DefinitionInv' BY DefinitionsStep
<1>3. DefinitionInv => OwnedMerged BY DEF DefinitionInv
<1> QED BY <1>1, <1>2, <1>3, PTL DEF Definitions!Spec
=============================================================================
