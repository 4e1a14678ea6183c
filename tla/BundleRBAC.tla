----------------------------- MODULE BundleRBAC -----------------------------
(***************************************************************************)
(* How `generate bundle` turns RBAC objects into the permissions of a CSV  *)
(* (internal/generate/collector/clusterserviceversion.go and the appliers  *)
(* of internal/generate/clusterserviceversion).  Roles bound to a service  *)
(* account of the operator become permissions of that account; the other   *)
(* objects go into the bundle as files.  The rules of a role are the role  *)
(* itself, so that a permission says where it came from.                   *)
(***************************************************************************)
EXTENDS Integers, Sequences

CONSTANTS
  Inputs,     \* the collections of manifests the command is run on
  NoneName,   \* the empty serviceAccountName of a pod spec
  DefaultSA   \* "default", the account every namespace has

(* A collection has sequences of roles, clusterRoles, roleBindings and     *)
(* clusterRoleBindings, the sets deployments (of their account names),     *)
(* accounts (ServiceAccount objects) and extra (--extra-service-accounts). *)
VARIABLES
  m,        \* the collected manifests
  split,    \* what SplitCSVPermissionsObjects returned
  perms,    \* permissions of the CSV: service account -> roles
  cPerms,   \* clusterPermissions of the CSV
  pc

vars == <<m, split, perms, cPerms, pc>>

NamesIn(s) == {s[i].name : i \in DOMAIN s}
(* A Go map from names to objects: the last object of a name stays. *)
ByName(s) ==
  [n \in NamesIn(s) |-> s[CHOOSE i \in DOMAIN s :
     s[i].name = n /\ \A j \in DOMAIN s : s[j].name = n => j <= i]]

SAName(d) == IF d = NoneName THEN DefaultSA ELSE d
csvSAs(c) == {SAName(d) : d \in c.deployments} \cup c.extra
initPermissionSet(c) == [sa \in csvSAs(c) |-> {}]

(* Mutant: a user or group called like a service account counts as one. *)
RelevantAnyKind(subject, sas) == subject.name \in sas

Relevant(subject, sas) == subject.name \in sas /\ subject.kind = "ServiceAccount"

Matches(b, kind, known) == b.kind = kind /\ b.ref \in known

(* getRolesBoundToPartialBindings: the positions of the bindings that bind   *)
(* a role to an account, and of those that keep a subject.                   *)
Bound(bs, kind, known, sas) ==
  {i \in DOMAIN bs : Matches(bs[i], kind, known) /\ \E s \in bs[i].subjects : Relevant(s, sas)}

Kept(bs, kind, known, sas) ==
  {i \in DOMAIN bs : ~ /\ Matches(bs[i], kind, known)
                      /\ \A s \in bs[i].subjects : Relevant(s, sas)}

Refs(bs, at) == {bs[i].ref : i \in at}
Twice(bs, at) == \E i, j \in at : i /= j /\ bs[i].ref = bs[j].ref

NilRole == [kind |-> "nil", name |-> "nil", ns |-> "nil"]
NoSplit == [inPerms |-> {}, inCPerms |-> {}, out |-> {}]

(* SplitCSVPermissionsObjects: a Role leaves roleMap when it is added, so a *)
(* name that comes again finds nil; ClusterRoles leave cRoleMap afterwards. *)
SplitCSVPermissionsObjects(c) ==
  LET sas      == csvSAs(c)
      roleMap  == ByName(c.roles)
      cRoleMap == ByName(c.clusterRoles)
      rbMap    == ByName(c.roleBindings)
      crbMap   == ByName(c.clusterRoleBindings)
      roleAt   == Bound(c.roleBindings, "Role", DOMAIN roleMap, sas)
      inRoles  == Refs(c.roleBindings, roleAt)
      inNScope == Refs(c.roleBindings, Bound(c.roleBindings, "ClusterRole", DOMAIN cRoleMap, sas))
      inCScope == Refs(c.clusterRoleBindings,
                       Bound(c.clusterRoleBindings, "ClusterRole", DOMAIN cRoleMap, sas))
      left     == Kept(c.roleBindings, "Role", DOMAIN roleMap, sas)
                  \cap Kept(c.roleBindings, "ClusterRole", DOMAIN cRoleMap, sas)
      cLeft    == Kept(c.clusterRoleBindings, "ClusterRole", DOMAIN cRoleMap, sas)
  IN  [inPerms |-> {roleMap[n] : n \in inRoles} \cup {cRoleMap[n] : n \in inNScope}
                   \cup (IF Twice(c.roleBindings, roleAt) THEN {NilRole} ELSE {}),
       inCPerms |-> {cRoleMap[n] : n \in inCScope},
       out |-> {roleMap[n] : n \in DOMAIN roleMap \ inRoles}
               \cup {cRoleMap[n] : n \in DOMAIN cRoleMap \ (inNScope \cup inCScope)}
               \cup {rbMap[c.roleBindings[i].name] : i \in left}
               \cup {crbMap[c.clusterRoleBindings[i].name] : i \in cLeft}
               \cup [kind : {"ServiceAccount"}, name : c.accounts \ sas]]

(* The rules a service account gets from the bindings that name it.  roleSet *)
(* comes out of the split's maps: one role of a name and kind.               *)
Granted(c, bindings, roleSet) ==
  [sa \in DOMAIN initPermissionSet(c) |->
     {r \in roleSet : \E i \in DOMAIN bindings :
        /\ bindings[i].ref = r.name /\ bindings[i].kind = r.kind
        /\ \E s \in bindings[i].subjects : s.name = sa /\ Relevant(s, {sa})}]

Init ==
  /\ m \in Inputs
  /\ split = NoSplit /\ perms = <<>> /\ cPerms = <<>> /\ pc = "split"

Split ==
  /\ pc = "split"
  /\ split' = SplitCSVPermissionsObjects(m)
  /\ pc' = "roles"
  /\ UNCHANGED <<m, perms, cPerms>>

(* applyRoles: the name of a nil Role is read through a nil pointer. *)
applyRoles ==
  /\ pc = "roles"
  /\ IF NilRole \in split.inPerms THEN pc' = "panic" /\ UNCHANGED perms
     ELSE /\ perms' = Granted(m, m.roleBindings, split.inPerms)
          /\ pc' = "clusterRoles"
  /\ UNCHANGED <<m, split, cPerms>>

(* applyClusterRoles: the kind a ClusterRoleBinding refers to is not read.  *)
AsClusterRoles(bindings) ==
  [i \in DOMAIN bindings |-> [bindings[i] EXCEPT !.kind = "ClusterRole"]]

applyClusterRoles ==
  /\ pc = "clusterRoles"
  /\ cPerms' = Granted(m, AsClusterRoles(m.clusterRoleBindings), split.inCPerms)
  /\ pc' = "done"
  /\ UNCHANGED <<m, split, perms>>

Next == Split \/ applyRoles \/ applyClusterRoles
Spec == Init /\ [][Next]_vars

---------------------------------------------------------------------------

Unique(s) == \A i, j \in DOMAIN s : s[i].name = s[j].name => i = j
UniqueNames ==
  /\ Unique(m.roles) /\ Unique(m.clusterRoles)
  /\ Unique(m.roleBindings) /\ Unique(m.clusterRoleBindings)
All(s) == {s[i] : i \in DOMAIN s}

(* With unique names, an account of the CSV gets the      *)
(* rules of a role if and only if a binding with a ServiceAccount subject   *)
(* of its name refers to that role, namespaced by RoleBindings and          *)
(* cluster-wide by ClusterRoleBindings: no permission is lost or invented   *)
(* on the way through the split, the maps and the two appliers.             *)
PermissionsExact ==
  pc = "done" /\ UniqueNames =>
    \A sa \in csvSAs(m) :
      LET subject == [kind |-> "ServiceAccount", name |-> sa]
          Through(bs, r) == \E b \in All(bs) :
            subject \in b.subjects /\ b.ref = r.name /\ b.kind = r.kind
      IN  /\ perms[sa] = {r \in All(m.roles) \cup All(m.clusterRoles) :
                            Through(m.roleBindings, r)}
          /\ cPerms[sa] = {r \in All(m.clusterRoles) : Through(m.clusterRoleBindings, r)}
=============================================================================
