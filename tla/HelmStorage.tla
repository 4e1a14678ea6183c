---------------------------- MODULE HelmStorage ----------------------------
(***************************************************************************)
(* The release records Helm keeps, one Secret per revision, and the        *)
(* queries the operator and Helm's actions make of them.  A store maps     *)
(* every revision to a record; status "none" means there is no Secret for  *)
(* that revision.  Manifests are members of Specs: the chart's rendering   *)
(* is a function of the custom resource's spec.                            *)
(***************************************************************************)
EXTENDS Naturals

CONSTANTS Specs,        \* the values a custom resource's spec can take
          MaxVersion    \* bound on release revisions

ASSUME SpecsAssumption == Specs # {} /\ "none" \notin Specs
ASSUME MaxVersionAssumption == MaxVersion \in Nat \ {0}

Versions == 1 .. MaxVersion

NoSpec == "none"

\* release.Status; "uninstalled" and "unknown" are never stored by the operator.
Statuses == {"none", "deployed", "superseded", "failed", "uninstalling",
             "pending-install", "pending-upgrade", "pending-rollback"}

Records == [status: Statuses, manifest: Specs \cup {NoSpec}]

NoRelease == [status |-> "none", manifest |-> NoSpec]

Stores == [Versions -> Records]

EmptyStore == [v \in Versions |-> NoRelease]

\* storage.History: the revisions that have a record.
History(h) == {v \in Versions : h[v].status # "none"}

\* storage.Last and the head of a list sorted by revision.
Latest(S) == CHOOSE v \in S : \A w \in S : w <= v

\* storage.DeployedAll
DeployedAll(h) == {v \in Versions : h[v].status = "deployed"}

\* Status.IsPending
IsPending(s) == s \in {"pending-install", "pending-upgrade", "pending-rollback"}

\* The release an upgrade starts from: the last one if it is deployed, else
\* the deployed one, else the last one if it is failed or superseded.
CanUpgrade(h) ==
  /\ History(h) # {}
  /\ ~IsPending(h[Latest(History(h))].status)
  /\ \/ DeployedAll(h) # {}
     \/ h[Latest(History(h))].status \in {"failed", "superseded"}

CurrentRelease(h) ==
  IF DeployedAll(h) # {} THEN Latest(DeployedAll(h)) ELSE Latest(History(h))
=============================================================================
