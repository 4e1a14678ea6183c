-------------------------- MODULE HelmRecordProofs --------------------------
(***************************************************************************)
(* Which release records are deployed, what a rollback goes back to and    *)
(* when an uninstall removes the last record, for every set of specs and   *)
(* objects and every bound on revisions, edits and drifts.                 *)
(***************************************************************************)
EXTENDS HelmSafetyProofs

-----------------------------------------------------------------------------
(* The deployed record and rollbacks, with an informer that does not lag   *)
(* and at most one failing request                                         *)

Deployed == DeployedAll(releases)

Recorded == History(releases)

\* The one request that may fail has failed.
Spent == faults < MaxFaults

\* The only revisions with a record are the one the upgrade starts from, the
\* new one and, after a failure, an older one that was never superseded.
Upgrading ==
  /\ rel.version = prev.version + 1 /\ rel.version \notin Deployed
  /\ \A v \in Recorded \ {rel.version} : v <= prev.version
  /\ \A u, w \in Recorded \ {prev.version, rel.version} : u = w
  /\ ~Spent => Recorded \subseteq {prev.version, rel.version}

\* The upgrade failed before it superseded anything.
Undone ==
  /\ rel.version = prev.version + 1
  /\ Recorded \subseteq {prev.version, rel.version}
  /\ Deployed \subseteq {prev.version}

\* Of the revisions S only one has another one above it, and only that one
\* can be deployed.
Restorable(S) == \A v \in Deployed, u, w \in S : u < w => u = v

\* Two revisions are deployed only after a failure, and never three.
FewDeployed ==
  /\ ~Spent => AtMostOneDeployed
  /\ \A u, v, w \in Deployed : ~(u < v /\ v < w)

\* What a reconciliation relies on at each of its steps: after Sync's cleanup
\* only deployed records are left, and an upgrade or a rollback supersedes
\* them before it deploys another one.
StepInv ==
  /\ pc = "syncCleanup" => Recorded \subseteq Deployed \cup TodoVersions
  /\ pc \in {"candidate", "finalizer", "upgrade"} => Recorded \subseteq Deployed
  /\ pc \in {"installApply", "installFailed", "installRecord"} => Deployed = {}
  /\ pc \in {"upgradeApply", "upgradeSupersede"} => Upgrading
  /\ pc \in {"upgradeKeep", "upgradeFailed"} => Undone
  /\ pc = "upgradeDeploy" => /\ Restorable(Recorded \ {rel.version})
                             /\ rel.version \notin Deployed
                             /\ ~Spent => Deployed = {}
  /\ pc = "rollback" => Restorable(Recorded)
  /\ pc \in {"rollbackApply", "rollbackSupersede", "rollbackDeploy"} => AtMostOneDeployed
  /\ pc = "rollbackApply" => \A v \in Deployed : releases[v].manifest = rel.manifest
  /\ pc = "rollbackSupersede" /\ ~Spent => Deployed \subseteq TodoVersions
  /\ pc = "rollbackDeploy" /\ ~Spent => Deployed = {}

DeployedInv == FewDeployed /\ StepInv

\* The steps StepInv speaks of.
DeployedSteps ==
  {"syncCleanup", "candidate", "finalizer", "upgrade", "installApply",
   "installFailed", "installRecord", "upgradeApply", "upgradeSupersede",
   "upgradeKeep", "upgradeFailed", "upgradeDeploy", "rollback", "rollbackApply",
   "rollbackSupersede", "rollbackDeploy"}

\* What writing a record does to the recorded and the deployed revisions.
LEMMA WriteEffect ==
  ASSUME TypeInv, NEW v \in Versions, NEW r, Written(v, r)
  PROVE  /\ Deployed' = IF r.status = "deployed" THEN Deployed \cup {v} ELSE Deployed \ {v}
         /\ Recorded' = IF r.status = "none" THEN Recorded \ {v} ELSE Recorded \cup {v}
         /\ \A w \in Versions : w # v => releases'[w] = releases[w]
<1>1. /\ releases'[v] = r
      /\ \A w \in Versions : w # v => releases'[w] = releases[w]
  BY DEF TypeInv, StoreOK, GoodStores, Written
<1>2. Deployed' = IF r.status = "deployed" THEN Deployed \cup {v} ELSE Deployed \ {v}
  BY <1>1 DEF Deployed, DeployedAll
<1>3. Recorded' = IF r.status = "none" THEN Recorded \ {v} ELSE Recorded \cup {v}
  BY <1>1 DEF Recorded, History
<1> QED BY <1>1, <1>2, <1>3

\* The revisions of a store are numbers, and the deployed ones are recorded.
LEMMA RevisionsOK ==
  ASSUME TypeInv
  PROVE  /\ Deployed \subseteq Recorded /\ Recorded \subseteq Versions
         /\ Versions \subseteq Nat
         /\ \A v \in Versions : Exists(v) <=> v \in Recorded
BY MaxVersionAssumption DEF Deployed, Recorded, DeployedAll, History, Versions, Exists

\* A record is written, or does not exist, or the request fails.
LEMMA RecordEffect ==
  ASSUME MaxLag = 0, TypeInv, Current, NEW v \in Versions, NEW s, NEW m,
         RecordRelease(v, s, m)
  PROVE  \/ UNCHANGED releases /\ Works /\ v \notin Recorded
         \/ UNCHANGED releases /\ Fails
         \/ /\ Works /\ v \in Recorded
            /\ Deployed' = IF s = "deployed" THEN Deployed \cup {v} ELSE Deployed \ {v}
            /\ Recorded' = IF s = "none" THEN Recorded \ {v} ELSE Recorded
<1>1. Record(s, m).status = s
  BY DEF Record
<1>2. CASE Updates(v, s, m)
  <2>1. Works /\ v \in Recorded /\ Written(v, Record(s, m))
    BY <1>2, WriteCurrent, RevisionsOK DEF Updates
  <2> QED BY <1>1, <2>1, WriteEffect
<1>3. CASE UpdateFails(v)
  BY <1>3, RevisionsOK DEF UpdateFails, store
<1> QED BY <1>2, <1>3 DEF RecordRelease

\* At most one request fails.
LEMMA OneFault ==
  ASSUME MaxFaults <= 1, TypeInv
  PROVE  /\ Works => (Spent' <=> Spent)
         /\ Fails => ~Spent /\ Spent'
BY BoundsAssumption DEF TypeInv, BoundsOK, Works, Fails, Spent

\* Fewer deployed revisions are still few.
LEMMA StillFew ==
  ASSUME FewDeployed, Deployed' \subseteq Deployed, Spent => Spent'
  PROVE  FewDeployed'
BY DEF FewDeployed, AtMostOneDeployed, Deployed

\* A step that deploys nothing and goes where StepInv says nothing.
LEMMA Elsewhere ==
  ASSUME MaxFaults <= 1, TypeInv, DeployedInv, Deployed' \subseteq Deployed,
         Works \/ Fails, pc' \notin DeployedSteps
  PROVE  DeployedInv'
<1>1. FewDeployed'
  BY OneFault, StillFew DEF DeployedInv
<1>2. StepInv'
  BY DEF StepInv, DeployedSteps
<1> QED BY <1>1, <1>2 DEF DeployedInv

\* A step of another actor, which at most removes a record.
LEMMA OthersStep ==
  ASSUME TypeInv, DeployedInv, UNCHANGED <<pc, todo, prev, rel, faults>>,
         UNCHANGED releases \/ \E v \in Versions : Written(v, NoRelease)
  PROVE  DeployedInv'
<1>1. CASE UNCHANGED releases
  BY <1>1 DEF DeployedInv, FewDeployed, StepInv, Spent, AtMostOneDeployed, Deployed,
     Recorded, Upgrading, Undone, Restorable, TodoVersions
<1>2. ASSUME NEW v \in Versions, Written(v, NoRelease)
      PROVE  DeployedInv'
  <2>1. /\ Deployed' = Deployed \ {v} /\ Recorded' = Recorded \ {v}
        /\ \A w \in Deployed' : releases'[w] = releases[w]
    BY <1>2, WriteEffect, RevisionsOK DEF NoRelease
  <2>2. /\ Spent' <=> Spent
        /\ TodoVersions' = TodoVersions
    BY DEF Spent, TodoVersions
  <2>3. FewDeployed'
    BY <2>1, <2>2, StillFew DEF DeployedInv
  <2>4. AtMostOneDeployed => AtMostOneDeployed'
    BY <2>1 DEF AtMostOneDeployed, Deployed
  <2>5. Upgrading => Upgrading'
    BY <2>1, <2>2 DEF Upgrading
  <2>6. Undone => Undone'
    BY <2>1, <2>2 DEF Undone
  <2>7. /\ Restorable(Recorded) => Restorable(Recorded)'
        /\ Restorable(Recorded \ {rel.version}) => Restorable(Recorded \ {rel.version})'
    BY <2>1 DEF Restorable
  <2>8. StepInv'
    BY <2>1, <2>2, <2>4, <2>5, <2>6, <2>7 DEF DeployedInv, StepInv
  <2> QED BY <2>3, <2>8 DEF DeployedInv
<1> QED BY <1>1, <1>2

\* Sync, the install and the uninstall keep DeployedInv.
LEMMA InstallDeployed ==
  ASSUME MaxLag = 0, MaxFaults <= 1, TypeInv, RecordInv, DeployedInv,
         \/ UninstallBegin \/ UninstallDelete \/ UninstallPurge
         \/ SyncHistory \/ SyncCleanup \/ SyncDeployed \/ SyncCandidate
         \/ InstallBegin \/ InstallApply \/ InstallFailed \/ InstallRecord
  PROVE  DeployedInv'
<1> USE DEF TypeInv
<1>1. Current
  BY DEF RecordInv
<1>2. ASSUME UNCHANGED releases
      PROVE  Deployed' = Deployed /\ Recorded' = Recorded
  BY <1>2 DEF Deployed, Recorded
<1>3. UNCHANGED store => UNCHANGED releases
  BY DEF store
<1>4. ASSUME NEW v \in Versions, NEW s, NEW m, s # "deployed", RecordRelease(v, s, m)
      PROVE  Deployed' \subseteq Deployed /\ (Works \/ Fails)
  BY <1>1, <1>2, <1>4, RecordEffect
<1>5. CASE UninstallBegin
  <2>1. pc' \notin DeployedSteps
    <3>1. CASE Goto("deleteObjects")
      BY <3>1 DEF Goto, DeployedSteps
    <3>2. CASE UninstallEnds(ReleaseNotFound) \/ UninstallFails
      BY <3>2, UninstallMoves DEF DeployedSteps
    <3> QED BY <1>5, <3>1, <3>2 DEF UninstallBegin
  <2>2. CASE UNCHANGED store /\ (Works \/ Fails)
    BY <1>2, <1>3, <2>1, <2>2, Elsewhere
  <2>3. CASE /\ History(cached) # {}
             /\ RecordRelease(Latest(History(cached)), "uninstalling",
                              cached[Latest(History(cached))].manifest)
    BY <1>4, <2>1, <2>3, LatestExists, Elsewhere DEF StoreOK
  <2> QED BY <1>5, <2>2, <2>3 DEF UninstallBegin
<1>6. CASE UninstallDelete
  <2>1. pc' \notin DeployedSteps
    BY <1>6, UninstallMoves DEF UninstallDelete, Goto, DeployedSteps
  <2> QED BY <1>2, <1>3, <1>6, <2>1, Elsewhere DEF UninstallDelete
<1>7. CASE UninstallPurge
  <2>1. pc' \notin DeployedSteps
    BY <1>7, UninstallMoves DEF UninstallPurge, Goto, DeployedSteps
  <2>2. CASE UNCHANGED store /\ (Works \/ Fails)
    BY <1>2, <1>3, <2>1, <2>2, Elsewhere
  <2>3. ASSUME NEW r \in todo, Works, WriteRelease(r.version, NoRelease)
        PROVE  DeployedInv'
    <3>1. r.version \in Versions
      BY DEF LocalOK, Items
    <3>2. Deployed' \subseteq Deployed
      BY <1>1, <2>3, <3>1, WriteCurrent, WriteEffect DEF NoRelease
    <3> QED BY <2>1, <2>3, <3>2, Elsewhere
  <2> QED BY <1>7, <2>2, <2>3 DEF UninstallPurge, UpdateFails
<1>8. CASE SyncHistory
  <2>1. Deployed' = Deployed /\ Recorded' = Recorded
    BY <1>2, <1>3, <1>8 DEF SyncHistory
  <2>2. Recorded \subseteq Deployed \cup TodoVersions'
    <3> SUFFICES ASSUME NEW w \in Recorded \ Deployed PROVE w \in TodoVersions'
      OBVIOUS
    <3> DEFINE item == [version |-> w, manifest |-> cached[w].manifest]
    <3>1. item \in todo' /\ item.version = w
      BY <1>1, <1>8 DEF SyncHistory, Listed, Current, Recorded, Deployed
    <3> HIDE DEF item
    <3> QED BY <3>1 DEF TodoVersions
  <2>3. pc' = "syncCleanup" /\ Works
    BY <1>8 DEF SyncHistory, Goto, Works
  <2>4. FewDeployed'
    BY <2>1, <2>3, OneFault, StillFew DEF DeployedInv
  <2> QED BY <2>1, <2>2, <2>3, <2>4 DEF DeployedInv, StepInv
<1>9. CASE SyncCleanup
  <2>1. CASE SyncFails /\ UNCHANGED store /\ Fails
    BY <1>2, <1>3, <2>1, MovesOn, Elsewhere DEF DeployedSteps
  <2>2. ASSUME NEW r \in todo, Works, todo' = todo \ {r}, Goto("syncCleanup"),
               \/ WriteRelease(r.version, NoRelease)
               \/ ~Exists(r.version) /\ UNCHANGED store
        PROVE  DeployedInv'
    <3>1. r.version \in Versions
      BY DEF LocalOK, Items
    <3>2. /\ Deployed' = Deployed \ {r.version}
          /\ Recorded' = Recorded \ {r.version}
      <4>1. CASE WriteRelease(r.version, NoRelease)
        BY <1>1, <3>1, <4>1, WriteCurrent, WriteEffect DEF NoRelease
      <4>2. CASE ~Exists(r.version) /\ UNCHANGED store
        BY <1>2, <1>3, <3>1, <4>2, RevisionsOK
      <4> QED BY <2>2, <4>1, <4>2
    <3>3. Recorded \subseteq Deployed \cup TodoVersions
      BY <1>9 DEF SyncCleanup, DeployedInv, StepInv
    <3>4. Recorded' \subseteq Deployed' \cup TodoVersions'
      BY <2>2, <3>2, <3>3 DEF TodoVersions
    <3>5. pc' = "syncCleanup"
      BY <2>2 DEF Goto
    <3>6. FewDeployed'
      BY <2>2, <3>2, OneFault, StillFew DEF DeployedInv
    <3> QED BY <3>4, <3>5, <3>6 DEF DeployedInv, StepInv
  <2> QED BY <1>9, <2>1, <2>2 DEF SyncCleanup
<1>10. CASE SyncDeployed
  <2>1. Deployed' = Deployed /\ Recorded' = Recorded
    BY <1>2, <1>3, <1>10 DEF SyncDeployed
  <2>2. Recorded \subseteq Deployed
    BY <1>10 DEF SyncDeployed, DeployedInv, StepInv, TodoVersions
  <2>3. Works /\ pc' \in {"install", "candidate"}
    BY <1>10 DEF SyncDeployed, Goto, GotoWith, Works
  <2>4. FewDeployed'
    BY <2>1, <2>3, OneFault, StillFew DEF DeployedInv
  <2> QED BY <2>1, <2>2, <2>3, <2>4 DEF DeployedInv, StepInv
<1>11. CASE SyncCandidate
  <2>1. Deployed' = Deployed /\ Recorded' = Recorded
    BY <1>2, <1>3, <1>11 DEF SyncCandidate
  <2>2. Recorded \subseteq Deployed
    BY <1>11 DEF SyncCandidate, DeployedInv, StepInv
  <2>3. /\ Works \/ Fails
        /\ pc' \in {"report", "finalizer", "upgrade", "reconcile"}
    BY <1>11 DEF SyncCandidate, SyncFails, NextOperation, GotoWith
  <2>4. FewDeployed'
    BY <2>1, <2>3, OneFault, StillFew DEF DeployedInv
  <2> QED BY <2>1, <2>2, <2>3, <2>4 DEF DeployedInv, StepInv
<1>12. CASE InstallBegin
  <2>1. CASE UNCHANGED store /\ (Works \/ Fails) /\ pc' \in {"report", "uninstall"}
    BY <1>2, <1>3, <2>1, Elsewhere DEF DeployedSteps
  <2>2. CASE /\ History(cached) = {} /\ Works /\ Goto("installApply")
             /\ WriteRelease(1, Record("pending-install", o.spec))
    <3>1. 1 \in Versions /\ Record("pending-install", o.spec).status = "pending-install"
      BY MaxVersionAssumption DEF Versions, Record
    <3>2. Deployed = {}
      BY <1>1, <2>2, RevisionsOK DEF Current, Recorded
    <3>3. Deployed' = {}
      BY <1>1, <2>2, <3>1, <3>2, WriteCurrent, WriteEffect
    <3>4. FewDeployed'
      BY <3>3 DEF FewDeployed, AtMostOneDeployed, Deployed
    <3>5. pc' = "installApply"
      BY <2>2 DEF Goto
    <3> QED BY <3>3, <3>4, <3>5 DEF DeployedInv, StepInv
  <2> QED BY <1>12, <2>1, <2>2 DEF InstallBegin, InstallFails, Goto, GotoWith
<1>13. CASE InstallApply
  <2>1. Deployed' = Deployed /\ Deployed = {}
    BY <1>2, <1>3, <1>13 DEF InstallApply, DeployedInv, StepInv
  <2>2. /\ Works \/ Fails
        /\ pc' \in {"installRecord", "installFailed"}
    BY <1>13 DEF InstallApply, Goto
  <2>3. FewDeployed'
    BY <2>1, <2>2, OneFault, StillFew DEF DeployedInv
  <2> QED BY <2>1, <2>2, <2>3 DEF DeployedInv, StepInv
<1>14. CASE InstallFailed
  <2>1. rel.version \in Versions
    BY <1>14 DEF InstallFailed, WorkOK, RelSteps, GoodReleases
  <2>2. pc' \notin DeployedSteps
    BY <1>14 DEF InstallFailed, Goto, DeployedSteps
  <2> QED BY <1>4, <1>14, <2>1, <2>2, Elsewhere DEF InstallFailed
<1>15. CASE InstallRecord
  <2>1. rel.version \in Versions
    BY <1>15 DEF InstallRecord, WorkOK, RelSteps, GoodReleases
  <2>2. Deployed = {}
    BY <1>15 DEF InstallRecord, DeployedInv, StepInv
  <2>3. Deployed' \subseteq {rel.version}
    BY <1>1, <1>2, <1>15, <2>1, <2>2, RecordEffect DEF InstallRecord
  <2>4. FewDeployed'
    <3>1. \A u, v, w \in Deployed' : ~(u < v /\ v < w)
      BY <2>1, <2>3, RevisionsOK
    <3> QED BY <2>3, <3>1 DEF FewDeployed, AtMostOneDeployed, Deployed
  <2>5. pc' = "installFinalizer"
    BY <1>15 DEF InstallRecord, GotoWith
  <2> QED BY <2>4, <2>5 DEF DeployedInv, StepInv
<1> QED BY <1>5, <1>6, <1>7, <1>8, <1>9, <1>10, <1>11, <1>12, <1>13, <1>14, <1>15

\* The upgrade keeps DeployedInv.
LEMMA UpgradeDeployed ==
  ASSUME MaxLag = 0, MaxFaults <= 1, TypeInv, RecordInv, DeployedInv,
         \/ UpgradeBegin \/ UpgradeApply \/ UpgradeKeep \/ UpgradeFailed
         \/ UpgradeSupersede \/ UpgradeDeploy
  PROVE  DeployedInv'
<1> USE DEF TypeInv
<1>1. Current
  BY DEF RecordInv
<1>2. ASSUME UNCHANGED releases
      PROVE  Deployed' = Deployed /\ Recorded' = Recorded
  BY <1>2 DEF Deployed, Recorded
<1>3. UNCHANGED store => UNCHANGED releases
  BY DEF store
<1>4. /\ Deployed \subseteq Recorded /\ Recorded \subseteq Versions
      /\ Versions \subseteq Nat
  BY RevisionsOK
<1>5. CASE UpgradeBegin
  <2>1. Recorded \subseteq Deployed
    BY <1>5 DEF UpgradeBegin, DeployedInv, StepInv
  <2>2. CASE UpgradeFails /\ UNCHANGED store /\ (Works \/ Fails)
    BY <1>2, <1>3, <2>2, MovesOn, Elsewhere DEF UpgradeFails, DeployedSteps
  <2>3. CASE Fails /\ Goto("rollback") /\ UNCHANGED store
    <3>1. Deployed' = Deployed /\ Recorded' = Recorded
      BY <1>2, <1>3, <2>3
    <3>2. FewDeployed'
      BY <2>3, <3>1, OneFault, StillFew DEF DeployedInv
    <3>3. \A u, w \in Recorded : u = w
      BY <2>1, <2>3, OneFault DEF DeployedInv, FewDeployed, AtMostOneDeployed, Deployed
    <3>4. Restorable(Recorded)'
      BY <1>4, <3>1, <3>3 DEF Restorable
    <3> QED BY <2>3, <3>2, <3>4 DEF DeployedInv, StepInv, Goto
  <2>4. ASSUME NEW v, NEW n, v = CurrentRelease(cached), n = Latest(History(cached)) + 1,
               CanUpgrade(cached), n <= MaxVersion, Works,
               WriteRelease(n, Record("pending-upgrade", o.spec)),
               prev' = [version |-> v, status |-> cached[v].status,
                        manifest |-> cached[v].manifest],
               rel' = [version |-> n, status |-> "pending-upgrade", manifest |-> o.spec],
               Goto("upgradeApply")
        PROVE  DeployedInv'
    <3>1. Recorded = Deployed /\ Recorded # {} /\ cached = releases
      BY <1>1, <1>4, <2>1, <2>4 DEF Current, CanUpgrade, Recorded
    <3>2. v = Latest(Recorded) /\ n = v + 1
      BY <2>4, <3>1 DEF CurrentRelease, Recorded, Deployed
    <3>3. v \in Recorded /\ v \in Versions /\ \A w \in Recorded : w <= v
      BY <1>4, <3>1, <3>2, LatestIsMaximum
    <3>4. n \in Versions /\ n \notin Recorded
      BY <2>4, <3>2, <3>3, MaxVersionAssumption DEF Versions
    <3>5. Record("pending-upgrade", o.spec).status = "pending-upgrade"
      BY DEF Record
    <3>6. Deployed' = Deployed /\ Recorded' = Recorded \cup {n}
      <4>1. Written(n, Record("pending-upgrade", o.spec))
        BY <1>1, <2>4, WriteCurrent
      <4> QED BY <3>1, <3>4, <3>5, <4>1, WriteEffect
    <3>7. FewDeployed'
      BY <2>4, <3>6, OneFault, StillFew DEF DeployedInv
    <3>8. rel'.version = n /\ prev'.version = v
      BY <2>4
    <3>9. \A u, w \in Recorded \ {v} : u = w
      <4> SUFFICES ASSUME NEW u \in Recorded \ {v}, NEW w \in Recorded \ {v}, u < w
                   PROVE  FALSE
        BY <1>4
      <4>1. w < v
        BY <1>4, <3>3
      <4> QED BY <3>1, <3>3, <4>1 DEF DeployedInv, FewDeployed
    <3>10. ~Spent => Recorded \subseteq {v}
      BY <3>1, <3>3 DEF DeployedInv, FewDeployed, AtMostOneDeployed, Deployed
    <3>11. Spent' <=> Spent
      BY <2>4, OneFault
    <3>12. Upgrading'
      BY <3>1, <3>2, <3>3, <3>4, <3>6, <3>8, <3>9, <3>10, <3>11 DEF Upgrading
    <3> QED BY <2>4, <3>7, <3>12 DEF DeployedInv, StepInv, Goto
  <2> QED BY <1>5, <2>2, <2>3, <2>4 DEF UpgradeBegin, UpgradePossible
<1>6. CASE UpgradeApply
  <2>1. /\ Deployed' = Deployed /\ Recorded' = Recorded /\ UNCHANGED work
        /\ Works \/ Fails
        /\ Upgrading
    BY <1>2, <1>3, <1>6 DEF UpgradeApply, UpdateObjects, UpdateThenHookFails,
                            DeployedInv, StepInv
  <2>2. FewDeployed'
    BY <2>1, OneFault, StillFew DEF DeployedInv
  <2>3. CASE pc' = "upgradeSupersede"
    <3>1. Spent => Spent'
      BY <2>1, OneFault
    <3>2. Upgrading'
      BY <2>1, <3>1 DEF Upgrading, work
    <3> QED BY <2>2, <2>3, <3>2 DEF DeployedInv, StepInv
  <2>4. CASE pc' \in {"upgradeKeep", "upgradeFailed"}
    <3>1. ~Spent
      BY <1>6, <2>4, OneFault DEF UpgradeApply, Goto, UpdateThenHookFails
    <3>2. Undone'
      BY <1>4, <2>1, <3>1 DEF Upgrading, Undone, work
    <3> QED BY <2>2, <2>4, <3>2 DEF DeployedInv, StepInv
  <2> QED BY <1>6, <2>3, <2>4 DEF UpgradeApply, Goto
<1>7. CASE UpgradeKeep \/ UpgradeFailed
  <2>1. /\ Undone /\ UNCHANGED work
        /\ prev.version \in Nat
    BY <1>7 DEF UpgradeKeep, UpgradeFailed, DeployedInv, StepInv, LocalOK, Releases
  <2>2. /\ Recorded' \subseteq Recorded /\ Deployed' \subseteq {prev.version}
        /\ Works \/ Fails
    <3>1. CASE UpgradeKeep
      <4>1. prev.version \in Versions
        BY <3>1 DEF UpgradeKeep, WorkOK, PrevSteps, GoodReleases
      <4> QED BY <1>1, <1>2, <2>1, <3>1, <4>1, RecordEffect DEF UpgradeKeep, Undone
    <3>2. CASE UpgradeFailed
      <4>1. rel.version \in Versions
        BY <3>2 DEF UpgradeFailed, WorkOK, RelSteps, GoodReleases
      <4> QED BY <1>1, <1>2, <2>1, <3>2, <4>1, RecordEffect DEF UpgradeFailed, Undone
    <3> QED BY <1>7, <3>1, <3>2
  <2>3. FewDeployed'
    <3>1. \A u, v, w \in Deployed' : ~(u < v /\ v < w)
      BY <2>1, <2>2
    <3> QED BY <2>2, <3>1 DEF FewDeployed, AtMostOneDeployed, Deployed
  <2>4. Undone'
    BY <2>1, <2>2 DEF Undone, work
  <2>5. Restorable(Recorded)'
    BY <2>1, <2>2 DEF Undone, Restorable
  <2>6. pc' \in {"upgradeFailed", "rollback"}
    BY <1>7 DEF UpgradeKeep, UpgradeFailed, Goto
  <2> QED BY <2>3, <2>4, <2>5, <2>6 DEF DeployedInv, StepInv
<1>8. CASE UpgradeSupersede
  <2> DEFINE p == prev.version
             r == rel.version
  <2>1. p \in Versions /\ Upgrading /\ UNCHANGED work /\ pc' = "upgradeDeploy"
    BY <1>8 DEF UpgradeSupersede, WorkOK, PrevSteps, GoodReleases, DeployedInv, StepInv,
                Goto
  <2>2. r' = r /\ p' = p /\ r # p
    <3>1. r = p + 1 /\ p \in Nat
      BY <1>4, <2>1 DEF Upgrading
    <3> QED BY <2>1, <3>1 DEF work
  <2>3. RecordRelease(p, "superseded", prev.manifest)
    BY <1>8 DEF UpgradeSupersede
  <2> HIDE DEF p, r
  <2>4. \/ UNCHANGED releases /\ Works /\ p \notin Recorded
        \/ UNCHANGED releases /\ Fails
        \/ Works /\ Deployed' = Deployed \ {p} /\ Recorded' = Recorded
    BY <1>1, <2>1, <2>3, RecordEffect
  <2>5. Deployed' \subseteq Deployed /\ Recorded' = Recorded /\ (Works \/ Fails)
    BY <1>2, <2>4
  <2>6. FewDeployed'
    BY <2>5, OneFault, StillFew DEF DeployedInv
  <2>7. /\ r \notin Deployed
        /\ \A v \in Recorded \ {r} : v <= p
        /\ \A u, w \in Recorded \ {p, r} : u = w
        /\ ~Spent => Recorded \subseteq {p, r}
    BY <2>1 DEF Upgrading, p, r
  <2>8. CASE Works
    <3>1. p \notin Deployed'
      <4>1. ~Fails
        BY <2>8 DEF Works, Fails, BoundsOK
      <4> QED BY <1>2, <1>4, <2>4, <4>1
    <3>2. ASSUME NEW v \in Deployed', NEW u \in Recorded \ {r}, NEW w \in Recorded \ {r},
                 u < w
          PROVE  u = v
      <4>1. v \in Recorded \ {p, r}
        BY <1>4, <2>5, <2>7, <3>1, <3>2
      <4>2. u # p
        BY <1>4, <2>1, <2>7, <3>2
      <4> QED BY <2>7, <4>1, <4>2
    <3>3. ~Spent => Deployed' = {}
      BY <1>4, <2>5, <2>7, <3>1
    <3>4. Spent' <=> Spent
      BY <2>8, OneFault
    <3> QED BY <2>1, <2>2, <2>5, <2>6, <2>7, <3>2, <3>3, <3>4
            DEF DeployedInv, StepInv, Restorable, r
  <2>9. CASE Fails
    <3>1. ~Spent /\ Spent'
      BY <2>9, OneFault
    <3>2. \A u, w \in Recorded \ {r} : u = w
      BY <2>7, <3>1
    <3>3. Restorable(Recorded \ {r})'
      BY <1>4, <2>2, <2>5, <3>2 DEF Restorable
    <3> QED BY <2>1, <2>2, <2>5, <2>6, <2>7, <3>1, <3>3 DEF DeployedInv, StepInv, r
  <2> QED BY <2>5, <2>8, <2>9
<1>9. CASE UpgradeDeploy
  <2>1. /\ rel.version \in Versions /\ UNCHANGED work
        /\ Restorable(Recorded \ {rel.version}) /\ rel.version \notin Deployed
        /\ ~Spent => Deployed = {}
    BY <1>9 DEF UpgradeDeploy, WorkOK, RelSteps, GoodReleases, DeployedInv, StepInv
  <2>2. CASE Updates(rel.version, "deployed", rel.manifest) /\ pc' = "hook"
    <3>1. Works /\ Written(rel.version, Record("deployed", rel.manifest))
      BY <1>1, <2>2, WriteCurrent DEF Updates
    <3>2. Deployed' = Deployed \cup {rel.version}
      BY <2>1, <3>1, WriteEffect DEF Record
    <3>3. Spent' <=> Spent
      BY <3>1, OneFault
    <3>4. \A u, v \in Deployed : ~(u < v)
      BY <1>4, <2>1 DEF Restorable
    <3>5. ~Spent' => AtMostOneDeployed'
      BY <2>1, <3>2, <3>3 DEF AtMostOneDeployed, Deployed
    <3>6. \A u, v, w \in Deployed' : ~(u < v /\ v < w)
      BY <1>4, <2>1, <3>2, <3>4
    <3> QED BY <2>2, <3>5, <3>6 DEF DeployedInv, FewDeployed, StepInv
  <2>3. CASE UpdateFails(rel.version) /\ pc' = "rollback"
    <3>1. /\ Deployed' = Deployed /\ Recorded' = Recorded
          /\ (Works /\ rel.version \notin Recorded) \/ Fails
      BY <1>2, <1>3, <2>1, <2>3, RevisionsOK DEF UpdateFails
    <3>2. FewDeployed'
      BY <3>1, OneFault, StillFew DEF DeployedInv
    <3>3. Restorable(Recorded)'
      BY <2>1, <3>1, OneFault DEF Restorable
    <3> QED BY <2>3, <3>2, <3>3 DEF DeployedInv, StepInv
  <2> QED BY <1>9, <2>2, <2>3 DEF UpgradeDeploy, Goto, GotoWith
<1> QED BY <1>5, <1>6, <1>7, <1>8, <1>9

\* The rollback keeps DeployedInv.
LEMMA RollbackDeployed ==
  ASSUME MaxLag = 0, MaxFaults <= 1, TypeInv, RecordInv, DeployedInv,
         \/ RollbackBegin \/ RollbackApply \/ RollbackFailCurrent
         \/ RollbackFailTarget \/ RollbackSupersede \/ RollbackDeploy
  PROVE  DeployedInv'
<1> USE DEF TypeInv
<1>1. Current
  BY DEF RecordInv
<1>2. ASSUME UNCHANGED releases
      PROVE  Deployed' = Deployed /\ Recorded' = Recorded
  BY <1>2 DEF Deployed, Recorded
<1>3. UNCHANGED store => UNCHANGED releases
  BY DEF store
<1>4. /\ Deployed \subseteq Recorded /\ Recorded \subseteq Versions
      /\ Versions \subseteq Nat
  BY RevisionsOK
<1>5. CASE RollbackBegin
  <2>1. CASE UpgradeFails /\ UNCHANGED store /\ (Works \/ Fails)
    BY <1>2, <1>3, <2>1, MovesOn, Elsewhere DEF UpgradeFails, DeployedSteps
  <2>2. ASSUME NEW n, n = Latest(History(cached)), Works, History(cached) # {},
               (n - 1) \in History(cached), n < MaxVersion,
               WriteRelease(n + 1, Record("pending-rollback", releases[n - 1].manifest)),
               rel' = [version |-> n + 1, status |-> "pending-rollback",
                       manifest |-> releases[n - 1].manifest],
               Goto("rollbackApply")
        PROVE  DeployedInv'
    <3>1. History(cached) = Recorded
      BY <1>1 DEF Current, Recorded
    <3>2. n \in Recorded /\ n \in Versions /\ \A w \in Recorded : w <= n
      BY <1>4, <2>2, <3>1, LatestIsMaximum
    <3>3. n + 1 \in Versions /\ n + 1 \notin Recorded
      BY <2>2, <3>2, MaxVersionAssumption DEF Versions
    <3>4. Restorable(Recorded)
      BY <1>5 DEF RollbackBegin, DeployedInv, StepInv
    <3>5. \A v \in Deployed : v = n - 1
      BY <1>4, <2>2, <3>1, <3>2, <3>4 DEF Restorable
    <3>6. Written(n + 1, Record("pending-rollback", releases[n - 1].manifest))
      BY <1>1, <2>2, WriteCurrent
    <3>7. /\ Deployed' = Deployed
          /\ \A w \in Versions : w # n + 1 => releases'[w] = releases[w]
      <4>1. \A m : Record("pending-rollback", m).status = "pending-rollback"
        BY DEF Record
      <4> QED BY <1>4, <3>3, <3>6, <4>1, WriteEffect
    <3>8. \A v \in Deployed' : releases'[v].manifest = rel'.manifest
      BY <1>4, <2>2, <3>3, <3>5, <3>7
    <3>9. AtMostOneDeployed'
      BY <3>5, <3>7 DEF AtMostOneDeployed, Deployed
    <3>10. FewDeployed'
      BY <2>2, <3>7, OneFault, StillFew DEF DeployedInv
    <3> QED BY <2>2, <3>8, <3>9, <3>10 DEF DeployedInv, StepInv, Goto
  <2> QED BY <1>5, <2>1, <2>2 DEF RollbackBegin, HasPrevious
<1>6. CASE RollbackApply
  <2>1. /\ Deployed' = Deployed /\ AtMostOneDeployed
        /\ Works \/ Fails
    BY <1>2, <1>3, <1>6 DEF RollbackApply, UpdateObjects, UpdateThenHookFails,
                            DeployedInv, StepInv
  <2>2. CASE todo' = Listed(DeployedAll(cached)) /\ pc' = "rollbackSupersede"
    <3>1. Deployed' \subseteq TodoVersions'
      <4> SUFFICES ASSUME NEW w \in Deployed PROVE w \in TodoVersions'
        BY <2>1
      <4> DEFINE item == [version |-> w, manifest |-> cached[w].manifest]
      <4>1. item \in todo' /\ item.version = w
        BY <1>1, <2>2 DEF Listed, Current, Deployed
      <4> HIDE DEF item
      <4> QED BY <4>1 DEF TodoVersions
    <3>2. FewDeployed'
      BY <2>1, OneFault, StillFew DEF DeployedInv
    <3>3. AtMostOneDeployed'
      BY <2>1 DEF AtMostOneDeployed, Deployed
    <3> QED BY <2>2, <3>1, <3>2, <3>3 DEF DeployedInv, StepInv
  <2>3. CASE pc' \in {"rollbackFailCurrent", "report"}
    BY <2>1, <2>3, Elsewhere DEF DeployedSteps
  <2> QED BY <1>6, <2>2, <2>3 DEF RollbackApply, UpgradeFails, Goto, GotoWith
<1>7. CASE RollbackFailCurrent \/ RollbackFailTarget
  <2>1. Deployed' \subseteq Deployed /\ (Works \/ Fails)
    <3>1. CASE RollbackFailCurrent
      <4>1. prev.version \in Versions
        BY <3>1 DEF RollbackFailCurrent, WorkOK, PrevSteps, GoodReleases
      <4> QED BY <1>1, <1>2, <3>1, <4>1, RecordEffect DEF RollbackFailCurrent
    <3>2. CASE RollbackFailTarget
      <4>1. rel.version \in Versions
        BY <3>2 DEF RollbackFailTarget, WorkOK, RelSteps, GoodReleases
      <4> QED BY <1>1, <1>2, <3>2, <4>1, RecordEffect DEF RollbackFailTarget
    <3> QED BY <1>7, <3>1, <3>2
  <2>2. pc' \notin DeployedSteps
    BY <1>7 DEF RollbackFailCurrent, RollbackFailTarget, UpgradeFails, Goto, GotoWith,
                DeployedSteps
  <2> QED BY <2>1, <2>2, Elsewhere
<1>8. CASE RollbackSupersede
  <2>1. /\ AtMostOneDeployed
        /\ ~Spent => Deployed \subseteq TodoVersions
    BY <1>8 DEF RollbackSupersede, DeployedInv, StepInv
  <2>2. CASE todo = {} /\ Works /\ pc' = "rollbackDeploy" /\ UNCHANGED store
    <3>1. Deployed' = Deployed /\ (Spent' <=> Spent)
      BY <1>2, <1>3, <2>2, OneFault
    <3>2. FewDeployed'
      BY <2>2, <3>1, OneFault, StillFew DEF DeployedInv
    <3>3. AtMostOneDeployed'
      BY <2>1, <3>1 DEF AtMostOneDeployed, Deployed
    <3>4. ~Spent => Deployed = {}
      BY <2>1, <2>2 DEF TodoVersions
    <3> QED BY <2>2, <3>1, <3>2, <3>3, <3>4 DEF DeployedInv, StepInv
  <2>3. ASSUME NEW r \in todo, RecordRelease(r.version, "superseded", r.manifest),
               todo' = todo \ {r}, pc' = "rollbackSupersede"
        PROVE  DeployedInv'
    <3>1. r.version \in Versions
      BY DEF LocalOK, Items
    <3>2. \/ Deployed' = Deployed \ {r.version} /\ Works
          \/ Deployed' = Deployed /\ Fails
      <4>1. \/ UNCHANGED releases /\ Works /\ r.version \notin Recorded
            \/ UNCHANGED releases /\ Fails
            \/ Works /\ Deployed' = Deployed \ {r.version}
        BY <1>1, <2>3, <3>1, RecordEffect
      <4> QED BY <1>2, <1>4, <4>1
    <3>3. FewDeployed'
      BY <3>2, OneFault, StillFew DEF DeployedInv
    <3>4. AtMostOneDeployed'
      BY <2>1, <3>2 DEF AtMostOneDeployed, Deployed
    <3>5. ~Spent' => Deployed' \subseteq TodoVersions'
      BY <2>1, <2>3, <3>2, OneFault DEF TodoVersions
    <3> QED BY <2>3, <3>3, <3>4, <3>5 DEF DeployedInv, StepInv
  <2> QED BY <1>8, <2>2, <2>3 DEF RollbackSupersede, Goto
<1>9. CASE RollbackDeploy
  <2>1. /\ rel.version \in Versions /\ AtMostOneDeployed
        /\ ~Spent => Deployed = {}
    BY <1>9 DEF RollbackDeploy, WorkOK, RelSteps, GoodReleases, DeployedInv, StepInv
  <2>2. /\ Deployed' = Deployed \/ Deployed' = Deployed \cup {rel.version}
        /\ Works \/ Fails
    BY <1>1, <1>2, <1>9, <2>1, RecordEffect DEF RollbackDeploy
  <2>3. ~Spent' => AtMostOneDeployed'
    BY <2>1, <2>2, OneFault DEF AtMostOneDeployed, Deployed
  <2>4. \A u, v, w \in Deployed' : ~(u < v /\ v < w)
    <3>1. \A u, w \in Deployed : u = w
      BY <2>1 DEF AtMostOneDeployed, Deployed
    <3> SUFFICES ASSUME NEW u \in Deployed', NEW v \in Deployed', NEW w \in Deployed',
                        u < v, v < w
                 PROVE  FALSE
      OBVIOUS
    <3>2. u # v /\ v # w /\ u # w
      <4>1. u \in Nat /\ v \in Nat /\ w \in Nat
        BY <1>4, <2>1, <2>2
      <4> QED BY <4>1
    <3> QED BY <2>2, <3>1, <3>2
  <2>5. pc' = "report"
    BY <1>9 DEF RollbackDeploy, UpgradeFails, GotoWith
  <2> QED BY <2>3, <2>4, <2>5 DEF DeployedInv, FewDeployed, StepInv
<1> QED BY <1>5, <1>6, <1>7, <1>8, <1>9

\* Every step keeps DeployedInv.
LEMMA DeployedStep ==
  ASSUME MaxLag = 0, MaxFaults <= 1, TypeInv, RecordInv, DeployedInv, [Next]_vars
  PROVE  DeployedInv'
<1> USE DEF TypeInv
<1>1. ASSUME UNCHANGED store, Works \/ Fails, pc' \notin DeployedSteps
      PROVE  DeployedInv'
  BY <1>1, Elsewhere DEF store, Deployed
<1>2. CASE \/ ReconcileStart \/ ReportStatus \/ DeletionStatus \/ CleanupRelease
           \/ RemoveFinalizer \/ InstallFinalizer \/ ReleaseHook \/ ReconcileRelease
  <2>1. pc' \notin DeployedSteps
    BY <1>2 DEF ReconcileStart, ReportStatus, DeletionStatus, CleanupRelease,
       RemoveFinalizer, InstallFinalizer, ReleaseHook, ReconcileRelease, AddFinalizer,
       Return, Goto, GotoWith, DeployedSteps
  <2>2. UNCHANGED store /\ (Works \/ Fails)
    BY <1>2 DEF ReconcileStart, ReportStatus, DeletionStatus, CleanupRelease,
       RemoveFinalizer, InstallFinalizer, ReleaseHook, ReconcileRelease, AddFinalizer,
       Accepted, Rejected, Works
  <2> QED BY <1>1, <2>1, <2>2
<1>3. CASE EnsureFinalizer
  <2>1. UNCHANGED store /\ (Works \/ Fails)
    BY <1>3 DEF EnsureFinalizer, AddFinalizer, Accepted, Rejected
  <2>2. CASE pc' \in {"idle", "reconcile"}
    BY <1>1, <2>1, <2>2 DEF DeployedSteps
  <2>3. CASE pc' = "upgrade"
    <3>1. Recorded' = Recorded /\ Deployed' = Deployed /\ Recorded \subseteq Deployed
      BY <1>3, <2>1 DEF EnsureFinalizer, DeployedInv, StepInv, store, Recorded, Deployed
    <3>2. FewDeployed'
      BY <2>1, <3>1, OneFault, StillFew DEF DeployedInv
    <3> QED BY <2>3, <3>1, <3>2 DEF DeployedInv, StepInv
  <2> QED BY <1>3, <2>2, <2>3 DEF EnsureFinalizer, AddFinalizer, Return, NextOperation
<1>4. CASE \/ UninstallBegin \/ UninstallDelete \/ UninstallPurge
           \/ SyncHistory \/ SyncCleanup \/ SyncDeployed \/ SyncCandidate
           \/ InstallBegin \/ InstallApply \/ InstallFailed \/ InstallRecord
  BY <1>4, InstallDeployed
<1>5. CASE \/ UpgradeBegin \/ UpgradeApply \/ UpgradeKeep \/ UpgradeFailed
           \/ UpgradeSupersede \/ UpgradeDeploy
  BY <1>5, UpgradeDeployed
<1>6. CASE \/ RollbackBegin \/ RollbackApply \/ RollbackFailCurrent
           \/ RollbackFailTarget \/ RollbackSupersede \/ RollbackDeploy
  BY <1>6, RollbackDeployed
<1>7. CASE GarbageCollect
  <2>1. UNCHANGED releases \/ \E v \in Versions : Written(v, NoRelease)
    BY <1>7, WriteCurrent DEF GarbageCollect, RecordInv, store
  <2> QED BY <1>7, <2>1, OthersStep DEF GarbageCollect, local
<1>8. CASE \/ UserEdit \/ UserDelete \/ UserDrift \/ CRGone \/ ObjectGone \/ WatchDeliver
           \/ UNCHANGED vars
  <2>1. UNCHANGED <<pc, todo, prev, rel, faults, releases>>
    BY <1>8 DEF UserEdit, UserDelete, UserDrift, CRGone, ObjectGone, WatchDeliver, vars,
                Stale, local, work, store
  <2> QED BY <2>1, OthersStep
<1>9. CASE Crash
  <2>1. Works /\ Deployed' = Deployed /\ pc' \notin DeployedSteps
    BY <1>9 DEF Crash, Works, Return, Deployed, DeployedSteps
  <2> QED BY <2>1, Elsewhere
<1> QED BY <1>2, <1>3, <1>4, <1>5, <1>6, <1>7, <1>8, <1>9
        DEF Next, Reconciler, Environment

\* DeployedInv holds in every reachable state if the informer does not lag and
\* at most one request fails.
THEOREM DeployedInvariant ==
  ASSUME MaxLag = 0, MaxFaults <= 1
  PROVE  Spec => []DeployedInv
<1>1. Init => DeployedInv
  <2> SUFFICES ASSUME Init PROVE DeployedInv
    OBVIOUS
  <2>1. Deployed = {} /\ pc = "idle"
    BY DEF Init, EmptyStore, NoRelease, Deployed, DeployedAll
  <2> QED BY <2>1 DEF DeployedInv, FewDeployed, StepInv, AtMostOneDeployed, Deployed
<1>2. TypeInv /\ RecordInv /\ DeployedInv /\ [Next]_vars => DeployedInv'
  BY DeployedStep
<1> QED BY <1>1, <1>2, TypeInvariant, RecordInvariant, PTL DEF Spec

\* With an informer that does not lag and no failing request, upgrades and
\* rollbacks leave at most one revision deployed, wherever the operator
\* crashes and whatever is edited, drifts or is garbage-collected meanwhile.
THEOREM OneDeployed ==
  ASSUME MaxLag = 0, MaxFaults = 0
  PROVE  Spec => []AtMostOneDeployed
<1>1. TypeInv /\ DeployedInv => AtMostOneDeployed
  BY DEF TypeInv, BoundsOK, DeployedInv, FewDeployed, Spent
<1>2. MaxFaults <= 1
  OBVIOUS
<1> QED BY <1>1, <1>2, TypeInvariant, DeployedInvariant, PTL

\* With an informer that does not lag and at most one failing request, a
\* rollback goes back to the revision that is recorded as deployed, after any
\* number of restarts, edits and drifts.
THEOREM RollsBackToDeployed ==
  ASSUME MaxLag = 0, MaxFaults <= 1
  PROVE  Spec => []RollbackRestores
<1>1. TypeInv /\ DeployedInv => RollbackRestores
  <2> SUFFICES ASSUME TypeInv, DeployedInv, pc = "rollbackApply", Deployed # {}
               PROVE  rel.manifest = releases[Latest(Deployed)].manifest
    BY DEF RollbackRestores, Deployed
  <2>1. Latest(Deployed) \in Deployed
    BY RevisionsOK, LatestIsMaximum
  <2> QED BY <2>1 DEF DeployedInv, StepInv
<1> QED BY <1>1, TypeInvariant, DeployedInvariant, PTL

-----------------------------------------------------------------------------
(* The last record of an uninstalled release, with an informer that does   *)
(* not lag                                                                 *)

\* A CR that is gone stays gone.
LEMMA GoneStays ==
  ASSUME TypeInv, [Next]_vars, cr'.phase # "absent"
  PROVE  cr.phase # "absent"
<1> USE DEF TypeInv
<1>1. CASE UNCHANGED cr
  BY <1>1
<1>2. CASE InternalStep
  BY <1>1, <1>2, InternalMoves DEF InternalMove, crVars
<1>3. CASE \/ ReconcileStart \/ ReportStatus \/ DeletionStatus \/ ReleaseHook
           \/ RemoveFinalizer \/ InstallFinalizer \/ EnsureFinalizer
  BY <1>1, <1>3 DEF ReconcileStart, ReportStatus, DeletionStatus, ReleaseHook, crVars,
     RemoveFinalizer, InstallFinalizer, EnsureFinalizer, AddFinalizer, Accepted
<1>4. CASE \/ UserEdit \/ UserDelete \/ CRGone \/ UserDrift \/ ObjectGone
           \/ GarbageCollect \/ WatchDeliver \/ Crash \/ UNCHANGED vars
  BY <1>1, <1>4 DEF UserEdit, UserDelete, CRGone, UserDrift, ObjectGone,
     GarbageCollect, WatchDeliver, Crash, vars, crVars
<1> QED BY <1>2, <1>3, <1>4 DEF Next, Reconciler, Environment, InternalStep

\* The release an uninstall works on is the last one recorded.
Last == /\ prev.version \in Recorded /\ \A v \in Recorded : v <= prev.version
        /\ releases[prev.version].manifest = prev.manifest

\* Its objects are gone or being deleted.
Deleted == \A x \in ObjectsOf(prev.manifest) \ Keep :
             cluster[x] \in {"absent", "terminating"}

\* As long as an uninstall leaves records it leaves the last one, and from the
\* purge on the objects of that one are deleted.
UninstallInv ==
  cr.phase # "absent" =>
    /\ pc \in {"deleteObjects", "purge"} => Recorded = {} \/ Last
    /\ pc = "purge" => Deleted

\* Writing the last record with the same manifest leaves it the last.
LEMMA LastWritten ==
  ASSUME TypeInv, NEW v \in Recorded, NEW s, Written(v, Record(s, releases[v].manifest)),
         s # "none"
  PROVE  Recorded' = Recorded /\ releases'[v].manifest = releases[v].manifest
<1>1. v \in Versions /\ Record(s, releases[v].manifest).status = s
  BY DEF Recorded, History, Record
<1>2. Recorded' = Recorded
  BY <1>1, WriteEffect
<1>3. releases'[v] = Record(s, releases[v].manifest)
  BY <1>1 DEF Written, TypeInv, StoreOK, GoodStores
<1> QED BY <1>2, <1>3 DEF Record

\* What others do brings no deleted object back.
LEMMA DeletedStays ==
  ASSUME TypeInv, UserDrift \/ ObjectGone, Deleted, UNCHANGED prev
  PROVE  Deleted'
<1>1. ObjectsOf(prev.manifest) \subseteq Objects
  BY RendersAssumption DEF ObjectsOf
<1> QED BY <1>1, ObjectsAssumption DEF TypeInv, ObjectsOK, UserDrift, ObjectGone, Deleted

\* Every step keeps UninstallInv.
LEMMA UninstallStep ==
  ASSUME MaxLag = 0, TypeInv, RecordInv, UninstallInv, [Next]_vars
  PROVE  UninstallInv'
<1> SUFFICES ASSUME cr'.phase # "absent", pc' \in {"deleteObjects", "purge"}
             PROVE  /\ Recorded' = {} \/ Last'
                    /\ pc' = "purge" => Deleted'
  BY DEF UninstallInv
<1> USE DEF TypeInv
<1>1. /\ cr.phase # "absent" /\ Current
      /\ pc \in {"deleteObjects", "purge"} => Recorded = {} \/ Last
      /\ pc = "purge" => Deleted
  BY GoneStays DEF UninstallInv, RecordInv
<1>2. Recorded \subseteq Versions /\ Versions \subseteq Nat
  BY RevisionsOK
<1>3. UNCHANGED <<prev, releases>> => (Last => Last') /\ Recorded' = Recorded
  BY DEF Last, Recorded
<1>4. CASE UninstallBegin
  <2>1. CASE UninstallFails \/ UninstallEnds(ReleaseNotFound)
    BY <2>1, UninstallMoves
  <2>2. ASSUME NEW v, v = Latest(History(cached)), History(cached) # {},
               RecordRelease(v, "uninstalling", cached[v].manifest),
               prev' = [version |-> v, status |-> "uninstalling",
                        manifest |-> cached[v].manifest],
               Goto("deleteObjects")
        PROVE  Last' /\ pc' # "purge"
    <3>1. v \in Recorded /\ \A w \in Recorded : w <= v
      BY <1>1, <1>2, <2>2, LatestIsMaximum DEF Current, Recorded
    <3>2. prev'.version = v /\ prev'.manifest = releases[v].manifest
      BY <1>1, <2>2 DEF Current
    <3>3. Recorded' = Recorded /\ releases'[v].manifest = releases[v].manifest
      <4>1. CASE UNCHANGED store
        BY <4>1 DEF store, Recorded
      <4>2. CASE Written(v, Record("uninstalling", releases[v].manifest))
        BY <3>1, <4>2, LastWritten
      <4> QED BY <1>1, <2>2, <4>1, <4>2, WriteCurrent DEF Current
    <3> QED BY <2>2, <3>1, <3>2, <3>3 DEF Last, Goto
  <2> QED BY <1>4, <2>1, <2>2 DEF UninstallBegin
<1>5. CASE UninstallDelete
  <2>1. CASE UninstallFails
    BY <2>1, UninstallMoves
  <2>2. CASE DeleteObjects(Renders[prev.manifest] \ Keep)
    <3>1. Deleted'
      BY <1>5, <2>2, RendersAssumption DEF UninstallDelete, ObjectsOK, DeleteObjects, Delete,
         Deleted, ObjectsOf, work
    <3> QED BY <1>1, <1>3, <1>5, <3>1 DEF UninstallDelete, store, work
  <2> QED BY <1>5, <2>1, <2>2 DEF UninstallDelete
<1>6. CASE UninstallPurge
  <2>1. CASE UninstallFails \/ UninstallEnds(Uninstalled)
    BY <2>1, UninstallMoves
  <2>2. ASSUME NEW r \in todo, \A w \in todo : r.version <= w.version,
               WriteRelease(r.version, NoRelease)
        PROVE  Recorded' = {} \/ Last'
    <3>1. /\ r.version \in Versions /\ Written(r.version, NoRelease)
          /\ Recorded \subseteq TodoVersions
      BY <1>1, <1>6, <2>2, WriteCurrent DEF UninstallPurge, LocalOK, Items, RecordInv, Recorded
    <3>2. /\ Recorded' = Recorded \ {r.version}
          /\ \A v \in Versions : v # r.version => releases'[v] = releases[v]
      BY <3>1, WriteEffect DEF NoRelease
    <3>3. ASSUME Recorded' # {}
          PROVE  Last /\ prev.version # r.version
      <4>1. PICK v \in Recorded : v # r.version
        BY <3>2, <3>3
      <4>2. Last
        BY <1>1, <1>6, <4>1 DEF UninstallPurge
      <4>3. PICK w \in todo : w.version = v
        BY <3>1, <4>1 DEF TodoVersions
      <4>4. r.version <= v /\ v <= prev.version
        BY <2>2, <4>1, <4>2, <4>3 DEF Last
      <4>5. v \in Nat /\ r.version \in Nat
        BY <1>2, <3>1, <4>1
      <4> QED BY <4>1, <4>2, <4>4, <4>5
    <3>4. UNCHANGED prev
      BY <1>6 DEF UninstallPurge
    <3> QED BY <1>2, <3>2, <3>3, <3>4 DEF Last
  <2>3. Deleted'
    BY <1>1, <1>6 DEF UninstallPurge, Deleted, objects
  <2> QED BY <1>6, <2>1, <2>2, <2>3 DEF UninstallPurge
<1>7. CASE UserDrift \/ ObjectGone
  <2>1. UNCHANGED <<pc, prev, releases>>
    BY <1>7 DEF UserDrift, ObjectGone, local, store
  <2> QED BY <1>1, <1>3, <1>7, <2>1, DeletedStays
<1>8. CASE UserEdit \/ UserDelete \/ CRGone \/ WatchDeliver \/ UNCHANGED vars
  <2>1. UNCHANGED <<pc, prev, releases, cluster>>
    BY <1>8 DEF UserEdit, UserDelete, CRGone, WatchDeliver, vars, Stale, local, work, store,
                objects
  <2> QED BY <1>1, <1>3, <2>1 DEF Deleted
<1>9. CASE GarbageCollect
  BY <1>1, <1>9 DEF GarbageCollect
<1>10. CASE \/ ReconcileStart \/ ReportStatus \/ DeletionStatus \/ CleanupRelease
            \/ RemoveFinalizer \/ InstallFinalizer \/ EnsureFinalizer \/ ReleaseHook
            \/ ReconcileRelease \/ Crash
  BY <1>10 DEF ReconcileStart, ReportStatus, DeletionStatus, CleanupRelease,
     RemoveFinalizer, InstallFinalizer, EnsureFinalizer, ReleaseHook, ReconcileRelease,
     Crash, AddFinalizer, NextOperation, Return, Goto, GotoWith
<1>11. CASE SyncHistory \/ SyncCleanup \/ SyncDeployed \/ SyncCandidate
  BY <1>11, MovesOn DEF SyncHistory, SyncCleanup, SyncDeployed, SyncCandidate,
     NextOperation, Goto, GotoWith
<1>12. CASE \/ InstallBegin \/ InstallApply \/ InstallFailed \/ InstallRecord
            \/ UpgradeBegin \/ UpgradeApply \/ UpgradeKeep \/ UpgradeFailed
            \/ UpgradeSupersede \/ UpgradeDeploy
  BY <1>12, MovesOn DEF InstallBegin, InstallApply, InstallFailed, InstallRecord,
     InstallFails, UpgradeBegin, UpgradeApply, UpgradeKeep, UpgradeFailed,
     UpgradeSupersede, UpgradeDeploy, UpgradeFails
<1>13. CASE \/ RollbackBegin \/ RollbackApply \/ RollbackFailCurrent
            \/ RollbackFailTarget \/ RollbackSupersede \/ RollbackDeploy
  BY <1>13, MovesOn DEF RollbackBegin, RollbackApply, RollbackFailCurrent,
     RollbackFailTarget, RollbackSupersede, RollbackDeploy, UpgradeFails
<1> QED BY <1>4, <1>5, <1>6, <1>7, <1>8, <1>9, <1>10, <1>11, <1>12, <1>13
        DEF Next, Reconciler, Environment

\* With an informer that does not lag, an uninstall removes the last record of
\* the release only when the objects of its manifest are gone or being
\* deleted: whatever request fails, wherever the operator is restarted and
\* whoever changes objects meanwhile, a purge that stops in between leaves the
\* record from which the next uninstall deletes them again.
THEOREM RecordsAfterObjects ==
  ASSUME MaxLag = 0
  PROVE  Spec => LastRecordAfterObjects
<1>1. Init => UninstallInv
  BY DEF Init, UninstallInv
<1>2. TypeInv /\ RecordInv /\ UninstallInv /\ [Next]_vars => UninstallInv'
  BY UninstallStep
<1>3. ASSUME TypeInv, UninstallInv, pc = "purge", cr.phase # "absent",
             History(releases) # {}
      PROVE  \A x \in ObjectsOf(releases[Latest(History(releases))].manifest) \ Keep :
               cluster[x] \in {"absent", "terminating"}
  <2>1. Last /\ Deleted
    BY <1>3 DEF UninstallInv, Recorded
  <2>2. Latest(Recorded) = prev.version
    <3>1. Latest(Recorded) \in Recorded /\ \A w \in Recorded : w <= Latest(Recorded)
      BY <1>3, LatestIsMaximum, RevisionsOK DEF Recorded
    <3> QED BY <1>3, <2>1, <3>1, RevisionsOK DEF Last
  <2> QED BY <2>1, <2>2 DEF Last, Deleted, Recorded
<1>4. TypeInv /\ UninstallInv /\ [Next]_vars
        => [pc = "purge" /\ cr.phase # "absent" /\ History(releases) # {}
            /\ History(releases') = {}
              => \A x \in ObjectsOf(releases[Latest(History(releases))].manifest) \ Keep :
                   cluster[x] \in {"absent", "terminating"}]_vars
  BY <1>3
<1> QED BY <1>1, <1>2, <1>4, TypeInvariant, RecordInvariant, PTL
        DEF Spec, LastRecordAfterObjects
=============================================================================
