-------------------------- MODULE HelmSafetyProofs --------------------------
(***************************************************************************)
(* The safety properties of the Helm operator that hold for every set of   *)
(* specs and objects and every bound: the finalizer theorems need nothing  *)
(* else, the two about release records need an informer that does not lag. *)
(***************************************************************************)
EXTENDS HelmOperatorProofs

-----------------------------------------------------------------------------
(* How control, status and the CR move. *)

\* The steps that write neither the CR nor its status and do not report
\* success.
InternalStep ==
  \/ UninstallBegin \/ UninstallDelete \/ UninstallPurge \/ CleanupRelease
  \/ SyncHistory \/ SyncCleanup \/ SyncDeployed \/ SyncCandidate
  \/ InstallBegin \/ InstallApply \/ InstallFailed \/ InstallRecord
  \/ UpgradeBegin \/ UpgradeApply \/ UpgradeKeep \/ UpgradeFailed
  \/ UpgradeSupersede \/ UpgradeDeploy
  \/ RollbackBegin \/ RollbackApply \/ RollbackFailCurrent
  \/ RollbackFailTarget \/ RollbackSupersede \/ RollbackDeploy
  \/ ReconcileRelease

\* Steps after a successful uninstall, and steps only a CR with the finalizer
\* gets to.
DeletionSteps == {"deletionStatus", "cleanup", "removeFinalizer"}

FinalizerSteps == {"upgrade", "upgradeApply", "upgradeSupersede",
                   "upgradeDeploy", "reconcile", "hook"}

\* The reconciler goes on, with its copy of the CR, without reporting success.
GoesOn == /\ UNCHANGED <<o, fresh>>
          /\ status'.deployed = "true" => status.deployed = "true"

\* Going on at l with a status built for a failure, or with none.
LEMMA MovesOn ==
  ASSUME LocalOK
  PROVE  /\ \A l : Goto(l) => GoesOn /\ pc' = l
         /\ \A l, r : GotoWith(l, ReleaseFailed(r)) => GoesOn /\ pc' = l
         /\ SyncFails => GoesOn /\ pc' = "report"
BY DEF LocalOK, CRStatuses, GoesOn, Goto, GotoWith, ReleaseFailed, Irreconcilable,
       SyncFails

\* An uninstall that ends well goes on with the deletion only for a CR that is
\* being deleted.
LEMMA UninstallMoves ==
  ASSUME LocalOK,
         \/ UninstallFails
         \/ UninstallEnds(Uninstalled)
         \/ UninstallEnds(ReleaseNotFound)
  PROVE  /\ GoesOn
         /\ \/ pc' = "report"
            \/ pc' = "deletionStatus" /\ o.phase # "live" /\ ~UninstallFails
<1>1. CASE o.phase = "live" \/ UninstallFails
  BY <1>1, MovesOn DEF UninstallFails, UninstallEnds
<1>2. CASE o.phase # "live" /\ UninstallEnds(ReleaseNotFound) /\ ~UninstallFails
  BY <1>2 DEF UninstallEnds, ReleaseNotFound, WithWait, ReleaseFailed, GotoWith,
              GoesOn, LocalOK, CRStatuses
<1>3. CASE o.phase # "live" /\ UninstallEnds(Uninstalled) /\ ~UninstallFails
  BY <1>3 DEF UninstallEnds, Uninstalled, WithWait, ReleaseFailed, GotoWith,
              GoesOn, LocalOK, CRStatuses
<1> QED BY <1>1, <1>2, <1>3

\* Where the steps of an internal step lead.
InternalMove ==
  /\ UNCHANGED crVars
  /\ \/ Return
     \/ /\ GoesOn
        /\ pc' \in FinalizerSteps => pc \in FinalizerSteps \/ o.finalizer
        /\ pc' = "deletionStatus" => /\ o.phase # "live"
                                     /\ UninstallBegin \/ UninstallPurge
        /\ pc' = "removeFinalizer" => CleanupRelease
        /\ pc' # "cleanup"

\* An internal step leaves the CR alone and reaches the deletion and the
\* upgrade steps only along the paths of Reconcile.
LEMMA InternalMoves ==
  ASSUME TypeInv, InternalStep
  PROVE  InternalMove
<1> USE DEF TypeInv
<1>1. ASSUME NEW l \in Steps \ (FinalizerSteps \cup DeletionSteps),
             GoesOn, pc' = l, UNCHANGED crVars
      PROVE  InternalMove
  BY <1>1 DEF InternalMove, FinalizerSteps, DeletionSteps
<1>2. CASE UninstallBegin
  <2>1. CASE Goto("deleteObjects")
    BY <1>1, <1>2, <2>1, MovesOn DEF UninstallBegin, Steps, FinalizerSteps, DeletionSteps
  <2>2. CASE UninstallEnds(ReleaseNotFound) \/ UninstallFails
    BY <1>2, <2>2, UninstallMoves DEF UninstallBegin, InternalMove, FinalizerSteps
  <2> QED BY <1>2, <2>1, <2>2 DEF UninstallBegin
<1>3. CASE UninstallDelete
  <2>1. CASE Goto("purge")
    BY <1>1, <1>3, <2>1, MovesOn DEF UninstallDelete, Steps, FinalizerSteps, DeletionSteps
  <2>2. CASE UninstallFails
    BY <1>3, <2>2, UninstallMoves DEF UninstallDelete, InternalMove, FinalizerSteps
  <2> QED BY <1>3, <2>1, <2>2 DEF UninstallDelete
<1>4. CASE UninstallPurge
  <2>1. CASE Goto("purge")
    BY <1>1, <1>4, <2>1, MovesOn DEF UninstallPurge, Steps, FinalizerSteps, DeletionSteps
  <2>2. CASE UninstallEnds(Uninstalled) \/ UninstallFails
    BY <1>4, <2>2, UninstallMoves DEF UninstallPurge, InternalMove, FinalizerSteps
  <2> QED BY <1>4, <2>1, <2>2 DEF UninstallPurge
<1>5. CASE CleanupRelease
  BY <1>5, MovesOn DEF CleanupRelease, InternalMove, FinalizerSteps
<1>6. CASE SyncHistory \/ SyncCleanup
  BY <1>1, <1>6, MovesOn DEF SyncHistory, SyncCleanup, Steps, FinalizerSteps, DeletionSteps
<1>7. CASE SyncDeployed
  <2>1. GoesOn /\ pc' \in {"install", "candidate"}
    BY <1>7 DEF SyncDeployed, Goto, GotoWith, Irreconcilable, GoesOn, LocalOK, CRStatuses
  <2> QED BY <1>1, <1>7, <2>1 DEF SyncDeployed, Steps, FinalizerSteps, DeletionSteps
<1>8. CASE SyncCandidate
  <2>1. CASE SyncFails
    BY <1>1, <1>8, <2>1, MovesOn DEF SyncCandidate, Steps, FinalizerSteps, DeletionSteps
  <2>2. CASE ~SyncFails
    <3>1. /\ GoesOn
          /\ pc' = "finalizer" \/ (o.finalizer /\ pc' \in {"upgrade", "reconcile"})
      BY <1>8, <2>2 DEF SyncCandidate, NextOperation, GotoWith, Irreconcilable, GoesOn,
                        LocalOK, CRStatuses
    <3> QED BY <1>8, <3>1 DEF SyncCandidate, InternalMove, FinalizerSteps
  <2> QED BY <2>1, <2>2
<1>9. CASE InstallBegin \/ InstallApply \/ InstallFailed \/ InstallRecord
  BY <1>1, <1>9, MovesOn DEF InstallBegin, InstallApply, InstallFailed,
     InstallRecord, InstallFails, Steps, FinalizerSteps, DeletionSteps
<1>10. CASE UpgradeBegin \/ UpgradeApply
  <2>1. CASE UpgradeFails \/ Goto("rollback") \/ Goto("upgradeKeep") \/ Goto("upgradeFailed")
    BY <1>1, <1>10, <2>1, MovesOn DEF UpgradeBegin, UpgradeApply, UpgradeFails,
       Steps, FinalizerSteps, DeletionSteps
  <2>2. CASE Goto("upgradeApply") \/ Goto("upgradeSupersede")
    BY <1>10, <2>2, MovesOn DEF UpgradeBegin, UpgradeApply, InternalMove, FinalizerSteps
  <2> QED BY <1>10, <2>1, <2>2 DEF UpgradeBegin, UpgradeApply
<1>11. CASE UpgradeKeep \/ UpgradeFailed
  BY <1>1, <1>11, MovesOn DEF UpgradeKeep, UpgradeFailed, Steps, FinalizerSteps, DeletionSteps
<1>12. CASE UpgradeSupersede
  BY <1>12, MovesOn DEF UpgradeSupersede, InternalMove, FinalizerSteps
<1>13. CASE UpgradeDeploy
  BY <1>13, MovesOn DEF UpgradeDeploy, InternalMove, FinalizerSteps
<1>14. CASE RollbackBegin \/ RollbackApply
  BY <1>1, <1>14, MovesOn DEF RollbackBegin, RollbackApply, UpgradeFails, Steps,
     FinalizerSteps, DeletionSteps
<1>15. CASE \/ RollbackFailCurrent \/ RollbackFailTarget \/ RollbackSupersede
            \/ RollbackDeploy
  BY <1>1, <1>15, MovesOn DEF RollbackFailCurrent, RollbackFailTarget,
     RollbackSupersede, RollbackDeploy, UpgradeFails, Steps, FinalizerSteps, DeletionSteps
<1>16. CASE ReconcileRelease
  <2>1. GoesOn /\ pc' \in {"hook", "report"}
    BY <1>16 DEF ReconcileRelease, GotoWith, ReleaseFailed, GoesOn, LocalOK, CRStatuses
  <2> QED BY <1>16, <2>1 DEF ReconcileRelease, InternalMove, FinalizerSteps
<1> QED BY <1>2, <1>3, <1>4, <1>5, <1>6, <1>7, <1>8, <1>9, <1>10, <1>11, <1>12,
           <1>13, <1>14, <1>15, <1>16 DEF InternalStep

-----------------------------------------------------------------------------
(* The finalizer *)

\* The reconciler's copy of the CR is the CR itself unless it is stale, and
\* what it is about to report is covered by the finalizer of its copy.
FinalizerInv ==
  /\ DeployedImpliesFinalizer
  /\ fresh => o = cr
  /\ o.phase = "live" /\ status.deployed = "true" => o.finalizer
  /\ pc \in DeletionSteps => o.phase # "live"
  /\ pc \in FinalizerSteps => o.finalizer

\* Return keeps FinalizerInv if the CR and its status still agree.
LEMMA ReturnFinalizer ==
  ASSUME Return, DeployedImpliesFinalizer'
  PROVE  FinalizerInv'
BY DEF Return, FinalizerInv, NoCR, DeletionSteps, FinalizerSteps

\* Every step keeps FinalizerInv.
LEMMA FinalizerStep ==
  ASSUME TypeInv, FinalizerInv, [Next]_vars
  PROVE  FinalizerInv'
<1> USE DEF TypeInv
<1>1. ASSUME UNCHANGED crVars
      PROVE  DeployedImpliesFinalizer'
  BY <1>1 DEF FinalizerInv, DeployedImpliesFinalizer, crVars
<1>2. CASE ReconcileStart
  <2>1. cr' = cr /\ o' = cr /\ status' = crStatus /\ pc' \in {"uninstall", "sync"}
    BY <1>2 DEF ReconcileStart, crVars
  <2> QED BY <1>1, <1>2, <2>1 DEF ReconcileStart, FinalizerInv, DeployedImpliesFinalizer,
                                  DeletionSteps, FinalizerSteps
<1>3. CASE ReportStatus
  <2>1. DeployedImpliesFinalizer'
    BY <1>3 DEF ReportStatus, Accepted, FinalizerInv, DeployedImpliesFinalizer
  <2> QED BY <1>3, <2>1, ReturnFinalizer DEF ReportStatus
<1>4. CASE DeletionStatus
  <2>1. DeployedImpliesFinalizer'
    BY <1>4 DEF DeletionStatus, Accepted, FinalizerInv, DeployedImpliesFinalizer
  <2>2. CASE Return
    BY <2>1, <2>2, ReturnFinalizer
  <2>3. CASE Goto("cleanup") \/ Goto("removeFinalizer")
    BY <1>4, <2>1, <2>3 DEF DeletionStatus, FinalizerInv, Goto, DeletionSteps, FinalizerSteps
  <2> QED BY <1>4, <2>2, <2>3 DEF DeletionStatus
<1>5. CASE RemoveFinalizer
  <2>1. DeployedImpliesFinalizer'
    <3>1. CASE Accepted
      <4>1. cr.phase # "live"
        BY <1>5, <3>1 DEF RemoveFinalizer, Accepted, FinalizerInv, DeletionSteps
      <4> QED BY <1>5, <4>1 DEF RemoveFinalizer, DeployedImpliesFinalizer, CROK, CRs,
                               FinalizerInv
    <3>2. CASE UNCHANGED cr
      BY <1>1, <1>5, <3>2 DEF RemoveFinalizer, crVars
    <3> QED BY <1>5, <3>1, <3>2 DEF RemoveFinalizer
  <2> QED BY <1>5, <2>1, ReturnFinalizer DEF RemoveFinalizer
<1>6. ASSUME NEW l \in {"hook", NextOperation}, AddFinalizer(l)
      PROVE  FinalizerInv'
  <2>1. CASE Return
    BY <1>1, <1>6, <2>1, ReturnFinalizer DEF AddFinalizer, crVars, Return, Accepted,
       FinalizerInv, DeployedImpliesFinalizer, CROK, CRs
  <2>2. CASE ~Return
    <3>1. /\ cr' = [cr EXCEPT !.finalizer = TRUE] /\ o' = cr' /\ pc' = l
          /\ UNCHANGED <<fresh, status, crStatus>>
      BY <1>6, <2>2 DEF AddFinalizer
    <3>2. cr'.finalizer
      BY <3>1 DEF CROK, CRs
    <3>3. l \notin DeletionSteps
      BY DEF NextOperation, DeletionSteps
    <3> QED BY <3>1, <3>2, <3>3 DEF FinalizerInv, DeployedImpliesFinalizer
  <2> QED BY <2>1, <2>2
<1>7. CASE ReleaseHook
  <2>1. CASE Return
    BY <1>1, <1>7, <2>1, ReturnFinalizer DEF ReleaseHook
  <2>2. CASE ~Return
    <3>1. o.finalizer /\ pc' = "report" /\ UNCHANGED <<o, fresh, crVars>>
      BY <1>7, <2>2 DEF ReleaseHook, GotoWith, FinalizerInv, FinalizerSteps
    <3> QED BY <1>1, <3>1 DEF FinalizerInv, DeletionSteps, FinalizerSteps, crVars
  <2> QED BY <2>1, <2>2
<1>8. CASE InternalStep
  <2>1. InternalMove
    BY <1>8, InternalMoves
  <2>2. DeployedImpliesFinalizer'
    BY <1>1, <2>1 DEF InternalMove
  <2>3. CASE ~Return
    <3>1. pc' \in DeletionSteps => o.phase # "live"
      BY <2>1, <2>3 DEF InternalMove, DeletionSteps, FinalizerInv, CleanupRelease
    <3>2. pc' \in FinalizerSteps => o.finalizer
      BY <2>1, <2>3 DEF InternalMove, FinalizerInv
    <3> QED BY <2>1, <2>2, <2>3, <3>1, <3>2 DEF InternalMove, GoesOn, FinalizerInv, crVars
  <2> QED BY <2>2, <2>3, ReturnFinalizer
<1>9. CASE UserEdit \/ UserDelete \/ CRGone
  <2>1. DeployedImpliesFinalizer'
    BY <1>9 DEF UserEdit, UserDelete, CRGone, FinalizerInv, DeployedImpliesFinalizer,
                CROK, CRs
  <2> QED BY <1>9, <2>1 DEF UserEdit, UserDelete, CRGone, Stale, FinalizerInv
<1>10. CASE UserDrift \/ ObjectGone \/ GarbageCollect \/ WatchDeliver
  BY <1>1, <1>10 DEF UserDrift, ObjectGone, GarbageCollect, WatchDeliver, local, crVars,
                     FinalizerInv
<1>11. CASE Crash
  BY <1>1, <1>11, ReturnFinalizer DEF Crash
<1>12. CASE UNCHANGED vars
  BY <1>1, <1>12 DEF vars, local, crVars, FinalizerInv
<1> QED BY <1>2, <1>3, <1>4, <1>5, <1>6, <1>7, <1>8, <1>9, <1>10, <1>11, <1>12
        DEF Next, Reconciler, Environment, InternalStep, InstallFinalizer, EnsureFinalizer

\* FinalizerInv holds in every reachable state.
THEOREM FinalizerInvariant == Spec => []FinalizerInv
<1>1. Init => FinalizerInv
  BY DEF Init, FinalizerInv, DeployedImpliesFinalizer, NoStatus, NoCR,
         DeletionSteps, FinalizerSteps
<1>2. TypeInv /\ FinalizerInv /\ [Next]_vars => FinalizerInv'
  BY FinalizerStep
<1> QED BY <1>1, <1>2, TypeInvariant, PTL DEF Spec

\* A live CR that reports Deployed carries the uninstall finalizer, however
\* Reconcile is interrupted, for every set of specs and objects and whether or
\* not the informer lags.
THEOREM DeployedHasFinalizer == Spec => []DeployedImpliesFinalizer
<1>1. FinalizerInv => DeployedImpliesFinalizer
  BY DEF FinalizerInv
<1> QED BY <1>1, FinalizerInvariant, PTL

-----------------------------------------------------------------------------
(* Waiting for the deletion of the objects *)

\* While the deletion goes on the stored status names the release whose
\* objects are waited for, and past the wait they are gone.
WaitInv ==
  /\ pc \in {"cleanup", "removeFinalizer"}
       => crStatus.deployedRelease = status.deployedRelease
  /\ pc = "cleanup" => status.deployedRelease \in Specs
  /\ pc = "removeFinalizer" /\ o.annotation = "uninstall-wait"
       => \A x \in ObjectsOf(status.deployedRelease) \ Keep : cluster[x] = "absent"

\* What others do to the objects brings none of them back.
LEMMA AbsentStays ==
  ASSUME TypeInv, UserDrift \/ ObjectGone \/ GarbageCollect,
         NEW x \in Objects, cluster[x] = "absent"
  PROVE  cluster'[x] = "absent"
BY ObjectsAssumption DEF TypeInv, ObjectsOK, UserDrift, ObjectGone, GarbageCollect

\* Every step keeps WaitInv.
LEMMA WaitStep ==
  ASSUME TypeInv, WaitInv, [Next]_vars
  PROVE  WaitInv'
<1> USE DEF TypeInv
<1>1. ASSUME pc' \notin {"cleanup", "removeFinalizer"}
      PROVE  WaitInv'
  BY <1>1 DEF WaitInv
<1>2. CASE Return
  BY <1>1, <1>2 DEF Return
<1>3. CASE ReconcileStart \/ ReportStatus \/ RemoveFinalizer
  BY <1>1, <1>2, <1>3 DEF ReconcileStart, ReportStatus, RemoveFinalizer
<1>4. CASE DeletionStatus /\ ~Return
  <2>1. /\ crStatus' = status /\ UNCHANGED <<o, status>>
        /\ pc' = IF o.annotation = "uninstall-wait" /\ status.deployedRelease # NoSpec
                 THEN "cleanup" ELSE "removeFinalizer"
    BY <1>4 DEF DeletionStatus, Goto
  <2>2. status.deployedRelease \in Specs \cup {NoSpec}
    BY DEF LocalOK, CRStatuses, Manifests
  <2>3. ObjectsOf(NoSpec) = {}
    BY SpecsAssumption DEF ObjectsOf, NoSpec
  <2>4. CASE o.annotation = "uninstall-wait" /\ status.deployedRelease # NoSpec
    BY <2>1, <2>2, <2>4 DEF WaitInv
  <2>5. CASE ~(o.annotation = "uninstall-wait" /\ status.deployedRelease # NoSpec)
    BY <2>1, <2>3, <2>5 DEF WaitInv
  <2> QED BY <2>4, <2>5
<1>5. CASE CleanupRelease /\ ~Return
  <2>1. CASE pc' = "removeFinalizer"
    <3>1. /\ \A x \in Renders[status.deployedRelease] \ Keep : cluster[x] = "absent"
          /\ status' = ReleaseFailed("none")
          /\ UNCHANGED <<cluster, o, crStatus>>
      BY <1>5, <2>1 DEF CleanupRelease, GotoWith, objects, crVars
    <3>2. status'.deployedRelease = status.deployedRelease
      BY <3>1 DEF ReleaseFailed, LocalOK, CRStatuses
    <3>3. pc = "cleanup" /\ status.deployedRelease \in Specs
      BY <1>5 DEF CleanupRelease, WaitInv
    <3> QED BY <2>1, <3>1, <3>2, <3>3 DEF WaitInv, ObjectsOf
  <2>2. CASE pc' # "removeFinalizer"
    BY <1>1, <1>5, <2>2 DEF CleanupRelease, GotoWith
  <2> QED BY <2>1, <2>2
<1>6. CASE InternalStep /\ ~CleanupRelease
  <2>1. InternalMove
    BY <1>6, InternalMoves
  <2> QED BY <1>1, <1>2, <1>6, <2>1 DEF InternalMove
<1>7. CASE InstallFinalizer \/ EnsureFinalizer \/ ReleaseHook
  BY <1>1, <1>2, <1>7 DEF InstallFinalizer, EnsureFinalizer, ReleaseHook, AddFinalizer,
                          NextOperation, GotoWith
<1>8. CASE UserEdit \/ UserDelete \/ CRGone
  BY <1>8 DEF UserEdit, UserDelete, CRGone, Stale, objects, WaitInv
<1>9. CASE UserDrift \/ ObjectGone \/ GarbageCollect
  <2>1. UNCHANGED <<crStatus, pc, o, status>>
    BY <1>9 DEF UserDrift, ObjectGone, GarbageCollect, local, crVars
  <2>2. ObjectsOf(status.deployedRelease) \subseteq Objects
    BY RendersAssumption DEF ObjectsOf
  <2> QED BY <1>9, <2>1, <2>2, AbsentStays DEF WaitInv
<1>10. CASE WatchDeliver \/ UNCHANGED vars
  BY <1>10 DEF WatchDeliver, vars, local, crVars, objects, WaitInv
<1>11. CASE Crash
  BY <1>2, <1>11 DEF Crash
<1> QED BY <1>2, <1>3, <1>4, <1>5, <1>6, <1>7, <1>8, <1>9, <1>10, <1>11
        DEF Next, Reconciler, Environment, InternalStep

\* WaitInv holds in every reachable state.
THEOREM WaitInvariant == Spec => []WaitInv
<1>1. Init => WaitInv
  BY DEF Init, WaitInv
<1>2. TypeInv /\ WaitInv /\ [Next]_vars => WaitInv'
  BY WaitStep
<1> QED BY <1>1, <1>2, TypeInvariant, PTL DEF Spec

\* Only RemoveFinalizer removes the finalizer, and only from the CR that was
\* read.
LEMMA RemovedByReconciler ==
  ASSUME TypeInv, FinalizerInv, [Next]_vars, FinalizerRemoved
  PROVE  pc = "removeFinalizer" /\ o = cr
<1> USE DEF TypeInv
<1>1. ASSUME UNCHANGED cr PROVE FALSE
  BY <1>1 DEF FinalizerRemoved
<1>2. CASE RemoveFinalizer
  BY <1>1, <1>2 DEF RemoveFinalizer, Accepted, FinalizerInv
<1>3. CASE InternalStep
  BY <1>1, <1>3, InternalMoves DEF InternalMove, crVars
<1>4. CASE ReconcileStart \/ ReportStatus \/ DeletionStatus \/ ReleaseHook
  BY <1>1, <1>4 DEF ReconcileStart, ReportStatus, DeletionStatus, ReleaseHook, crVars
<1>5. CASE InstallFinalizer \/ EnsureFinalizer
  BY <1>1, <1>5 DEF InstallFinalizer, EnsureFinalizer, AddFinalizer, FinalizerRemoved,
                    CROK, CRs
<1>6. CASE UserEdit \/ UserDelete \/ CRGone
  BY <1>6 DEF UserEdit, UserDelete, CRGone, FinalizerRemoved, CROK, CRs
<1>7. CASE UserDrift \/ ObjectGone \/ GarbageCollect \/ WatchDeliver \/ Crash
  BY <1>1, <1>7 DEF UserDrift, ObjectGone, GarbageCollect, WatchDeliver, Crash, crVars
<1>8. CASE UNCHANGED vars
  BY <1>1, <1>8 DEF vars, crVars
<1> QED BY <1>2, <1>3, <1>4, <1>5, <1>6, <1>7, <1>8
        DEF Next, Reconciler, Environment, InternalStep

\* With the uninstall-wait annotation the finalizer is removed only when the
\* objects of status.deployedRelease are gone: for every chart, whatever is
\* edited, drifts, fails or crashes, and whether or not the informer lags.
THEOREM WaitHonoured == Spec => WaitHonoursStatus
<1>1. TypeInv /\ FinalizerInv /\ WaitInv /\ [Next]_vars
        => [FinalizerRemoved /\ cr.annotation = "uninstall-wait"
              => \A x \in ObjectsOf(crStatus.deployedRelease) \ Keep :
                   cluster[x] = "absent"]_vars
  BY RemovedByReconciler DEF WaitInv
<1> QED BY <1>1, TypeInvariant, FinalizerInvariant, WaitInvariant, PTL
        DEF Spec, WaitHonoursStatus

-----------------------------------------------------------------------------
(* Release records, with an informer that does not lag *)

\* The informer's copy is the API server's state.
Current == cached = releases /\ watchq = <<>>

\* The record of v becomes r, for the informer too.
Written(v, r) == releases' = [releases EXCEPT ![v] = r] /\ Current'

\* A release that is recorded is, or is not, written.
LEMMA WriteCurrent ==
  ASSUME MaxLag = 0, Current
  PROVE  /\ \A v, r : WriteRelease(v, r) => Written(v, r)
         /\ UNCHANGED store => Current'
         /\ \A v, s, m : RecordRelease(v, s, m)
              => UNCHANGED store \/ (Exists(v) /\ Written(v, Record(s, m)))
<1>1. \A v, r : WriteRelease(v, r) => Written(v, r)
  BY DEF WriteRelease, Written, Current
<1>2. UNCHANGED store => Current'
  BY DEF store, Current
<1> QED BY <1>1, <1>2 DEF RecordRelease, Updates, UpdateFails

\* The steps that write records, and how.
WriteStep ==
  \/ \E v \in Versions : /\ pc = "purge" \/ cr.phase = "absent"
                         /\ Written(v, NoRelease)
  \/ \E r \in todo : pc = "syncCleanup" /\ Written(r.version, NoRelease)
  \/ \E v \in Versions, s \in Statuses, m \in Specs :
       /\ s = "none" => pc = "upgradeKeep" /\ s = prev.status
       /\ Written(v, Record(s, m))

\* The reconciler's way of recording a release is a write step or none.
LEMMA RecordIsWrite ==
  ASSUME MaxLag = 0, Current, NEW v \in Versions, NEW s \in Statuses,
         NEW m \in Specs, s = "none" => pc = "upgradeKeep" /\ s = prev.status,
         RecordRelease(v, s, m)
  PROVE  UNCHANGED store \/ WriteStep
BY WriteCurrent DEF WriteStep

\* Every step leaves the records alone or is a write step.
LEMMA StoreMoves ==
  ASSUME MaxLag = 0, TypeInv, Current, [Next]_vars
  PROVE  Current' /\ (UNCHANGED releases \/ WriteStep)
<1> USE DEF TypeInv
<1>1. ASSUME UNCHANGED store
      PROVE  Current' /\ UNCHANGED releases
  BY <1>1, WriteCurrent DEF store
<1>2. ASSUME WriteStep PROVE Current'
  BY <1>2 DEF WriteStep, Written
<1>3. ASSUME NEW v \in Versions, NEW s \in Statuses \ {"none"}, NEW m \in Specs,
             RecordRelease(v, s, m)
      PROVE  Current' /\ (UNCHANGED releases \/ WriteStep)
  BY <1>1, <1>2, <1>3, RecordIsWrite
<1>4. ASSUME NEW v \in Versions, NEW s \in Statuses \ {"none"}, NEW m \in Specs,
             WriteRelease(v, Record(s, m))
      PROVE  Current' /\ WriteStep
  BY <1>2, <1>4, WriteCurrent DEF WriteStep
<1>5. CASE UninstallBegin
  <2>1. CASE UNCHANGED store
    BY <1>1, <2>1
  <2>2. CASE /\ History(cached) # {}
             /\ RecordRelease(Latest(History(cached)), "uninstalling",
                              cached[Latest(History(cached))].manifest)
    BY <1>3, <2>2, LatestExists DEF StoreOK, Statuses
  <2> QED BY <1>5, <2>1, <2>2 DEF UninstallBegin
<1>6. CASE UninstallPurge
  <2>1. CASE UNCHANGED store
    BY <1>1, <2>1
  <2>2. ASSUME NEW r \in todo, WriteRelease(r.version, NoRelease)
        PROVE  Current' /\ WriteStep
    <3>1. r.version \in Versions /\ pc = "purge"
      BY <1>6 DEF UninstallPurge, LocalOK, Items
    <3>2. Written(r.version, NoRelease)
      BY <2>2, WriteCurrent
    <3> QED BY <1>2, <3>1, <3>2 DEF WriteStep
  <2> QED BY <1>6, <2>1, <2>2 DEF UninstallPurge, UpdateFails
<1>7. CASE SyncCleanup
  <2>1. CASE UNCHANGED store
    BY <1>1, <2>1
  <2>2. ASSUME NEW r \in todo, WriteRelease(r.version, NoRelease)
        PROVE  Current' /\ WriteStep
    <3>1. Written(r.version, NoRelease)
      BY <2>2, WriteCurrent
    <3> QED BY <1>2, <1>7, <3>1 DEF WriteStep, SyncCleanup
  <2> QED BY <1>7, <2>1, <2>2 DEF SyncCleanup
<1>8. CASE InstallBegin
  <2>1. o.spec \in Specs /\ 1 \in Versions
    BY MaxVersionAssumption DEF LocalOK, CRs, Versions
  <2> QED BY <1>1, <1>4, <1>8, <2>1 DEF InstallBegin, Statuses
<1>9. CASE \/ InstallFailed \/ InstallRecord \/ UpgradeFailed \/ RollbackFailTarget
           \/ RollbackDeploy
  BY <1>3, <1>9 DEF InstallFailed, InstallRecord, UpgradeFailed, RollbackFailTarget,
     RollbackDeploy, WorkOK, RelSteps, GoodReleases, Statuses
<1>10. CASE UpgradeBegin
  <2>1. CASE UNCHANGED store
    BY <1>1, <2>1
  <2>2. ASSUME NEW n, n = Latest(History(cached)) + 1, CanUpgrade(cached),
               n <= MaxVersion, WriteRelease(n, Record("pending-upgrade", o.spec))
        PROVE  Current' /\ WriteStep
    <3>1. o.spec \in Specs
      BY DEF LocalOK, CRs
    <3>2. n \in Versions
      BY <2>2, LatestExists, MaxVersionAssumption DEF StoreOK, CanUpgrade, Versions
    <3> QED BY <1>4, <2>2, <3>1, <3>2 DEF Statuses
  <2> QED BY <1>10, <2>1, <2>2 DEF UpgradeBegin, UpgradePossible
<1>11. CASE UpgradeKeep
  <2>1. prev \in GoodReleases /\ prev.status \in Statuses
    BY <1>11 DEF UpgradeKeep, WorkOK, PrevSteps, GoodReleases, Releases
  <2>2. UNCHANGED store \/ WriteStep
    BY <1>11, <2>1, RecordIsWrite DEF UpgradeKeep, GoodReleases
  <2> QED BY <1>1, <1>2, <2>2
<1>12. CASE UpgradeSupersede \/ RollbackFailCurrent
  BY <1>3, <1>12 DEF UpgradeSupersede, RollbackFailCurrent, WorkOK, PrevSteps,
                     GoodReleases, Statuses
<1>13. CASE UpgradeDeploy
  BY <1>3, <1>13 DEF UpgradeDeploy, RecordRelease, WorkOK, RelSteps, GoodReleases, Statuses
<1>14. CASE RollbackBegin
  <2>1. CASE UNCHANGED store
    BY <1>1, <2>1
  <2>2. ASSUME NEW n, n = Latest(History(cached)), History(cached) # {},
               n < MaxVersion, (n - 1) \in History(cached), Exists(n - 1),
               WriteRelease(n + 1, Record("pending-rollback", releases[n - 1].manifest))
        PROVE  Current' /\ WriteStep
    <3>1. n + 1 \in Versions
      BY <2>2, LatestExists, MaxVersionAssumption DEF StoreOK, Versions
    <3>2. releases[n - 1].manifest \in Specs
      BY <2>2 DEF StoreOK, GoodStores, GoodRecords, Exists, History
    <3> QED BY <1>4, <2>2, <3>1, <3>2 DEF Statuses
  <2> QED BY <1>14, <2>1, <2>2 DEF RollbackBegin, HasPrevious
<1>15. CASE RollbackSupersede
  <2>1. \A r \in todo : r.version \in Versions /\ r.manifest \in Specs
    BY <1>15 DEF RollbackSupersede, WorkOK, GoodItems, Items
  <2> QED BY <1>1, <1>3, <1>15, <2>1 DEF RollbackSupersede, Statuses
<1>16. CASE GarbageCollect
  BY <1>1, <1>2, <1>16, WriteCurrent DEF GarbageCollect, WriteStep
<1>17. CASE WatchDeliver \/ Crash
  BY <1>17 DEF WatchDeliver, Crash, Current
<1>18. CASE \/ ReconcileStart \/ ReportStatus \/ UninstallDelete \/ DeletionStatus
            \/ CleanupRelease \/ RemoveFinalizer \/ SyncHistory \/ SyncDeployed
            \/ SyncCandidate
  BY <1>1, <1>18 DEF ReconcileStart, ReportStatus, UninstallDelete, DeletionStatus,
     CleanupRelease, RemoveFinalizer, SyncHistory, SyncDeployed, SyncCandidate
<1>19. CASE \/ InstallApply \/ InstallFinalizer \/ EnsureFinalizer \/ ReleaseHook
            \/ UpgradeApply \/ RollbackApply \/ ReconcileRelease
  BY <1>1, <1>19 DEF InstallApply, InstallFinalizer, EnsureFinalizer, ReleaseHook,
     AddFinalizer, UpgradeApply, RollbackApply, ReconcileRelease
<1>20. CASE UserEdit \/ UserDelete \/ UserDrift \/ CRGone \/ ObjectGone
  BY <1>1, <1>20 DEF UserEdit, UserDelete, UserDrift, CRGone, ObjectGone
<1>21. CASE UNCHANGED vars
  BY <1>1, <1>21 DEF vars
<1> QED BY <1>5, <1>6, <1>7, <1>8, <1>9, <1>10, <1>11, <1>12, <1>13, <1>14, <1>15,
           <1>16, <1>17, <1>18, <1>19, <1>20, <1>21 DEF Next, Reconciler, Environment

\* The revisions still to be handled.
TodoVersions == {r.version : r \in todo}

\* What Sync still deletes is not deployed, the record that a failed upgrade
\* restores exists, an uninstall has listed every record, and after it none
\* is left.
RecordInv ==
  /\ Current
  /\ pc = "syncCleanup" => \A r \in todo : releases[r.version].status # "deployed"
  /\ pc \in {"upgradeApply", "upgradeKeep"} => prev.status # "none"
  /\ pc \in {"deleteObjects", "purge"} => History(releases) \subseteq TodoVersions
  /\ pc \in DeletionSteps => History(releases) = {}

\* The steps RecordInv speaks of.
RecordSteps == {"syncCleanup", "upgradeApply", "upgradeKeep", "deleteObjects",
                "purge"} \cup DeletionSteps

\* Writing the record of a revision that has one adds none to the history,
\* and removing one removes it.
LEMMA HistoryOf ==
  ASSUME TypeInv, NEW v \in Versions
  PROVE  /\ \A r : Written(v, r) /\ Exists(v) => History(releases') \subseteq History(releases)
         /\ Written(v, NoRelease) => History(releases') = History(releases) \ {v}
BY DEF TypeInv, StoreOK, GoodStores, Written, History, Exists, NoRelease

\* Every step keeps RecordInv.
LEMMA RecordStep ==
  ASSUME MaxLag = 0, TypeInv, RecordInv, [Next]_vars
  PROVE  RecordInv'
<1> USE DEF TypeInv
<1>1. Current /\ Current'
  BY StoreMoves DEF RecordInv
<1>2. ASSUME pc' \notin RecordSteps PROVE RecordInv'
  BY <1>1, <1>2 DEF RecordInv, RecordSteps
<1>3. CASE Return
  BY <1>2, <1>3 DEF Return, RecordSteps, DeletionSteps
<1>4. CASE UninstallBegin
  <2>1. CASE UninstallFails
    BY <1>2, <2>1, UninstallMoves DEF RecordSteps, DeletionSteps
  <2>2. CASE /\ History(cached) = {} /\ UninstallEnds(ReleaseNotFound)
             /\ UNCHANGED <<store, work>>
    <3>1. History(releases') = {}
      BY <1>1, <2>2 DEF Current, store
    <3>2. pc' \in {"report", "deletionStatus"}
      BY <2>2, UninstallMoves
    <3> QED BY <1>1, <3>1, <3>2 DEF RecordInv
  <2>3. ASSUME NEW v, v = Latest(History(cached)), History(cached) # {},
               RecordRelease(v, "uninstalling", cached[v].manifest),
               todo' = Listed(History(cached)), Goto("deleteObjects")
        PROVE  RecordInv'
    <3>1. v \in Versions
      BY <2>3, LatestExists DEF StoreOK
    <3>2. History(releases') \subseteq History(releases)
      BY <1>1, <2>3, <3>1, WriteCurrent, HistoryOf DEF store
    <3>3. History(releases) \subseteq TodoVersions'
      <4> SUFFICES ASSUME NEW w \in History(releases) PROVE w \in TodoVersions'
        OBVIOUS
      <4> DEFINE item == [version |-> w, manifest |-> cached[w].manifest]
      <4>1. item \in todo' /\ item.version = w
        BY <1>1, <2>3 DEF Current, Listed
      <4> HIDE DEF item
      <4> QED BY <4>1 DEF TodoVersions
    <3>4. pc' = "deleteObjects"
      BY <2>3 DEF Goto
    <3> QED BY <1>1, <3>2, <3>3, <3>4 DEF RecordInv, DeletionSteps
  <2> QED BY <1>4, <2>1, <2>2, <2>3 DEF UninstallBegin
<1>5. CASE UninstallDelete
  <2>1. CASE UninstallFails
    BY <1>2, <2>1, UninstallMoves DEF RecordSteps, DeletionSteps
  <2>2. CASE Goto("purge")
    BY <1>1, <1>5, <2>2 DEF UninstallDelete, Goto, RecordInv, TodoVersions, store, work,
                            DeletionSteps
  <2> QED BY <1>5, <2>1, <2>2 DEF UninstallDelete
<1>6. CASE UninstallPurge
  <2>1. CASE UninstallFails
    BY <1>2, <2>1, UninstallMoves DEF RecordSteps, DeletionSteps
  <2>2. CASE todo = {} /\ UninstallEnds(Uninstalled) /\ UNCHANGED <<store, todo>>
    <3>1. History(releases') = {}
      BY <1>6, <2>2 DEF UninstallPurge, RecordInv, TodoVersions, store
    <3>2. pc' \in {"report", "deletionStatus"}
      BY <2>2, UninstallMoves
    <3> QED BY <1>1, <3>1, <3>2 DEF RecordInv
  <2>3. ASSUME NEW r \in todo, WriteRelease(r.version, NoRelease),
               todo' = todo \ {r}, Goto("purge")
        PROVE  RecordInv'
    <3>1. r.version \in Versions
      BY DEF LocalOK, Items
    <3>2. History(releases') = History(releases) \ {r.version}
      BY <1>1, <2>3, <3>1, WriteCurrent, HistoryOf
    <3>3. History(releases) \subseteq TodoVersions
      BY <1>6 DEF UninstallPurge, RecordInv
    <3>4. History(releases') \subseteq TodoVersions'
      BY <2>3, <3>2, <3>3 DEF TodoVersions
    <3> QED BY <1>1, <2>3, <3>4 DEF RecordInv, Goto, DeletionSteps
  <2> QED BY <1>6, <2>1, <2>2, <2>3 DEF UninstallPurge
<1>7. CASE DeletionStatus \/ CleanupRelease
  <2>1. History(releases') = {}
    BY <1>7 DEF DeletionStatus, CleanupRelease, RecordInv, DeletionSteps, store
  <2>2. CASE pc' \in DeletionSteps \cup {"report"}
    BY <1>1, <2>1, <2>2 DEF RecordInv, DeletionSteps
  <2> QED BY <1>3, <1>7, <2>2 DEF DeletionStatus, CleanupRelease, Goto, GotoWith,
                                  DeletionSteps
<1>8. CASE SyncHistory
  <2>1. \A r \in todo' : releases'[r.version].status # "deployed"
    BY <1>1, <1>8 DEF SyncHistory, Listed, DeployedAll, History, Current, store
  <2> QED BY <1>1, <1>8, <2>1 DEF SyncHistory, Goto, RecordInv, DeletionSteps
<1>9. CASE SyncCleanup
  <2>1. CASE SyncFails
    BY <1>2, <2>1, MovesOn DEF RecordSteps, DeletionSteps
  <2>2. CASE ~SyncFails
    <3>1. PICK r \in todo :
            /\ WriteRelease(r.version, NoRelease) \/ UNCHANGED store
            /\ todo' = todo \ {r} /\ Goto("syncCleanup")
      BY <1>9, <2>2 DEF SyncCleanup
    <3>2. Written(r.version, NoRelease) \/ UNCHANGED store
      BY <1>1, <3>1, WriteCurrent
    <3>3. \A x \in todo' : releases'[x.version].status # "deployed"
      <4>1. \A x \in todo : /\ x.version \in Versions
                            /\ releases[x.version].status # "deployed"
        BY <1>9 DEF SyncCleanup, RecordInv, LocalOK, Items
      <4> QED BY <3>1, <3>2, <4>1 DEF Written, StoreOK, GoodStores, NoRelease, store
    <3> QED BY <1>1, <3>1, <3>3 DEF RecordInv, Goto, DeletionSteps
  <2> QED BY <2>1, <2>2
<1>10. CASE UpgradeBegin
  <2>1. CASE UpgradeFails \/ Goto("rollback")
    BY <1>2, <2>1, MovesOn DEF UpgradeFails, RecordSteps, DeletionSteps
  <2>2. ASSUME NEW v, v = CurrentRelease(cached), CanUpgrade(cached),
               prev' = [version |-> v, status |-> cached[v].status,
                        manifest |-> cached[v].manifest],
               Goto("upgradeApply")
        PROVE  RecordInv'
    <3>1. prev'.status # "none"
      BY <2>2, CurrentReleaseExists DEF CanUpgrade, StoreOK
    <3> QED BY <1>1, <2>2, <3>1 DEF RecordInv, Goto, DeletionSteps
  <2> QED BY <1>10, <2>1, <2>2 DEF UpgradeBegin, UpgradePossible
<1>11. CASE UpgradeApply
  <2>1. CASE Goto("upgradeKeep")
    BY <1>1, <1>11, <2>1 DEF UpgradeApply, Goto, RecordInv, work, DeletionSteps
  <2>2. CASE Goto("upgradeSupersede") \/ Goto("upgradeFailed")
    BY <1>2, <2>2 DEF Goto, RecordSteps, DeletionSteps
  <2> QED BY <1>11, <2>1, <2>2 DEF UpgradeApply
<1>12. CASE GarbageCollect
  <2>1. UNCHANGED <<pc, todo, prev>>
    BY <1>12 DEF GarbageCollect, local
  <2>2. UNCHANGED releases \/ \E v \in Versions : Written(v, NoRelease)
    BY <1>1, <1>12, WriteCurrent DEF GarbageCollect, store
  <2>3. History(releases') \subseteq History(releases)
    BY <2>2, HistoryOf
  <2>4. ASSUME pc = "syncCleanup"
        PROVE  \A x \in todo : releases'[x.version].status # "deployed"
    <3>1. \A x \in todo : /\ x.version \in Versions
                          /\ releases[x.version].status # "deployed"
      BY <2>4 DEF RecordInv, LocalOK, Items
    <3> QED BY <2>2, <3>1 DEF Written, StoreOK, GoodStores, NoRelease
  <2> QED BY <1>1, <2>1, <2>3, <2>4 DEF RecordInv, TodoVersions
<1>13. CASE \/ UserEdit \/ UserDelete \/ CRGone \/ UserDrift \/ ObjectGone
            \/ UNCHANGED vars
  <2>1. UNCHANGED <<pc, todo, prev, releases>>
    BY <1>13 DEF UserEdit, UserDelete, CRGone, UserDrift, ObjectGone, vars, Stale,
                 local, store, work
  <2> QED BY <1>1, <2>1 DEF RecordInv, TodoVersions
<1>14. CASE WatchDeliver
  BY <1>1, <1>14 DEF WatchDeliver, Current
<1>15. CASE ReconcileStart \/ ReportStatus \/ RemoveFinalizer \/ Crash
  BY <1>2, <1>3, <1>15 DEF ReconcileStart, ReportStatus, RemoveFinalizer, Crash,
                           RecordSteps, DeletionSteps
<1>16. CASE SyncDeployed \/ SyncCandidate
  BY <1>2, <1>16, MovesOn DEF SyncDeployed, SyncCandidate, NextOperation, Goto, GotoWith,
                              RecordSteps, DeletionSteps
<1>17. CASE \/ InstallBegin \/ InstallApply \/ InstallFailed \/ InstallRecord
            \/ UpgradeKeep \/ UpgradeFailed \/ UpgradeSupersede \/ UpgradeDeploy
  BY <1>2, <1>17, MovesOn DEF InstallBegin, InstallApply, InstallFailed, InstallRecord,
     InstallFails, UpgradeKeep, UpgradeFailed, UpgradeSupersede, UpgradeDeploy,
     RecordSteps, DeletionSteps
<1>18. CASE \/ RollbackBegin \/ RollbackApply \/ RollbackFailCurrent
            \/ RollbackFailTarget \/ RollbackSupersede \/ RollbackDeploy
  BY <1>2, <1>18, MovesOn DEF RollbackBegin, RollbackApply, RollbackFailCurrent,
     RollbackFailTarget, RollbackSupersede, RollbackDeploy, UpgradeFails,
     RecordSteps, DeletionSteps
<1>19. CASE InstallFinalizer \/ EnsureFinalizer \/ ReleaseHook \/ ReconcileRelease
  BY <1>2, <1>3, <1>19 DEF InstallFinalizer, EnsureFinalizer, ReleaseHook, AddFinalizer,
     NextOperation, ReconcileRelease, GotoWith, RecordSteps, DeletionSteps
<1> QED BY <1>4, <1>5, <1>6, <1>7, <1>8, <1>9, <1>10, <1>11, <1>12, <1>13, <1>14,
           <1>15, <1>16, <1>17, <1>18, <1>19 DEF Next, Reconciler, Environment

\* RecordInv holds in every reachable state if the informer does not lag.
THEOREM RecordInvariant ==
  ASSUME MaxLag = 0
  PROVE  Spec => []RecordInv
<1>1. Init => RecordInv
  BY DEF Init, RecordInv, Current, DeletionSteps
<1>2. TypeInv /\ RecordInv /\ [Next]_vars => RecordInv'
  BY RecordStep
<1> QED BY <1>1, <1>2, TypeInvariant, PTL DEF Spec

\* With an informer that does not lag, no step removes a deployed record but
\* the purge of an uninstall and, once the CR is gone, the garbage collector:
\* Sync's cleanup and the repair after a failed upgrade never do.
THEOREM DeployedKept ==
  ASSUME MaxLag = 0
  PROVE  Spec => DeployedRecordKept
<1>1. ASSUME TypeInv, RecordInv, [Next]_vars, NEW v \in Versions,
             releases[v].status = "deployed", releases'[v].status = "none"
      PROVE  pc = "purge" \/ cr.phase = "absent"
  <2>1. WriteStep
    BY <1>1, StoreMoves DEF RecordInv
  <2>2. \A w \in Versions : \A r :
          Written(w, r) /\ r.status # "none" => releases'[v].status # "none"
    BY <1>1 DEF Written, TypeInv, StoreOK, GoodStores
  <2>3. \A w \in Versions : \A r : Written(w, r) => w = v
    BY <1>1 DEF Written, TypeInv, StoreOK, GoodStores
  <2>4. \A r \in todo : r.version \in Versions
    BY <1>1 DEF TypeInv, LocalOK, Items
  <2>5. \A s, m : Record(s, m).status = s
    BY DEF Record
  <2> QED BY <1>1, <2>1, <2>2, <2>3, <2>4, <2>5 DEF WriteStep, RecordInv
<1>2. TypeInv /\ RecordInv /\ [Next]_vars
        => [\A v \in Versions :
              releases[v].status = "deployed" /\ releases'[v].status = "none"
                => pc = "purge" \/ cr.phase = "absent"]_vars
  BY <1>1
<1> QED BY <1>2, TypeInvariant, RecordInvariant, PTL DEF Spec, DeployedRecordKept

\* With an informer that does not lag, the finalizer is removed only when no
\* record of the release is left, wherever an uninstall failed or crashed.
THEOREM PurgedFirst ==
  ASSUME MaxLag = 0
  PROVE  Spec => FinalizerAfterPurge
<1>1. TypeInv /\ FinalizerInv /\ RecordInv /\ [Next]_vars
        => [FinalizerRemoved => History(releases) = {}]_vars
  BY RemovedByReconciler DEF RecordInv, DeletionSteps
<1> QED BY <1>1, TypeInvariant, FinalizerInvariant, RecordInvariant, PTL
        DEF Spec, FinalizerAfterPurge
=============================================================================
