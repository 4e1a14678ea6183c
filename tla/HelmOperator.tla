---------------------------- MODULE HelmOperator ----------------------------
(***************************************************************************)
(* The Helm operator's reconciler, the release manager it drives and the   *)
(* Helm actions the manager runs, for one custom resource (CR).  Every     *)
(* request to the API server is a step of its own, so users, the watch     *)
(* that feeds the Secret informer, the garbage collector and a crash of    *)
(* the operator can come between any two of them.                          *)
(***************************************************************************)
EXTENDS HelmStorage, Sequences

CONSTANTS Objects,      \* cluster objects a chart can render
          Renders,      \* spec -> the objects in the rendered manifest
          Owned,        \* objects that carry an owner reference to the CR
          Keep,         \* objects annotated helm.sh/resource-policy: keep
          MaxLag,       \* undelivered Secret watch events; 0: no lag at all
          MaxFaults,    \* bound on failing API requests
          MaxCrashes,   \* bound on restarts of the operator
          MaxEdits,     \* bound on edits of the CR
          MaxDrifts     \* bound on changes of its objects by others

ASSUME RendersAssumption == Renders \in [Specs -> SUBSET Objects]
ASSUME ObjectsAssumption ==
         /\ Owned \subseteq Objects /\ Keep \subseteq Objects \ Owned
         /\ {"absent", "terminating", "drifted"} \cap Specs = {}
ASSUME BoundsAssumption == /\ MaxLag \in Nat /\ MaxFaults \in Nat
                           /\ MaxCrashes \in Nat /\ MaxEdits \in Nat
                           /\ MaxDrifts \in Nat

VARIABLES
  cr,        \* the CR at the API server: phase, spec, annotation, finalizer
  crStatus,  \* its status subresource
  releases,  \* the release Secrets at the API server
  cached,    \* the Secret informer's copy of them
  watchq,    \* watch events the informer has not processed yet
  cluster,   \* the chart's objects at the API server
  marked,    \* those that carry Helm's ownership label and annotations
  pc,        \* the reconciler's next step; "idle" between reconciliations
  o,         \* the CR as this reconciliation read it
  fresh,     \* o carries the CR's current resourceVersion
  status,    \* the status this reconciliation is building
  todo,      \* listed releases still to be deleted or superseded
  prev,      \* the release being upgraded, rolled back or uninstalled
  rel,       \* the release being installed, upgraded to or rolled back to
  faults, crashes, edits, drifts   \* what is left of the bounds

crVars == <<cr, crStatus>>
store  == <<releases, cached, watchq>>
objects == <<cluster, marked>>
work   == <<todo, prev, rel>>
local  == <<pc, o, fresh, status, todo, prev, rel>>
others == <<crashes, edits, drifts>>
vars   == <<crVars, store, objects, local, faults, others>>

-----------------------------------------------------------------------------
(* Types *)

Manifests == Specs \cup {NoSpec}

\* The absence of a CR is phase "absent"; its other fields are then void.
CRs == [phase: {"live", "deleting", "absent"}, spec: Specs,
        annotation: {"none", "uninstall-wait", "bad-period"},
        finalizer: BOOLEAN]

\* What the reconciler holds between reconciliations.
NoCR == [phase |-> "absent", spec |-> CHOOSE s \in Specs : TRUE,
         annotation |-> "none", finalizer |-> FALSE]

\* HelmAppStatus: the Deployed condition, the reason of ReleaseFailed if it
\* is set, the Irreconcilable condition and the manifest of DeployedRelease.
CRStatuses == [deployed: {"unset", "true", "false"},
               releaseFailed: {"none", "install", "upgrade", "uninstall"},
               irreconcilable: BOOLEAN, deployedRelease: Manifests]

NoStatus == [deployed |-> "unset", releaseFailed |-> "none",
             irreconcilable |-> FALSE, deployedRelease |-> NoSpec]

\* An object holds what it was rendered from, or was changed behind Helm's
\* back, or is gone, or has a deletion timestamp.
Contents == Specs \cup {"absent", "terminating", "drifted"}

Releases == [version: 0 .. MaxVersion, status: Statuses, manifest: Manifests]

\* What a list of releases tells about one that is still to be handled.
Items == [version: Versions, manifest: Manifests]

NoRel == [version |-> 0, status |-> "none", manifest |-> NoSpec]

Steps == {"idle", "uninstall", "deleteObjects", "purge", "deletionStatus",
          "cleanup", "removeFinalizer", "sync", "syncCleanup", "candidate",
          "install", "installApply", "installFailed", "installRecord",
          "installFinalizer", "finalizer", "upgrade", "upgradeApply",
          "upgradeKeep", "upgradeFailed", "upgradeSupersede",
          "upgradeDeploy", "rollback", "rollbackApply",
          "rollbackFailCurrent", "rollbackFailTarget", "rollbackSupersede",
          "rollbackDeploy", "reconcile", "hook", "report"}

TypeOK ==
  /\ cr \in CRs /\ crStatus \in CRStatuses
  /\ releases \in Stores /\ cached \in Stores
  /\ watchq \in Seq(Versions \X Records)
  /\ cluster \in [Objects -> Contents] /\ marked \subseteq Objects
  /\ pc \in Steps /\ o \in CRs /\ fresh \in BOOLEAN /\ status \in CRStatuses
  /\ todo \subseteq Items /\ prev \in Releases /\ rel \in Releases
  /\ faults \in 0 .. MaxFaults /\ crashes \in 0 .. MaxCrashes
  /\ edits \in 0 .. MaxEdits /\ drifts \in 0 .. MaxDrifts

Init ==
  /\ \E s \in Specs, a \in {"none", "uninstall-wait"} :
       cr = [phase |-> "live", spec |-> s, annotation |-> a, finalizer |-> FALSE]
  /\ o = NoCR
  /\ crStatus = NoStatus /\ status = NoStatus
  /\ releases = EmptyStore /\ cached = EmptyStore /\ watchq = <<>>
  /\ cluster = [x \in Objects |-> "absent"] /\ marked = {}
  /\ pc = "idle" /\ fresh = FALSE
  /\ todo = {} /\ prev = NoRel /\ rel = NoRel
  /\ faults = MaxFaults /\ crashes = MaxCrashes /\ edits = MaxEdits
  /\ drifts = MaxDrifts

-----------------------------------------------------------------------------
(* Requests to the API server and to the informer *)

Works == UNCHANGED faults

Fails == faults > 0 /\ faults' = faults - 1

Exists(v) == releases[v].status # "none"

\* WatchedSecrets: writes go to the API server and reach the informer's copy,
\* which serves every List, only when the watch delivers them.  A write never
\* waits for the watch: a model whose informer may be at most MaxLag events
\* behind has it process the oldest event when one more is added.
WriteRelease(v, r) ==
  /\ releases' = [releases EXCEPT ![v] = r]
  /\ IF MaxLag = 0
     THEN cached' = [releases EXCEPT ![v] = r] /\ UNCHANGED watchq
     ELSE IF Len(watchq) < MaxLag
     THEN watchq' = Append(watchq, <<v, r>>) /\ UNCHANGED cached
     ELSE /\ cached' = [cached EXCEPT ![Head(watchq)[1]] = Head(watchq)[2]]
          /\ watchq' = Append(Tail(watchq), <<v, r>>)

\* The releases of the revisions S as the informer lists them.
Listed(S) == {[version |-> v, manifest |-> cached[v].manifest] : v \in S}

Record(s, m) == [status |-> s, manifest |-> m]

\* storage.Update: an unconditional update that fails if there is no Secret.
Updates(v, s, m) == Exists(v) /\ Works /\ WriteRelease(v, Record(s, m))

UpdateFails(v) == /\ \/ ~Exists(v) /\ Works
                     \/ Fails
                  /\ UNCHANGED store

\* cfg.recordRelease: an update whose error is only logged.
RecordRelease(v, s, m) == Updates(v, s, m) \/ UpdateFails(v)

\* Create and patch the objects of S to their rendering from spec s.  An
\* object that is being deleted stays so.
Apply(S, s, c) == [x \in Objects |-> IF x \in S /\ c[x] # "terminating"
                                     THEN s ELSE c[x]]

\* Delete the objects of S with background propagation.
Delete(S, c) == [x \in Objects |-> IF x \in S /\ c[x] # "absent"
                                   THEN "terminating" ELSE c[x]]

\* Helm creates and patches objects with its ownership metadata set.
HelmApply(S, s) == cluster' = Apply(S, s, cluster) /\ marked' = marked \cup S

DeleteObjects(S) == cluster' = Delete(S, cluster) /\ UNCHANGED marked

\* kube.Client.Update: create or patch the target, then delete what only the
\* original had; a failing deletion is only logged.
UpdateObjects(original, target) ==
  LET gone == (Renders[original] \ Renders[target]) \ Keep IN
    /\ \/ Works /\ cluster' = Delete(gone, Apply(Renders[target], target, cluster))
       \/ Fails /\ \E S \in SUBSET gone :
                     cluster' = Delete(S, Apply(Renders[target], target, cluster))
    /\ marked' = marked \cup Renders[target]

\* The objects are updated and then a hook of the chart fails.
UpdateThenHookFails(original, target) ==
  LET gone == (Renders[original] \ Renders[target]) \ Keep IN
    /\ Fails
    /\ cluster' = Delete(gone, Apply(Renders[target], target, cluster))
    /\ marked' = marked \cup Renders[target]

\* An error leaves part of the target applied and nothing deleted.
ApplySome(target) == \E S \in SUBSET Renders[target] : HelmApply(S, target)

\* Mutant: objects of an earlier attempt are not adopted.
ConflictAny(S) == \E x \in S : cluster[x] # "absent"

\* existingResourceConflict: objects of S exist that Helm did not create.
Conflict(S) == \E x \in S \ marked : cluster[x] # "absent"

-----------------------------------------------------------------------------
(* Reconcile: entry, exit and the writes to the CR *)

\* Return from Reconcile; the locals are gone.
Return == /\ pc' = "idle" /\ o' = NoCR /\ fresh' = FALSE /\ status' = NoStatus
          /\ todo' = {} /\ prev' = NoRel /\ rel' = NoRel

Goto(l) == pc' = l /\ UNCHANGED <<o, fresh, status>>

\* Continue at l with status s.
GotoWith(l, s) == pc' = l /\ status' = s /\ UNCHANGED <<o, fresh>>

\* An update of the CR or its status is accepted only if the CR still exists
\* with the resourceVersion that was read; the retry sends the same object.
Accepted == fresh /\ cr.phase # "absent" /\ Works

Rejected == \/ (~fresh \/ cr.phase = "absent") /\ Works
            \/ Fails

\* Get the CR, as it is at the API server: the manager's client serves only
\* typed objects from its cache, and the CR is unstructured.  The early
\* returns (no CR, unparsable reconcile period, deletion without our
\* finalizer) change nothing.
ReconcileStart ==
  /\ pc = "idle"
  /\ cr.phase # "absent"
  /\ cr.annotation # "bad-period"
  /\ cr.phase = "deleting" => cr.finalizer
  /\ o' = cr /\ fresh' = TRUE /\ status' = crStatus
  /\ pc' = IF cr.phase = "deleting" THEN "uninstall" ELSE "sync"
  /\ UNCHANGED <<crVars, store, objects, work, faults, others>>

\* The last status update of a reconciliation, successful or failed: an
\* update error makes the request come back, and nothing else differs.
ReportStatus ==
  /\ pc = "report"
  /\ \/ Accepted /\ crStatus' = status
     \/ Rejected /\ UNCHANGED crStatus
  /\ UNCHANGED cr
  /\ Return
  /\ UNCHANGED <<store, objects, others>>

-----------------------------------------------------------------------------
(* Deletion of the CR, and Helm's uninstall action *)

ReleaseFailed(reason) == [status EXCEPT !.releaseFailed = reason]

WithWait(s) == IF o.annotation = "uninstall-wait"
               THEN [s EXCEPT !.deployed = "false"] ELSE s

\* Mutant: an empty manifest instead of no release.
UninstalledEmpty ==
  GotoWith("deletionStatus",
           [ReleaseFailed("none") EXCEPT !.deployed = "false", !.deployedRelease = ""])

\* The two ways an uninstall ends well for the reconciler.
Uninstalled ==
  GotoWith("deletionStatus",
           WithWait(IF o.annotation = "uninstall-wait" THEN ReleaseFailed("none")
                    ELSE [ReleaseFailed("none") EXCEPT !.deployed = "false",
                                                       !.deployedRelease = NoSpec]))

ReleaseNotFound == GotoWith("deletionStatus", WithWait(ReleaseFailed("none")))

\* The action runs for a deleted CR, or to clean up after a failed install:
\* then its outcome does not matter, the install has failed.
UninstallEnds(outcome) ==
  IF o.phase = "live" THEN GotoWith("report", ReleaseFailed("install"))
  ELSE outcome

\* Mutant: a failed uninstall is taken for a release that is not there.
UninstallFailsUnnoticed == UninstallEnds(ReleaseNotFound)

UninstallFails == UninstallEnds(GotoWith("report", ReleaseFailed("uninstall")))

\* Mutant: a release that is not found fails the uninstall.
UninstallBeginStrict ==
  /\ pc = "uninstall"
  /\ \/ /\ History(cached) = {} /\ Works /\ UninstallFails /\ UNCHANGED <<store, work>>
     \/ /\ History(cached) # {}
        /\ LET v == Latest(History(cached)) IN
             /\ RecordRelease(v, "uninstalling", cached[v].manifest)
             /\ prev' = [version |-> v, status |-> "uninstalling",
                         manifest |-> cached[v].manifest]
        /\ todo' = Listed(History(cached))
        /\ Goto("deleteObjects") /\ UNCHANGED rel
  /\ UNCHANGED <<crVars, objects, others>>

\* Find the last revision in the informer's copy and mark it uninstalling;
\* a failure to store that is only logged.
UninstallBegin ==
  /\ pc = "uninstall"
  /\ \/ /\ History(cached) = {}
        /\ UninstallEnds(ReleaseNotFound)
        /\ Works /\ UNCHANGED <<store, work>>
     \/ \* the cluster is unreachable or a pre-delete hook fails
        /\ Fails /\ UninstallFails /\ UNCHANGED <<store, work>>
     \/ /\ History(cached) # {}
        /\ LET v == Latest(History(cached)) IN
             /\ RecordRelease(v, "uninstalling", cached[v].manifest)
             /\ prev' = [version |-> v, status |-> "uninstalling",
                         manifest |-> cached[v].manifest]
        /\ todo' = Listed(History(cached))
        /\ Goto("deleteObjects") /\ UNCHANGED rel
  /\ UNCHANGED <<crVars, objects, others>>

\* Mutant: the objects of the first revision are deleted, not of the last.
UninstallDeleteFirst ==
  /\ pc = "deleteObjects"
  /\ LET first == CHOOSE r \in todo : \A w \in todo : r.version <= w.version IN
       DeleteObjects(Renders[first.manifest] \ Keep)
  /\ Works /\ Goto("purge")
  /\ UNCHANGED <<crVars, store, work, others>>

UninstallDelete ==
  /\ pc = "deleteObjects"
  /\ \/ /\ DeleteObjects(Renders[prev.manifest] \ Keep)
        /\ Works /\ Goto("purge")
     \/ /\ \E S \in SUBSET (Renders[prev.manifest] \ Keep) : DeleteObjects(S)
        /\ Fails /\ UninstallFails
  /\ UNCHANGED <<crVars, store, work, others>>

\* purgeReleases stops at the first record it cannot delete, a record that
\* is already gone included.  The error of a post-delete hook, which runs
\* before the purge, is only returned after it.
UninstallPurge ==
  /\ pc = "purge"
  /\ \/ /\ todo = {} /\ UNCHANGED <<store, todo>>
        /\ \/ Works /\ UninstallEnds(Uninstalled)
           \/ Fails /\ UninstallFails
     \/ \E r \in todo :
          /\ \A w \in todo : r.version <= w.version
          /\ \/ /\ Exists(r.version) /\ Works
                /\ WriteRelease(r.version, NoRelease)
                /\ todo' = todo \ {r} /\ Goto("purge")
             \/ /\ UpdateFails(r.version) /\ UninstallFails /\ UNCHANGED todo
  /\ UNCHANGED <<crVars, objects, prev, rel, others>>

\* Store the status of the uninstalled release before anything else.
DeletionStatus ==
  /\ pc = "deletionStatus"
  /\ \/ /\ Accepted /\ crStatus' = status
        /\ Goto(IF o.annotation = "uninstall-wait" /\ status.deployedRelease # NoSpec
                THEN "cleanup" ELSE "removeFinalizer")
        /\ UNCHANGED work
     \/ Rejected /\ UNCHANGED crStatus /\ Return
  /\ UNCHANGED <<cr, store, objects, others>>

\* Mutant: having asked for the deletion counts as deleted.
CleanupReleaseHasty ==
  /\ pc = "cleanup"
  /\ DeleteObjects(Renders[status.deployedRelease] \ Keep)
  /\ Works /\ GotoWith("removeFinalizer", ReleaseFailed("none"))
  /\ UNCHANGED <<crVars, store, work, others>>

\* CleanupRelease: wait until every object of the deployed manifest is gone,
\* deleting all of them again as long as one is left.
CleanupRelease ==
  /\ pc = "cleanup"
  /\ LET objs == Renders[status.deployedRelease] \ Keep IN
       \/ /\ \A x \in objs : cluster[x] = "absent"
          /\ Works /\ GotoWith("removeFinalizer", ReleaseFailed("none"))
          /\ UNCHANGED <<objects, work>>
       \/ /\ \E x \in objs : cluster[x] # "absent"
          /\ DeleteObjects(objs)
          /\ Works /\ Return
       \/ /\ Fails
          /\ \E S \in SUBSET objs : DeleteObjects(S)
          /\ GotoWith("report", ReleaseFailed("uninstall")) /\ UNCHANGED work
  /\ UNCHANGED <<crVars, store, others>>

\* Remove both finalizers; waitForDeletion then only delays the return.
RemoveFinalizer ==
  /\ pc = "removeFinalizer"
  /\ \/ Accepted /\ cr' = [cr EXCEPT !.finalizer = FALSE]
     \/ Rejected /\ UNCHANGED cr
  /\ Return
  /\ UNCHANGED <<crStatus, store, objects, others>>

-----------------------------------------------------------------------------
(* manager.Sync *)

Irreconcilable(b) == [status EXCEPT !.irreconcilable = b]

SyncFails == GotoWith("report", Irreconcilable(TRUE))

\* Mutant: every revision but the last is cleaned up.
SyncHistoryAllButLast ==
  /\ pc = "sync"
  /\ todo' = Listed({v \in History(cached) : \E w \in History(cached) : v < w})
  /\ Goto("syncCleanup")
  /\ UNCHANGED <<crVars, store, objects, prev, rel, faults, others>>

\* Mutant: only failed revisions are cleaned up.
SyncHistoryFailedOnly ==
  /\ pc = "sync"
  /\ todo' = Listed({v \in Versions : cached[v].status = "failed"})
  /\ Goto("syncCleanup")
  /\ UNCHANGED <<crVars, store, objects, prev, rel, faults, others>>

SyncHistory ==
  /\ pc = "sync"
  /\ todo' = Listed(History(cached) \ DeployedAll(cached))
  /\ Goto("syncCleanup")
  /\ UNCHANGED <<crVars, store, objects, prev, rel, faults, others>>

\* Delete the records the history shows as not deployed.
SyncCleanup ==
  /\ pc = "syncCleanup"
  /\ \E r \in todo :
       \/ /\ Exists(r.version) /\ Works /\ WriteRelease(r.version, NoRelease)
          /\ todo' = todo \ {r} /\ Goto("syncCleanup")
       \/ /\ ~Exists(r.version) /\ Works /\ UNCHANGED store
          /\ todo' = todo \ {r} /\ Goto("syncCleanup")
       \/ Fails /\ SyncFails /\ UNCHANGED <<store, todo>>
  /\ UNCHANGED <<crVars, objects, prev, rel, others>>

\* getDeployedRelease
SyncDeployed ==
  /\ pc = "syncCleanup" /\ todo = {}
  /\ IF DeployedAll(cached) = {}
     THEN /\ GotoWith("install", Irreconcilable(FALSE))
          /\ UNCHANGED prev
     ELSE /\ LET v == Latest(DeployedAll(cached)) IN
               prev' = [version |-> v, status |-> "deployed",
                        manifest |-> cached[v].manifest]
          /\ Goto("candidate")
  /\ UNCHANGED <<crVars, store, objects, todo, rel, faults, others>>

\* What follows a finalizer that is in place.
NextOperation == IF prev.manifest # o.spec THEN "upgrade" ELSE "reconcile"

\* What an upgrade, or its dry run, needs before it records anything.
UpgradePossible ==
  /\ CanUpgrade(cached)
  /\ ~Conflict(Renders[o.spec] \ Renders[cached[CurrentRelease(cached)].manifest])

\* Mutant: a release found installed is taken to have the finalizer.
SyncCandidateTrusting ==
  /\ pc = "candidate"
  /\ CanUpgrade(cached) /\ Works
  /\ GotoWith(NextOperation, Irreconcilable(FALSE))
  /\ UNCHANGED <<crVars, store, objects, work, others>>

\* getCandidateRelease: a dry run of the upgrade.
SyncCandidate ==
  /\ pc = "candidate"
  /\ \/ /\ UpgradePossible /\ Works
        /\ GotoWith(IF o.finalizer THEN NextOperation ELSE "finalizer",
                    Irreconcilable(FALSE))
     \/ /\ ~UpgradePossible /\ Works /\ SyncFails
     \/ Fails /\ SyncFails
  /\ UNCHANGED <<crVars, store, objects, work, others>>

-----------------------------------------------------------------------------
(* manager.InstallRelease and Helm's install action *)

InstallFails == GotoWith("report", ReleaseFailed("install"))

\* Up to the creation of the pending record.  Before rendering an error comes
\* without a release; from rendering on the partial release comes with it,
\* and the manager then uninstalls whatever carries the release's name.
InstallBegin ==
  /\ pc = "install"
  /\ \/ \* the name is in use, by the informer's copy
        /\ History(cached) # {} /\ Works /\ InstallFails /\ UNCHANGED <<store, rel>>
     \/ Fails /\ InstallFails /\ UNCHANGED <<store, rel>>
     \/ Conflict(Renders[o.spec]) /\ Works /\ InstallFails /\ UNCHANGED <<store, rel>>
     \/ /\ History(cached) = {} /\ ~Conflict(Renders[o.spec])
        /\ \/ /\ ~Exists(1) /\ Works
              /\ WriteRelease(1, Record("pending-install", o.spec))
              /\ rel' = [version |-> 1, status |-> "pending-install",
                         manifest |-> o.spec]
              /\ Goto("installApply")
           \/ /\ \/ Exists(1) /\ Works
                 \/ Fails
              /\ Goto("uninstall") /\ UNCHANGED <<store, rel>>
  /\ UNCHANGED <<crVars, objects, todo, prev, others>>

\* Objects of an earlier attempt are adopted, so creating and patching agree.
InstallApply ==
  /\ pc = "installApply"
  /\ \/ /\ HelmApply(Renders[rel.manifest], rel.manifest)
        /\ Works /\ Goto("installRecord")
     \/ ApplySome(rel.manifest) /\ Fails /\ Goto("installFailed")
  /\ UNCHANGED <<crVars, store, work, others>>

InstallFailed ==
  /\ pc = "installFailed"
  /\ RecordRelease(rel.version, "failed", rel.manifest)
  /\ Goto("uninstall")
  /\ UNCHANGED <<crVars, objects, work, others>>

\* The record becomes deployed; not being able to store that is only logged.
InstallRecord ==
  /\ pc = "installRecord"
  /\ RecordRelease(rel.version, "deployed", rel.manifest)
  /\ GotoWith("installFinalizer", ReleaseFailed("none"))
  /\ UNCHANGED <<crVars, objects, work, others>>

AddFinalizer(next) ==
  /\ \/ /\ Accepted
        /\ cr' = [cr EXCEPT !.finalizer = TRUE]
        /\ o' = cr' /\ pc' = next
        /\ UNCHANGED <<fresh, status, work>>
     \/ Rejected /\ UNCHANGED cr /\ Return
  /\ UNCHANGED <<crStatus, store, objects, others>>

\* Only after the install is the finalizer added.
InstallFinalizer == pc = "installFinalizer" /\ AddFinalizer("hook")

\* The finalizer of a release that was found installed.
EnsureFinalizer == pc = "finalizer" /\ AddFinalizer(NextOperation)

\* The release hook, then the status of a successful reconciliation.
ReleaseHook ==
  /\ pc = "hook"
  /\ \/ /\ Works
        /\ GotoWith("report", [status EXCEPT !.deployed = "true",
                                             !.deployedRelease = rel.manifest])
        /\ UNCHANGED work
     \/ Fails /\ Return
  /\ UNCHANGED <<crVars, store, objects, others>>

-----------------------------------------------------------------------------
(* manager.UpgradeRelease and Helm's upgrade action *)

UpgradeFails == GotoWith("report", ReleaseFailed("upgrade"))

\* Up to the creation of the pending record.  Errors come without a release,
\* except those of building the objects: the reconciler then rolls back.
UpgradeBegin ==
  /\ pc = "upgrade"
  /\ \/ ~UpgradePossible /\ Works /\ UpgradeFails /\ UNCHANGED <<store, work>>
     \/ Fails /\ UpgradeFails /\ UNCHANGED <<store, work>>
     \/ CanUpgrade(cached) /\ Fails /\ Goto("rollback") /\ UNCHANGED <<store, work>>
     \/ /\ UpgradePossible /\ Works
        /\ LET v == CurrentRelease(cached)
               n == Latest(History(cached)) + 1 IN
             /\ n <= MaxVersion
             /\ \/ /\ ~Exists(n)
                   /\ WriteRelease(n, Record("pending-upgrade", o.spec))
                   /\ prev' = [version |-> v, status |-> cached[v].status,
                               manifest |-> cached[v].manifest]
                   /\ rel' = [version |-> n, status |-> "pending-upgrade",
                              manifest |-> o.spec]
                   /\ Goto("upgradeApply") /\ UNCHANGED todo
                \/ Exists(n) /\ UpgradeFails /\ UNCHANGED <<store, work>>
  /\ UNCHANGED <<crVars, objects, others>>

UpgradeApply ==
  /\ pc = "upgradeApply"
  /\ \/ /\ UpdateObjects(prev.manifest, rel.manifest)
        /\ Goto("upgradeSupersede")
     \/ /\ ApplySome(rel.manifest)
        /\ Fails /\ Goto("upgradeKeep")
     \/ \* a pre-upgrade or post-upgrade hook fails
        /\ \/ Fails /\ UNCHANGED objects
           \/ UpdateThenHookFails(prev.manifest, rel.manifest)
        /\ Goto("upgradeFailed")
  /\ UNCHANGED <<crVars, store, work, others>>

\* After a failure the original is recorded again as it was read.
UpgradeKeep ==
  /\ pc = "upgradeKeep"
  /\ RecordRelease(prev.version, prev.status, prev.manifest)
  /\ Goto("upgradeFailed")
  /\ UNCHANGED <<crVars, objects, work, others>>

UpgradeFailed ==
  /\ pc = "upgradeFailed"
  /\ RecordRelease(rel.version, "failed", rel.manifest)
  /\ Goto("rollback")
  /\ UNCHANGED <<crVars, objects, work, others>>

\* Mutant: the original is not superseded.
UpgradeSupersedeNot ==
  /\ pc = "upgradeSupersede"
  /\ Goto("upgradeDeploy")
  /\ UNCHANGED <<crVars, store, objects, work, faults, others>>

UpgradeSupersede ==
  /\ pc = "upgradeSupersede"
  /\ RecordRelease(prev.version, "superseded", prev.manifest)
  /\ Goto("upgradeDeploy")
  /\ UNCHANGED <<crVars, objects, work, others>>

\* Failing to store the deployed release fails the upgrade, with a release.
UpgradeDeploy ==
  /\ pc = "upgradeDeploy"
  /\ \/ /\ Updates(rel.version, "deployed", rel.manifest)
        /\ GotoWith("hook", ReleaseFailed("none"))
     \/ /\ UpdateFails(rel.version)
        /\ Goto("rollback")
  /\ UNCHANGED <<crVars, objects, work, others>>

-----------------------------------------------------------------------------
(* manager.RollBack and Helm's rollback action; every error is only logged *)

\* Mutant: the rollback goes back to the failed revision itself.
RollbackBeginLast ==
  /\ pc = "rollback"
  /\ LET last == Latest(History(cached)) IN
     \/ /\ Works /\ last = MaxVersion /\ UpgradeFails /\ UNCHANGED <<store, work>>
     \/ /\ Works /\ last < MaxVersion /\ Exists(last) /\ ~Exists(last + 1)
        /\ LET m == releases[last].manifest IN
             /\ WriteRelease(last + 1, Record("pending-rollback", m))
             /\ rel' = [version |-> last + 1, status |-> "pending-rollback",
                        manifest |-> m]
        /\ prev' = [version |-> last, status |-> cached[last].status,
                    manifest |-> cached[last].manifest]
        /\ Goto("rollbackApply") /\ UNCHANGED todo
  /\ UNCHANGED <<crVars, objects, others>>

HasPrevious == History(cached) # {} /\ Latest(History(cached)) - 1 \in History(cached)

\* The revision before the last one must be in the informer's copy; its
\* contents come from the API server.
RollbackBegin ==
  /\ pc = "rollback"
  /\ LET last == Latest(History(cached)) IN
     \/ /\ \/ Fails
           \/ Works /\ ~HasPrevious
           \/ /\ Works /\ HasPrevious /\ last < MaxVersion
              /\ ~Exists(last - 1) \/ Exists(last + 1)
        /\ UpgradeFails /\ UNCHANGED <<store, work>>
     \/ /\ Works /\ HasPrevious /\ last < MaxVersion
        /\ Exists(last - 1) /\ ~Exists(last + 1)
        /\ LET m == releases[last - 1].manifest IN
             /\ WriteRelease(last + 1, Record("pending-rollback", m))
             /\ rel' = [version |-> last + 1, status |-> "pending-rollback",
                        manifest |-> m]
        /\ prev' = [version |-> last, status |-> cached[last].status,
                    manifest |-> cached[last].manifest]
        /\ Goto("rollbackApply") /\ UNCHANGED todo
  /\ UNCHANGED <<crVars, objects, others>>

\* Unlike the upgrade, the rollback adopts nothing: an object of the target
\* that is in the cluster but not in the current manifest is an error.
Unadopted == {x \in Renders[rel.manifest] \ Renders[prev.manifest] :
                cluster[x] # "absent"}

\* An error before the objects are touched, or of the hook after it, leaves
\* the record pending.
RollbackApply ==
  /\ pc = "rollbackApply"
  /\ \/ /\ Unadopted = {}
        /\ UpdateObjects(prev.manifest, rel.manifest)
        /\ todo' = Listed(DeployedAll(cached))
        /\ Goto("rollbackSupersede")
     \/ /\ \/ ApplySome(rel.manifest) /\ Fails
           \/ /\ Unadopted # {} /\ Works
              /\ \E S \in SUBSET (Renders[rel.manifest] \ Unadopted) :
                   HelmApply(S, rel.manifest)
        /\ Goto("rollbackFailCurrent") /\ UNCHANGED todo
     \/ Fails /\ UpgradeFails /\ UNCHANGED <<objects, todo>>
     \/ /\ Unadopted = {} /\ UpdateThenHookFails(prev.manifest, rel.manifest)
        /\ UpgradeFails /\ UNCHANGED todo
  /\ UNCHANGED <<crVars, store, prev, rel, others>>

RollbackFailCurrent ==
  /\ pc = "rollbackFailCurrent"
  /\ RecordRelease(prev.version, "superseded", prev.manifest)
  /\ Goto("rollbackFailTarget")
  /\ UNCHANGED <<crVars, objects, work, others>>

RollbackFailTarget ==
  /\ pc = "rollbackFailTarget"
  /\ RecordRelease(rel.version, "failed", rel.manifest)
  /\ UpgradeFails
  /\ UNCHANGED <<crVars, objects, work, others>>

RollbackSupersede ==
  /\ pc = "rollbackSupersede"
  /\ \/ \E r \in todo : /\ RecordRelease(r.version, "superseded", r.manifest)
                        /\ todo' = todo \ {r} /\ Goto("rollbackSupersede")
     \/ todo = {} /\ Works /\ Goto("rollbackDeploy") /\ UNCHANGED <<store, todo>>
  /\ UNCHANGED <<crVars, objects, prev, rel, others>>

RollbackDeploy ==
  /\ pc = "rollbackDeploy"
  /\ RecordRelease(rel.version, "deployed", rel.manifest)
  /\ UpgradeFails
  /\ UNCHANGED <<crVars, objects, work, others>>

-----------------------------------------------------------------------------
(* manager.ReconcileRelease: recreate and patch the deployed objects *)

\* Mutant: missing objects are created, changed ones are not patched.
ReconcileReleaseCreating ==
  /\ pc = "reconcile"
  /\ cluster' = Apply({x \in Renders[prev.manifest] : cluster[x] = "absent"},
                      prev.manifest, cluster)
  /\ Works /\ rel' = prev
  /\ GotoWith("hook", [ReleaseFailed("none") EXCEPT !.irreconcilable = FALSE])
  /\ UNCHANGED <<crVars, store, marked, todo, prev, others>>

\* What it recreates carries no ownership metadata of Helm's.
ReconcileRelease ==
  /\ pc = "reconcile"
  /\ LET s == ReleaseFailed("none") IN
     \/ /\ cluster' = Apply(Renders[prev.manifest], prev.manifest, cluster)
        /\ Works /\ GotoWith("hook", [s EXCEPT !.irreconcilable = FALSE])
        /\ rel' = prev
     \/ /\ \E S \in SUBSET Renders[prev.manifest] :
             cluster' = Apply(S, prev.manifest, cluster)
        /\ Fails /\ GotoWith("report", [s EXCEPT !.irreconcilable = TRUE])
        /\ UNCHANGED rel
  /\ UNCHANGED <<crVars, store, marked, todo, prev, others>>

Reconciler ==
  \/ ReconcileStart \/ ReportStatus
  \/ UninstallBegin \/ UninstallDelete \/ UninstallPurge
  \/ DeletionStatus \/ CleanupRelease \/ RemoveFinalizer
  \/ SyncHistory \/ SyncCleanup \/ SyncDeployed \/ SyncCandidate
  \/ InstallBegin \/ InstallApply \/ InstallFailed \/ InstallRecord
  \/ InstallFinalizer \/ EnsureFinalizer \/ ReleaseHook
  \/ UpgradeBegin \/ UpgradeApply \/ UpgradeKeep \/ UpgradeFailed
  \/ UpgradeSupersede \/ UpgradeDeploy
  \/ RollbackBegin \/ RollbackApply \/ RollbackFailCurrent
  \/ RollbackFailTarget \/ RollbackSupersede \/ RollbackDeploy
  \/ ReconcileRelease

-----------------------------------------------------------------------------
(* The environment *)

\* The reconciler's copy is stale from here on.
Stale == fresh' = FALSE /\ UNCHANGED <<pc, o, status, work>>

UserEdit ==
  /\ edits > 0 /\ edits' = edits - 1
  /\ cr.phase # "absent"
  /\ \E s \in Specs, a \in {"none", "uninstall-wait", "bad-period"} :
       cr' = [cr EXCEPT !.spec = s, !.annotation = a]
  /\ cr' # cr
  /\ Stale
  /\ UNCHANGED <<crStatus, store, objects, faults, crashes, drifts>>

UserDelete ==
  /\ cr.phase = "live"
  /\ cr' = [cr EXCEPT !.phase = "deleting"]
  /\ Stale
  /\ UNCHANGED <<crStatus, store, objects, faults, others>>

\* Somebody deletes or changes an object of the chart.
UserDrift ==
  /\ drifts > 0 /\ drifts' = drifts - 1
  /\ \E x \in Objects, c \in {"terminating", "drifted"} :
       /\ cluster[x] \in Specs
       /\ cluster' = [cluster EXCEPT ![x] = c]
  /\ UNCHANGED <<crVars, store, marked, local, faults, crashes, edits>>

\* The API server removes a deleted CR once it has no finalizer.
CRGone ==
  /\ cr.phase = "deleting" /\ ~cr.finalizer
  /\ cr' = [cr EXCEPT !.phase = "absent"]
  /\ Stale
  /\ UNCHANGED <<crStatus, store, objects, faults, others>>

\* A deleted object disappears.
ObjectGone ==
  /\ \E x \in Objects : /\ cluster[x] = "terminating"
                        /\ cluster' = [cluster EXCEPT ![x] = "absent"]
                        /\ marked' = marked \ {x}
  /\ UNCHANGED <<crVars, store, local, faults, others>>

\* The garbage collector removes what only the deleted CR owned: the release
\* Secrets and the objects that carry an owner reference.
GarbageCollect ==
  /\ cr.phase = "absent"
  /\ \/ \E v \in Versions : Exists(v) /\ WriteRelease(v, NoRelease) /\ UNCHANGED cluster
     \/ \E x \in Owned : /\ cluster[x] \notin {"absent", "terminating"}
                         /\ cluster' = [cluster EXCEPT ![x] = "terminating"]
                         /\ UNCHANGED store
  /\ UNCHANGED <<crVars, marked, local, faults, others>>

\* The informer processes the next watch event.
WatchDeliver ==
  /\ watchq # <<>>
  /\ cached' = [cached EXCEPT ![Head(watchq)[1]] = Head(watchq)[2]]
  /\ watchq' = Tail(watchq)
  /\ UNCHANGED <<crVars, releases, objects, local, faults, others>>

\* The operator dies and restarts; the informer lists again before it is used.
Crash ==
  /\ crashes > 0 /\ crashes' = crashes - 1
  /\ pc # "idle"
  /\ UNCHANGED crVars
  /\ Return
  /\ cached' = releases /\ watchq' = <<>>
  /\ UNCHANGED <<releases, objects, faults, edits, drifts>>

Environment == \/ UserEdit \/ UserDelete \/ UserDrift \/ CRGone \/ ObjectGone
               \/ GarbageCollect \/ WatchDeliver \/ Crash

Next == Reconciler \/ Environment

Spec == Init /\ [][Next]_vars

\* A request is always requeued (watch events, the reconcile period, back-off
\* after an error), the informer keeps up, and the API server finishes
\* deletions it has accepted.
Fairness == /\ WF_vars(Reconciler) /\ WF_vars(WatchDeliver)
            /\ WF_vars(ObjectGone) /\ WF_vars(CRGone) /\ WF_vars(GarbageCollect)

FairSpec == Spec /\ Fairness
=============================================================================
