---------------------- MODULE HelmOperatorProperties ----------------------
(***************************************************************************)
(* What the Helm operator promises about release records, finalizers,      *)
(* cluster objects and status.                                             *)
(***************************************************************************)
EXTENDS HelmOperator

\* The objects a manifest stands for; no manifest, no objects.
ObjectsOf(m) == IF m \in Specs THEN Renders[m] ELSE {}

FinalizerRemoved == cr.finalizer /\ ~cr'.finalizer

\* A live CR that reports Deployed carries the uninstall finalizer, whatever
\* crashed, failed or was edited between the install and the finalizer
\* (Reconcile adds the finalizer before it stores the Deployed condition).
DeployedImpliesFinalizer ==
  cr.phase = "live" /\ crStatus.deployed = "true" => cr.finalizer

\* A record that is deployed at the API server is removed only by the purge
\* of an uninstall or, once the CR is gone, by the garbage collector; in
\* particular Sync's cleanup of non-deployed versions never removes it.
DeployedRecordKept ==
  [][\A v \in Versions :
       releases[v].status = "deployed" /\ releases'[v].status = "none"
         => pc = "purge" \/ cr.phase = "absent"]_vars

\* The finalizer is removed only when no record of the release is left:
\* UninstallRelease has purged them or has found none.
FinalizerAfterPurge ==
  [][FinalizerRemoved => History(releases) = {}]_vars

\* The finalizer is removed only when every object of the chart that is not
\* kept by policy is gone or being deleted.
FinalizerAfterObjects ==
  [][FinalizerRemoved => \A x \in Objects \ Keep :
       cluster[x] \in {"absent", "terminating"}]_vars

\* An uninstall removes the last record of the release only after the objects
\* of that record's manifest: whatever fails, crashes or drifts in between,
\* an uninstall that is cut off leaves a record from which a later one finds
\* the objects (UninstallRelease deletes first and purges then).
LastRecordAfterObjects ==
  [][pc = "purge" /\ cr.phase # "absent" /\ History(releases) # {} /\ History(releases') = {}
       => \A x \in ObjectsOf(releases[Latest(History(releases))].manifest) \ Keep :
            cluster[x] \in {"absent", "terminating"}]_vars

\* With the uninstall-wait annotation the finalizer is removed only when all
\* objects of status.deployedRelease.manifest are really gone.
WaitHonoursStatus ==
  [][FinalizerRemoved /\ cr.annotation = "uninstall-wait"
       => \A x \in ObjectsOf(crStatus.deployedRelease) \ Keep :
            cluster[x] = "absent"]_vars

\* A rollback goes back to the release that is recorded as deployed, never
\* to one from before it (RollBack reverses a partially applied upgrade).
RollbackRestores ==
  pc = "rollbackApply" /\ DeployedAll(releases) # {}
    => rel.manifest = releases[Latest(DeployedAll(releases))].manifest

\* At most one revision is recorded as deployed: upgrade and rollback
\* supersede the old one before they record the new one.
AtMostOneDeployed == \A v, w \in DeployedAll(releases) : v = w

\* The state a live CR should reach: the rendered objects are in place, a
\* deployed record and the status say so, and the finalizer is set.
Settled ==
  /\ crStatus.deployed = "true" /\ crStatus.deployedRelease = cr.spec
  /\ crStatus.releaseFailed = "none" /\ ~crStatus.irreconcilable
  /\ \A x \in Renders[cr.spec] : cluster[x] = cr.spec
  /\ cr.finalizer
  /\ \E v \in DeployedAll(releases) : releases[v].manifest = cr.spec

\* The operator acts on the CR: it is not deleted and its reconcile-period
\* annotation parses.
Reconciled == cr.phase = "live" /\ cr.annotation # "bad-period"

\* After finitely many edits, failing requests and restarts every CR settles:
\* Sync's cleanup, reinstall, rollback and retry end in the desired state.
Converges == <>[](Reconciled => Settled)

\* Without failing requests and restarts nothing else is left behind either.
ConvergesExactly ==
  <>[](Reconciled => /\ Settled
                     /\ \A x \in Objects \ (Keep \cup Renders[cr.spec]) :
                          cluster[x] = "absent")

\* What decisions on a history that is one event behind have destroyed is
\* repaired, crashes included: the CR settles once the informer is up to date
\* whenever a reconciliation starts to sync.  A failing request, a change by
\* others or a second event under way may leave an object the operator
\* does not adopt; the constants of the run exclude them.
ConvergesOnceCurrent ==
  <>[](pc = "sync" => watchq = <<>>) => Converges

\* A deleted CR goes away (unless its reconcile-period annotation stays
\* unparsable): uninstall, wait and finalizer removal are retried until done.
DeletionCompletes ==
  cr.phase = "deleting" ~> cr.phase = "absent" \/ cr.annotation = "bad-period"
=============================================================================
