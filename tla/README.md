# A TLA+ verification of ocp-release-operator-sdk

This directory holds TLA+ models of the operator-sdk code base, the TLC
configurations that check them on small instances, and TLAPS proofs of what
holds for every instance. Definitions are translated from the Go source;
`PROJECT.json` maps each one to the lines it stands for.

The repository is two programs built from one tree: `helm-operator`, a
long-running controller, and `operator-sdk`, a command line tool that drives the
Operator Lifecycle Manager (OLM), runs scorecard tests and generates and
validates manifests. The controller is where most of the concurrency and failure
handling is; the commands are sequential programs beside a cluster that acts on
its own, and repeated on whatever an earlier command has left.

## Inventory

### The Helm operator

| Part | State | Operations | Talks to |
|---|---|---|---|
| Reconciler, `internal/helm/controller/reconcile.go` | a copy of the CR and the status it builds, for one reconciliation | `Reconcile`: deletion branch, sync, install, upgrade with rollback, reconcile, finalizers, status | API server, release manager, release hook |
| Release manager, `internal/helm/release` | per reconciliation: deployed release, `isInstalled`, `isUpgradeRequired`; release name; values | `Sync`, `InstallRelease`, `UpgradeRelease`, `RollBack`, `ReconcileRelease`, `UninstallRelease`, `CleanupRelease`, `getReleaseName`, `parseOverrides` | Helm actions, release storage, API server |
| Helm actions and storage, `vendor/helm.sh/helm/v3/pkg` | one Secret per release revision | install, upgrade, rollback, uninstall; queries and updates of records; kube client | API server |
| Client layer, `internal/helm/client` | one Secret informer per namespace, in a map shared by all reconciliations; owner marks on what is created | `ActionConfigFor`, `getWatchedSecretsForNamespace`, `WatchedSecrets` | API server, watch |
| CR status, `internal/helm/internal/types` | conditions, `deployedRelease` | `StatusFor`, `SetCondition`, `RemoveCondition` | reconciler |
| Dependent watches, `internal/helm/controller/controller.go` | a map of watched kinds behind a RW mutex, shared by all reconciliations | the release hook | controller-runtime |

controller-runtime runs `Reconcile` for a CR, never twice at once for the same
CR. Release records are listed from an informer while `Get`, `Create`, `Update`
and `Delete` go to the API server. Users edit and delete the CR, other clients
change objects, the garbage collector follows owner references, and the process
may die at any point.

What is hard: every API request may fail or be overtaken; the CR copy goes stale
while a reconciliation runs, and `RetryOnConflict` re-sends the same stale
object; the history that decides what is deleted lags behind the history that is
deleted; Helm logs instead of returning the errors of several record updates; a
crash leaves pending records and half-applied objects; the finalizer is added
after the install and removed after an uninstall that knows one revision only;
two maps are shared by reconciliations and locked for part of their use.

What makes it correct: a CR that reports Deployed is protected by the finalizer;
the finalizer goes only when records and objects are gone; `uninstall-wait`
waits; a deployed record is never lost; a failed upgrade ends in the release that
was deployed; every kind of a released manifest is watched; no reconciliation
reads from an informer that has not synced; in the end the cluster, the records
and the status say what the spec says, and a deleted CR goes away.

### operator-sdk

| Part | State and operations | Hard behaviour | Correct means |
|---|---|---|---|
| OLM installer client, `internal/olm/client`, `internal/olm/installer` | objects of an OLM version; create in order (`DoCreate`, retried while a kind is not served), wait for rollouts and CSVs, delete in order and wait (`DoDelete`), status | the first error stops a list half-way; one deadline bounds all waits; deletion cascades | success means complete; repetition recovers from what was cut off |
| Operator installer and uninstall, `internal/olm/operator` | catalog source, registry pod, operator group, subscription, install plan, CSV; `InstallOperator`, `UpgradeOperator`, `Uninstall.Run` | OLM acts concurrently; a plan is recognised as new by its name; a command is cut off between any two requests | success only with the CSV served by the named pod; cleanup leaves nothing; the group is the one asked for |
| File-based catalogs, `fbcutil`, `index_image.go` | catalog served, annotations it can be rebuilt from; run, first and later upgrades | two algorithms for first and later upgrades; several heads, missing channel | the new bundle is the head and the old head upgrades to it |
| Registry pods, `registry/index`, `registry/fbcindex` | catalog split over compressed ConfigMaps; pod with init container | ConfigMaps of an earlier command; a pod is taken for ready by its phase | every document once; what the pod serves is its command's catalog |
| ConfigMap registry, `registry/configmap` | ConfigMaps, deployment, service owned by the catalog source | stale contents, lagging garbage collection | the registry has the contents of the directory given last |
| Scorecard, `internal/scorecard` and its command | ConfigMap, pods, result channel, deadline; stages, goroutines, cleanup, output, exit status | a time-out cancels tests while others report; calls applied after the client gave up | one verdict per selected test; a test starts only when those before it are reported; nothing left behind |
| Built-in tests, `internal/scorecard/tests`, kuttl converter | verdict accumulated over CRs and CRD versions | early returns, shared result | the verdict says what the bundle has |
| Collection, `internal/generate/collector` | one list per kind | one set of hashes for all lists; replaced lists | examples match CRDs, only copies removed |
| CSV updaters, `internal/generate/clusterserviceversion`, related images | permissions, descriptions, descriptors, webhooks, images | look-up maps edited while used, Go map order, joined names | equal to a definition that does not follow the loops |
| Bundle generation, package manifests, migration, `cmd/operator-sdk/generate`, `pkgmantobundle`, `bundleutil` | files on disk, written one after the other | any write fails; regenerations after edits | what succeeded is complete and current; nothing hand-written lost |
| Bundle validation, `cmd/operator-sdk/bundle/validate`, `internal/validate` | temporary directory, findings, external processes and their pipe | command and process wait for each other; findings merged | the exit code agrees with the findings read, nothing left, the command ends |
| Helm operator process, scaffolding plugins, flag wiring, bindata, samples | files and flags | none | not modelled, see below |

## Modules

| Module | What it is |
|---|---|
| `HelmStorage` | release records and the queries on them |
| `HelmOperator` | reconciler, manager, Helm actions, API server, informer, users, garbage collector and crashes, for one CR |
| `HelmOperatorProperties` | its properties |
| `DependentWatches` | the release hook run by several workers on one watch table |
| `SecretInformers` | creation of Secret informers under a mutex by several reconciliations |
| `HelmConditions` | the slice of status conditions |
| `ReleaseValues` | the spec merged with overrides, in the order of a Go map |
| `OLMInstall` | `olm install`, `olm uninstall` and the API server around them |
| `OperatorInstall` | `run bundle`, `run bundle-upgrade`, `cleanup`, and OLM |
| `FileBasedCatalog` | the catalog built for a run and for each upgrade |
| `RegistryPods` | the catalog split over ConfigMaps, and the pods |
| `ConfigMapRegistry` | `run packagemanifests` with the garbage collector |
| `TestRun` | what a scorecard run promises (abstract) |
| `Scorecard` | the scorecard command and its runner (implements `TestRun`) |
| `ScorecardTests` | the built-in tests and the kuttl converter |
| `ManifestCollector` | collection, selection of examples, deduplication |
| `BundleRBAC` | roles and bindings split into CSV permissions and bundle files |
| `CSVDefinitions` | owned CRD descriptions from API markers, merged over runs |
| `WebhookDescriptions` | webhooks matched to services and deployments |
| `RelatedImages` | related images found in container environments |
| `BundleGeneration` | `generate kustomize manifests` and `generate bundle` as sequences of writes |
| `PackageManifests` | `generate packagemanifests` and `pkgman-to-bundle` |
| `BundleValidation` | `bundle validate` with external validators |
| `HelmHelpers`, `OLMCommands`, `BundleCommands`, `ManifestCommands` | the components that one run checks and one proof module is about, side by side, with their properties and with the hypotheses of the theorems |
| `MCHelmOperator`, `MCHelmHelpers`, `MCOLMCommands`, `MCManifests`, `MCBundleCommands`, `MCScorecard` | instances for TLC |
| `HelmOperatorProofs`, `HelmSafetyProofs`, `HelmRecordProofs` | proofs about the reconciler |
| `HelmHelperProofs` | proofs about watches, informers, conditions and values |
| `OLMProofs` | proofs about `olm install`, `run packagemanifests`, `run bundle`, `cleanup`, catalogs and registry pods |
| `BundleProofs` | proofs about `bundle validate`, `generate bundle`, `generate packagemanifests` and `pkgman-to-bundle` |
| `ManifestProofs` | proofs about collection, the CSV updaters, related images and the built-in tests |
| `ScorecardProofs` | proofs about the scorecard run and its refinement |

### How `HelmOperator` corresponds to the code

State. `cr` and `crStatus` are the CR at the API server. `releases` are the
release Secrets, `cached` the informer's copy, `watchq` the events between the
two. `cluster` maps every object of the chart to what it was rendered from, or
to *drifted* (changed by others), *terminating* or *absent*; `marked` are the
objects that carry Helm's ownership metadata. `pc`, `o`, `fresh`, `status`,
`todo`, `prev` and `rel` are the locals of the running reconciliation: the next
step, the CR as it was read, whether that copy still has the current
`resourceVersion`, the status under construction, the releases a loop still has
to handle, and the releases Helm's action works on.

Actions. There is one action per API request that changes something, or per
reading whose staleness matters, so that everything else can happen between any
two of them. `ReconcileStart` and `ReportStatus` are the entry and the final
status update. `UninstallBegin`, `UninstallDelete`, `UninstallPurge` are Helm's
uninstall, run for a deleted CR or to clean up after a failed install (then
`o.phase` is *live* and the outcome is dropped, as in `InstallRelease`);
`DeletionStatus`, `CleanupRelease` and `RemoveFinalizer` finish the deletion.
`SyncHistory`, `SyncCleanup`, `SyncDeployed` and `SyncCandidate` are `Sync`.
`Install*`, `Upgrade*`, `Rollback*` are Helm's actions with the options the
manager sets; `ReconcileRelease` re-creates and patches; `InstallFinalizer`,
`EnsureFinalizer` add the finalizer; `ReleaseHook` is the hook and the status of
success. Early returns that change nothing are guards of `ReconcileStart`.

Errors. `Fails` spends one of `MaxFaults`; wherever the code calls the API server
or runs a chart hook there is a failing alternative that follows the code's error
path, including the ones that are only logged (`recordRelease`, the deletion of
objects at the end of `kube.Client.Update`) and the ones that leave part of the
objects applied. An update of the CR is accepted only when `fresh`: the retry in
`updateResource` re-sends the same object, so a conflict stays one.

Environment. `UserEdit` changes spec and annotations, `UserDelete` deletes the
CR, `UserDrift` deletes or changes an object, `CRGone` and `ObjectGone` complete
deletions, `GarbageCollect` removes what the CR owned, `WatchDeliver` hands the
informer its next event, `Crash` loses the locals and restarts with a fresh list.

Abstractions. A manifest is the spec it was rendered from. Rendering, the content
of patches and of hooks, messages and times are left out. Objects that cannot
carry an owner reference are those outside `Owned`. With `MaxLag = 0` every write
is in the informer's copy at once; with `MaxLag = n` at most `n` events are under
way, and a further write delivers the oldest of them in the same step. No write
waits for the informer. The CR is read at the API server: the controller's client
is made with `client.New` and reads unstructured objects without a cache
(`run/cmd.go:159`), whatever the comment at `reconcile.go:205` says.

### The other modules of the Helm operator

`DependentWatches`. `table` is the map `watches`, `started` counts successful
`c.Watch` calls. A worker's hook walks the documents of its release's manifest
(`NextDocument`), looks a kind up under the read lock (`LookUp`), starts the watch
without a lock (`StartWatch`, or `WatchFails`), and enters it under the write
lock (`Insert`); `HookReturns` ends it, and a hook that failed is called again
with the next reconciliation.

`SecretInformers`. `Lock` … `Unlock` are the critical section of
`getWatchedSecretsForNamespace`, which lasts until the informer has synced;
`Read` is the look-up after it, and `FatalRead` the end of the process when the
runtime notices that it coincides with a write of the map. Restarts are bounded.

`HelmConditions` and `ReleaseValues` are the conditions with a clock and the
merging of values over paths of keys. A recursive call of `mergeMaps` is a step on
the path of the map it merges: it takes the subtrees of the overrides that are not
maps in both trees and leaves the others to further calls.

### The modules of operator-sdk

Every command is a process: `pc` and the variables beside it are its locals and
are lost when it ends, the other variables are the cluster or the files. A
command is cut off by `Abort`, `TimeOut` or a failing write at the steps where it
waits or writes; the next command starts from what is left.

`OLMInstall`. `state` is *absent*, *present* or *terminating* for every object of the
manifest, `served` what discovery knows, `known` the REST mappings the process has
made. `CheckExisting`, `SafeCreateOneResource`, `AwaitCRDs`, `AwaitRollouts` are
`InstallVersion`; `GetInstalledVersion`, `UninstallVersion`, `DeleteOne`,
`AwaitGone` are the uninstall. The environment establishes definitions, deletes
objects of a deleted kind or namespace, and finishes deletions.

`OperatorInstall`. One action per request of `InstallOperator`, `UpgradeOperator`
and `Uninstall.Run`; OLM's part is `GeneratePlan`, `InstallCSV`, `SucceedCSV` and
the collection of pods. An install plan is named by the version it installs, an
operator group by its targets and by whether operator-sdk has made it.

`FileBasedCatalog` models the catalog as packages, channels with replaces edges
and bundles; `ConvertToModel` is the validation that refuses several heads. In
`RegistryPods` any document but the first may begin the next ConfigMap: the code
decides by compressed sizes, which are not modelled. A pod is *running* once its
container has started. A SQLite pod then adds its bundles one by one and serves
after the last; a container that fails starts again with nothing added. The
command looks at the phase only, so a pod that has added nothing yet, or restarts
for ever, counts as ready (`registry_pod.go:178`). `ConfigMapRegistry` names
objects' owners by the generation of their catalog source, so that a late garbage
collector is a step.

`Scorecard`. `step[t]` is the goroutine or the call that runs test `t`, `output`
the channel with the capacity the code gives it, `expired` the deadline, `late`
the requests the server may apply after the client gave up. `Setup`, `List`,
`CreateConfigMap`, `NextStage`, `CollectStage`, `CheckDeadline`, `DeletePods`,
`DeleteConfigMap` and `PrintAndExit` are the command; a panic on output without a
status is an exit. A stream that cannot be gathered is only logged
(`storage.go:76`) and the test's log is read all the same. `ScorecardTests` are
the verdicts printed in the pods.

`ManifestCollector`, `BundleRBAC`, `CSVDefinitions`, `WebhookDescriptions` and
`RelatedImages` compute one part each, in the steps of the code's loops, with the
order of Go maps left open; `BundleGeneration` and `PackageManifests` take what is
collected as given and are about the writes; with `--use-image-digests` the CSV
alone is pinned, as `FromDirectory` skips every other manifest. In
`BundleValidation` an external validator is a process that writes chunks into a
bounded pipe beside the decoder, which reads one JSON value: a `ManifestResult`,
something it refuses, or no JSON.

### Refinement

`Scorecard` implements `TestRun` (`MCScorecard!ImplementsTestRun`, a property of
the run `scorecard`): a test's verdict is the one of its result in the channel or
in the output list, and the outcome is the exit status. That it holds means that
no goroutine, time-out or failing call loses or revises a verdict, that status 0
needs a passing verdict of every selected test, and that the command ends. Each
of these takes several actors: the channel must have room for all tests of a
stage because nobody receives before the stage ends.

## Runs

| Run | Instance | Shows |
|---|---|---|
| `helm_faults` | lag 0, one fault, crash, edit and drift, fair | types, `DeployedImpliesFinalizer`, `RollbackRestores`, `DeployedRecordKept`, `FinalizerAfterPurge`, `LastRecordAfterObjects`, `WaitHonoursStatus` with one failing request and one crash anywhere; `Converges`, `DeletionCompletes`: every failure and crash is recovered from |
| `helm_quiet` | lag 0, no faults, two edits, one drift, fair | `AtMostOneDeployed`, `FinalizerAfterObjects`, `ConvergesExactly`: exactly the right objects remain |
| `helm_lag` | lag 1, one edit, one crash, fair | `ConvergesOnceCurrent`: a decision on a stale history does no lasting harm |
| `helm_helpers` | two workers, three kinds and four releases for the watches, two failing calls; three workers, two namespaces, a restart for the informers; three condition types; all value trees over seven paths of up to three keys with up to three overrides | `HookCovers`; `SyncedBeforeUse`, `Served`; `TransitionTimeFaithful`; `MergeIsOverride` |
| `olm_commands` | two installs and two aborts of OLM with six objects; four commands, two versions, five install modes and four sets of existing groups; five kinds of index and four injected bundles; four catalogs in turn, two of each format; three runs of three package directories | `OutcomeComplete`; `SuccessServed`, `CleanupComplete`, `CommandsEnd`; `UpgradePath`; `PodServesCatalog`; `RegistryCurrent` |
| `manifests` | up to three documents of eleven kinds; bindings of two kinds with all pairs of subjects; five kinds with two runs over the same base; two deployments, services, webhooks and converting CRDs; five variables in three containers; every pair of CRs, CRD versions or owned CRDs over two fields | `ExamplesExact`; `PermissionsExact`; `OwnedMerged`; `DeploymentServes`; `ImagesListedOnce`; `SpecDescriptorsExact` |
| `bundle_commands` | three generate commands, an edit and a failing write over three projects; four package commands over two versions, two channels and five layouts; every place of an error with up to two external validators that print up to two results or something else | `BundleReflectsInput`; `Migrated`, `ChannelsKept`; `VerdictExact`, `Returns` |
| `scorecard` | a parallel, an empty and a sequential stage, failing calls, garbage output, deadline, late requests | `StagesIsolated`, `NoRemainders`, `ImplementsTestRun` |

The `helm_*` runs of one CR use two specs, `s1` rendering `{a}` and `s2` rendering
`{a, b, c}`: `a` is owned by the CR, `b` is not, and `c` is kept by resource policy
(in `helm_quiet` nothing is kept). An upgrade in either direction then patches a
common object and adds or removes others, which is all the code distinguishes.
`MaxVersion` cuts nothing off: in every passing run no record of the last
revision is ever reached. The bounds are the smallest at which the hazards occur:
one fault inside an operation and one crash inside its recovery, an edit or
deletion between two requests, a drift before or during a reconciliation, an
event under way while a history is listed.

The runs `helm_helpers`, `olm_commands`, `manifests` and `bundle_commands` put
several components into one module. A behaviour is one of a single component: the
initial state starts one of them and sets the variables of the others to values
at which they take no step (`…Off`). The states are the sum, not the product, of
the components' states, and the fairness of a resting component asks for nothing.

The commands' bounds follow one rule: one more command than a mistake needs to
show. A command leaves something, another one builds on it, the third one reads
it; two aborts allow the recovery from a cut-off command to be cut off as well.
The pipe holds two chunks and validators print up to four; every way to split
three or four documents over ConfigMaps is taken, and the third command's split
may be shorter or longer than what the first has left.

`CHECK_DEADLOCK` is off in all configurations because the systems do stop: a
command ends, the bounded commands are used up, the CR is gone. That nothing
stops too early is what the liveness properties say.

Four runs check what the code's own words promise and find a behaviour of the
code that breaks it:

* `helm_lag_sync`. `Sync` lists the history from the informer and deletes what is
  not deployed there. After an install whose last event is under way the listed
  record is still `pending-install`: the deployed record is deleted
  (`manager.go:112`; "Cleanup non-deployed release versions").
* `cleanup_retry`. The CSV is found through the subscription only, which is
  deleted first. After a time-out between the two, a repeated `cleanup` reports
  success with the CSV still there (`uninstall.go:101`). The passing run
  `olm_commands` therefore cuts commands off at every step (`AbortAt`) but between
  a cleanup's deletions and while waiting for the CSV: a command cut off there
  leaves an approved install plan, which OLM may carry out after a later cleanup.
* `scorecard_exit`. A test whose status has no results does not fail the run
  (`scorecard/cmd.go:279`). In the run `scorecard` no container prints such a
  status, and `ImplementsTestRun` says the rest.
* `bundle_findings`. The documentation has a validator "take each of the
  ManifestResults and print to STDOUT" (`custom-bundle-validation.md:176`);
  `RunExternalValidators` decodes the first (`external.go:67`), so an error in a
  later one is lost and the bundle passes. `VerdictExact` is therefore about the
  first result of each validator.

### Limits of the passing runs that are limits of the code

Each of these is a constant or a premise of a passing run; relaxing it makes TLC
find the behaviour described.

* `MaxLag > 1`, or `MaxLag = 1` with a fault or a drift: `reconcileRelease`
  re-creates an object without Helm's ownership marks; if the record is then lost
  as in `helm_lag_sync`, every later install stops at that object
  (`manager.go:285`), against `ConvergesOnceCurrent`.
* `MaxLag > 0`: a release the informer has not seen is "not found" and counts as
  uninstalled (`reconcile.go:131`), against `FinalizerAfterPurge`.
* Crashes: uninstall deletes the objects of the last revision, which after a crash
  in an upgrade is the pending one (`vendor/.../action/uninstall.go:88`): what only
  the old manifest has stays, against `FinalizerAfterObjects`, which is checked
  without faults and crashes. `LastRecordAfterObjects` is what remains with them.
* Two faults: an upgrade that fails to build its objects returns a release it has
  not recorded, and the rollback goes one revision too far (`manager.go:226`).
* `Keep # {}` with drift: a kept object that is re-created unmarked survives an
  upgrade and is a conflict later, against `ConvergesExactly`.
* `uninstall-wait` looks at `status.deployedRelease`; a CR deleted between the
  finalizer and the first status update has none (`reconcile.go:176`).
  `WaitHonoursStatus` is stated of the stored status for this reason.
* `Prompt = FALSE` in `ConfigMapRegistry`: a registry of a deleted catalog source
  that still waits for the garbage collector counts as current
  (`configmap.go:76`), against `RegistryCurrent`; so does one whose directory is a
  part of the one given (`DirectoriesApart`).
* A validator that prints more than the pipe holds after its first value: command
  and process wait for each other (`external.go:70`), against `Returns` without its
  premise.
* A test whose pod could not be read, whose deadline has passed or whose creation
  was given up is reported as failed while its container may run on: the next
  test of a sequential stage starts beside it (`scorecard.go:295`), where
  `scorecard/_index.md:131` says that they run one at a time. `StagesIsolated`
  allows a test to run beside such a one and no other.
* `TestRun`'s promise that the command ends rests on a fair `GatherOutput`, whose
  stream no deadline bounds (`storage.go:71`); `Served` on lists that are answered
  (`actionconfig.go:86`); `CommandsEnd` on aborts that are used up.
* The package file may name a CSV whose write failed: `Migrated` and `ChannelsKept`
  speak of heads, with or without a directory (`packagemanifests.go:160`).

The models also show behaviours that differ from a comment or a page of the
documentation, without a run of their own:

* the annotation handler is made for the kind of the watched object instead of the
  owner's, and chosen before namespaces are filled in (`controller.go:151`);
* an uninstall of OLM that is repeated after a time-out stops at "no kind match"
  once the definitions are gone (`olm/client/client.go:167`);
* a validator that prints a `Result`, the format which a comment demands of all
  validators (`bundle/validate/validate.go:98`), is a fatal error: its fields are
  unknown to the decoder (`external.go:65`);
* the chart of a release name is compared once (`manager_factory.go:133`), so two
  controllers may both use the name;
* the wait for a new install plan does not accept one that is pending already
  (`operator_installer.go:360`); a cleanup before the CSV exists deletes an object
  without a name (`uninstall.go:129`); the operator group is deleted after a look
  at the subscriptions that may be outdated (`uninstall.go:190`);
* an upgrade drops the other packages of an index image (`index_image.go:371`),
  and a second one uses a channel number of the image for a list of one channel
  (`index_image.go:354`);
* an error of `Cleanup` replaces the deadline error after which results would be
  printed (`scorecard.go:111`); the built-in tests pass a CRD version without a
  schema (`olm.go:355`), one status descriptor for any status (`olm.go:266`) and a
  CR without a spec (`basic.go:53`); of several kuttl calls only the last report
  is converted;
* the second binding of a Role appends a nil Role (`clusterserviceversion.go:96`),
  unused Roles of one name in two namespaces collapse (`:57`), and a binding
  without subjects is dropped (`:167`);
* deduplication compares objects of different kinds (`filter.go:73`) and visits
  only some lists (`:155`);
* a skip marker ends the loop over all packages (`definitions.go:201`); the place
  of a hand-written description is taken as its order in every run (`:123`); an
  embedded field with a JSON name is inlined (`markers.go:214`); the walk over the
  fields of a type that contains itself does not end (`ast.go:107`);
* files of objects that left the project stay in a bundle (`genutil.go:100`), and
  `--use-image-digests` leaves the tags of every manifest but the CSV
  (`bundle.go:310`);
  existing metadata and scorecard configuration are looked for in the input
  directory (`bundle.go:277`, `:294`); annotations and Dockerfile may differ after
  a failed write (`bundleutil.go:123`);
* converting CRDs are grouped by the address of the port
  (`clusterserviceversion_updaters.go:433`), their path is dereferenced when it is
  absent (`:434`), and a service without a selector is accepted (`:339`);
* `generate packagemanifests --stdout` creates an empty directory name and fails
  (`packagemanifests.go:232`); `pkgman-to-bundle` without a package dereferences
  nil (`pkgmantobundle/cmd.go:165`);
* related images are compared by name and image joined with "-"
  (`relatedimages.go:88`), and a prefix may not make two names differ (`:122`).

### Fairness

`HelmOperator!FairSpec`: weak fairness of the reconciler, of watch delivery, of
the API server's completion of deletions, and of the garbage collector. The
reconciler is always requeued: controller-runtime retries a request that returned
an error, and a successful one comes back after the reconcile period or with the
next event. Informers relist and rewatch until they get their events.
`DeletionCompletes` excepts a CR whose `reconcile-period` annotation does not
parse, because `Reconcile` returns before its deletion branch.

`SecretInformers`: weak fairness of each worker's steps and of the answers to list
requests, and strong fairness of `Lock`, because a Go mutex hands over to a waiter
that has waited long enough. `OperatorInstall`: weak fairness of a package's
command and of OLM. `Scorecard`: of the command, of each `RunTest` and of the
deadline, which comes whatever the pods do, and of the end of gathering, the
assumption named above. `BundleValidation`: of the command and
of the external process, which in the instance prints a finite output. The other
modules state no liveness and assume no fairness.

Nothing is assumed of users, drift, failures, aborts or crashes, which are bounded
instead: the liveness properties say what happens once they stop.

## Proofs

TLC checks one small instance; the theorems hold for every value of the
constants. Those about `HelmOperator` assume what the modules' `ASSUME`s say (specs
are not the reserved words, kept objects are not owned, bounds are naturals); every
other hypothesis is written into the theorem that needs it and is explained below.
Hypotheses about what a component is given are definitions of the composition
modules (`HelmHelpers`, `OLMCommands`, `BundleCommands`, `ManifestCommands`), and
their MC modules have an `ASSUME` by which TLC evaluates them on the instance of
the run; only `cleanup_retry` is outside one of them, as it is meant to be. Every
property was checked by TLC before it was proved.

### The reconciler

* `HelmOperatorProofs!TypeCorrect`: `Spec => []TypeOK`. `TypeOK` alone is not
  inductive: writing back `cached[v].manifest` yields a record only if existing
  records hold rendered manifests. `TypeInv` adds that, for stores and for events
  under way, and the steps at which `prev`, `rel` and `todo` hold it too. One case
  per action; lemmas of the same module supply that `Latest` exists and is a maximum
  (by well-founded descent on `MaxVersion - v`) and that what an upgrade starts
  from is a recorded revision.
* `HelmSafetyProofs!DeployedHasFinalizer`: `Spec => []DeployedImpliesFinalizer`,
  with any lag. The strengthening `FinalizerInv` says that a fresh copy is the CR,
  that a copy which is live and about to be reported Deployed has the finalizer,
  that the upgrade, reconcile and hook steps are reached only with it, and that the
  deletion steps are never reached for a live CR.
* `HelmSafetyProofs!WaitHonoured`: `Spec => WaitHonoursStatus`, with any lag.
  `WaitInv` says that the stored status names the release that is waited for, and
  that after the wait its objects are absent; others bring none of them back.
* `HelmSafetyProofs!DeployedKept` and `PurgedFirst`: with `MaxLag = 0`,
  `DeployedRecordKept` and `FinalizerAfterPurge`. `RecordInv` says that the
  informer is current, that what `Sync` still has to delete is not deployed, that
  an uninstall has listed every record, and that none is left on the deletion
  steps. The run `helm_lag_sync` shows that the assumption is needed.
* `HelmRecordProofs!OneDeployed` (`MaxLag = 0`, `MaxFaults = 0`) and
  `RollsBackToDeployed` (`MaxLag = 0`, `MaxFaults <= 1`). `DeployedInv` follows the
  deployed records through an upgrade and its rollback: two of them only after the
  one fault is spent, on a superseding update that Helm merely logged. Crashes,
  edits and drift are unbounded. With two faults `RollbackRestores` is false: the
  first leaves two deployed records, the second makes an upgrade fail before its
  own record exists, and the rollback goes to the older of the two.
* `HelmRecordProofs!RecordsAfterObjects` (`MaxLag = 0`): `LastRecordAfterObjects`,
  with any number of faults, crashes, edits and drifts. `UninstallInv` says that
  on the way to the purge the last recorded revision is the one whose objects were
  deleted, and that they are gone or being deleted, which others do not undo.

The lemmas `InternalMoves` (where control goes), `StoreMoves` (which steps write
which records) and `RemovedByReconciler` (who removes the finalizer) carry the
case distinctions and are shared by the theorems.

### The Helm operator's helpers

`HelmHelperProofs`, each for any number of workers, kinds, namespaces and types:

* `HookedKindsWatched`: `HookCovers`, for releases whose documents hold lists of
  objects (`RenderedReleases`). The invariant ties every entry of the table, and
  every worker between `StartWatch` and `Insert`, to a started watch, and says
  which part of its manifest a hook has dealt with.
* `InformersSynced`: `SyncedBeforeUse`. An entry of the map is an informer whose
  creator holds the mutex or has seen it sync.
* `TransitionTimes`: `TransitionTimeFaithful`. A type occurs once in the slice,
  and the ghost `since` agrees with it through updates and removals.
* `OverridesMerged`: `MergeIsOverride`, for specs that are maps and overrides that
  name a path (`ValueInputs`), of any depth. Setting a leaf keeps the overrides a
  tree. `CallsInv` says that the calls of `mergeMaps` under way are at maps of both
  trees none of which contains another, `MergedInv` that the values are what
  the property says, but for the overrides below such a call. A key that is not a
  map in both trees is a leaf in one of them, so what is replaced there is exactly
  what lies above or below an override.

### Commands that work with OLM

* `OLMProofs!OutcomesComplete`: `OutcomeComplete`, for manifests laid out as OLM's
  (`ManifestOrder`: definitions first, a namespace before what is in it, kinds
  built in or defined). The invariant says for each step which part of the list is
  there to stay or gone; that nothing already created goes away follows from the
  order.
* `OLMProofs!RegistryServesDirectory`: `RegistryCurrent`, with a prompt garbage
  collector and `DirectoriesApart`: no directory is part of another one. Without
  it the deletion of an orphaned registry that is cut off half-way can leave just
  the ConfigMaps of the smaller directory while the Deployment mounts the old ones,
  and the next run takes the registry for current.
* `OLMProofs!SuccessIsServed` and `CleanupLeavesNothing`: `SuccessServed` and
  `CleanupComplete` for one package with any versions, modes, groups, and commands
  cut off as in `olm_commands` (`CommandInputs`). The invariant `OpInv` has one
  part per concern. `CatalogInv`: the catalog's bundles are distinct, its pod is
  the last one's, and a plan that is not installed is the first or comes after the
  installed version. `PlanInv`: an approved plan exists only while a command waits
  for the CSV, and is the subscription's. Together they show that the CSV awaited,
  the last of the catalog, is installed only when no plan is left. `RunInv` is what
  a run or upgrade has established at each step, `CleanupInv` that what is still
  there is still on the cleanup's list, `EndInv` what a success leaves. With several
  packages the users' groups race, as described below; `SuccessServed` is then
  not true of the code.
* `OLMProofs!RunningPodServes`: `PodServesCatalog`, for all catalogs of either format
  (`CatalogInputs`) and all splits. `SplitInv`: ConfigMaps written, buffer and
  documents to come make up the catalog, and the ConfigMaps in the cluster are
  this command's as far as it has stored them. `ServeInv`: a pod that waits for
  its start mounts exactly those. `ContentInv`: a container of a SQLite index has
  added a beginning of its bundles, and all of them once it serves.
* `OLMProofs!UpgradesOffered`: the action property `UpgradePath`, for index images in
  which every channel of the package has a single head (`IndexImages`; opm
  accepts no other catalog). `ChannelInv` says that before the first upgrade
  the catalog is the image's, and that afterwards the last bundle injected is
  the head of the channel, whichever of the two upgrade algorithms built it.

### Bundles

* `BundleProofs!ExitStatusExact`: `VerdictExact`, for inputs typed as the Go types
  are (`ValidInputs`), with the first result of every external validator.
  `ValidationInv` relates the levels collected so far, the
  results pending and the position in the list of validators; `ChildInv` accounts
  for each chunk a process has written, as decoded, in the pipe or still to come.
* `BundleProofs!BundlesReflectInput`: `BundleReflectsInput` (`ValidProjects`). The
  lemma `NamesDistinct` says that file names made unique by counting duplicates
  differ for all positions; `GenerationInv` then says which positions are written.
* `BundleProofs!MigrationsComplete`: `Migrated` (`ValidPackages`). Versions that
  are no longer to do are finished, the one at work has gone through the steps
  before the present one, and before the first bundle the directory is empty.
* `BundleProofs!OtherHeadsKept`: the action property `ChannelsKept`, for packages
  whose channels are a list (`ChannelInputs`). The point is that the sort
  loses nothing: ranks are injective because a smaller channel has strictly fewer
  before it, hence onto the positions of the list.

### Manifests

`ManifestProofs`. Each theorem says that loops, look-up maps and their order give
what a definition without them gives.

* `PermissionsAsBound`: `PermissionsExact`, if ClusterRoleBindings refer to
  ClusterRoles (`RBACInputs`, which the API server demands). What the split puts
  into permissions is compared with the bindings through the look-up by name: the
  last role of a name wins in it, and in the definition.
* `WebhooksReachDeployments`: `DeploymentServes`, if services have different names
  (`WebhookInputs`). Webhooks that no longer wait are described; the look-up of the
  service and the loop over deployments find one whose labels are selected.
* `RelatedImagesExact`: `ImagesListedOnce`, if name and image joined with "-" tell
  variables apart (`ImageInputs`); the list of differences above ends with the reason.
  `ImagesInv`: the keys seen are those of the list, each once.
* `DescriptorVerdict`: `SpecDescriptorsExact`, for any list of CRs (`BundleInputs`).
  By descent on the position in the list: once a CR has failed the test the
  shared result stays failed, and before that it is what the loop started with.
* `ExamplesOfServedAPIs`: `ExamplesExact`, if a serialised form tells apart custom
  resources, and CRDs that serve different APIs (`CollectorInputs`). `CollectorInv`
  follows the documents not yet read and the lists; deduplication then keeps one
  copy of everything because equal forms mean equal resources.
* `OwnedKeptOrReplaced`: `OwnedMerged`, if a kind tells APIs apart and a base
  describes an API once (`DefinitionInputs`). `DefinitionInv`: an API is described
  at most once per run, and what is merged is unique by API; the sort by order
  is a permutation by the same argument as above.

### Scorecard

* `ScorecardProofs!StagesApart`, `NothingRemains`: `StagesIsolated` and
  `NoRemainders`, for every configuration and selection. `OrderInv`: a test is
  started only when those before it are reported. `PodInv` and `GivenUpInv`: a
  container runs only for a test at work or one reported as failed.
* `ScorecardProofs!ImplementsRunSafety`: every initial state and step of `Scorecard`
  is one of `TestRun` under the mapping of the run `scorecard`, or a stutter
  (`RunSafety`), if no container prints an empty list of results; that is the
  premise of the run, and `scorecard_exit` shows that it is needed.

### Only model-checked, and why

* Every liveness property (`Converges`, `ConvergesExactly`, `ConvergesOnceCurrent`,
  `DeletionCompletes`, `Served`, `CommandsEnd`, `Returns`, and the fairness of
  `TestRun`): the prover has no fairness reasoning and no `ENABLED`.

* `FinalizerAfterObjects`, which holds without faults and crashes only; what holds
  with them, `LastRecordAfterObjects`, is proved.

Every invariant and every other action property of the passing runs is proved.

## Not modelled, and why

* The Helm operator's process: flags, `watches.yaml`, metrics, manager set-up.
  Sequential configuration without state.
* Discovery caching and the REST client getter of the Helm client layer; what a
  JSON or strategic patch contains; chart loading and rendering. Data, abstracted
  to the spec an object was rendered from.
* `waitForDeletion` delays the return and changes nothing; the diagnosis that is
  printed after a CSV wait timed out (`client.go:290`) changes nothing either.
* Two packages installed into one namespace at the same time. `OperatorInstall`
  is written for any set of packages, the run uses one: with two the group race
  described above is part of the code's behaviour.
* The choice of a release name by two controllers (`getReleaseName`): every request
  of both would have to be a step, since the clean-up of one's failed install can
  delete the objects of the other between their creation and the deployed record.
* Compressed sizes: whether the helper stream by which `getConfigMaps` splits the
  catalog (`configMapWriter.go:121`) is never shorter than the one stored is a
  question about DEFLATE.
* The download of OLM manifests, the client set-up of `config.go`, extraction of
  images and of gathered output: one step or none, because nothing happens between
  their parts.
* Rules inside the vendored validators, parsing of markers and Go types, the
  questions of the prompt, the PROJECT file.
* Scaffolding plugins, including the template of the manager role: text templates
  written once by the vendored machinery. Flag wiring, the PROJECT converter,
  bundled manifests, samples, release tooling and test support.

## Plan

Modelled is nearly every part whose state or concurrency decides something. Of the 39
properties of the passing runs 30 are proved for every value of the constants,
and the safety part of another one, the refinement of `TestRun`. What is left:

1. Liveness, by a prover with fairness: `Converges` first, whose measure (faults,
   crashes and edits left, then the steps of a reconciliation) is plain from the
   runs.
2. `OperatorInstall` with several packages: the part of `CleanupComplete` that is
   about a package's own objects.
3. Two controllers with one release name, by two copies of the reconciler's
   actions on one set of records and objects.
