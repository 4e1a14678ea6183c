------------------------- MODULE HelmOperatorProofs -------------------------
(***************************************************************************)
(* Theorems about the Helm operator for every set of specs, objects and    *)
(* every bound on revisions, lag, faults, crashes, edits and drifts.       *)
(***************************************************************************)
EXTENDS HelmOperatorProperties, WellFoundedInduction, TLAPS

-----------------------------------------------------------------------------
(* What the queries of the release store return, for every bound on the    *)
(* number of revisions.                                                    *)

\* A record that is there has a manifest that was rendered from a spec.
GoodRecords == {r \in Records : r.status = "none" \/ r.manifest \in Specs}

GoodStores == [Versions -> GoodRecords]

\* Every non-empty set of revisions has a last one, and Latest (storage.Last)
\* returns it.
LEMMA LatestIsMaximum ==
  ASSUME NEW S \in SUBSET Versions, S # {}
  PROVE  /\ Latest(S) \in S
         /\ Latest(S) \in Versions
         /\ \A w \in S : w <= Latest(S)
<1> DEFINE R == OpToRel(<, Nat)
           T == {n \in Nat : \E v \in S : n = MaxVersion - v}
<1>1. T \subseteq Nat /\ T # {}
  <2>1. PICK v \in S : TRUE
    OBVIOUS
  <2>2. MaxVersion - v \in T
    BY <2>1, MaxVersionAssumption DEF Versions
  <2> QED BY <2>2
<1>2. PICK n \in T : \A y \in T : ~ (<<y, n>> \in R)
  BY <1>1, NatLessThanWellFounded, WFMin
<1>3. \A y \in T : ~ (y < n)
  BY <1>2 DEF OpToRel
<1>4. PICK v \in S : n = MaxVersion - v
  OBVIOUS
<1>5. \A w \in S : w <= v
  <2> TAKE w \in S
  <2>1. MaxVersion - w \in T
    BY MaxVersionAssumption DEF Versions
  <2>2. ~ (MaxVersion - w < MaxVersion - v)
    BY <2>1, <1>3, <1>4
  <2> QED BY <2>2, MaxVersionAssumption DEF Versions
<1> HIDE DEF T, R
<1>6. Latest(S) \in S /\ \A w \in S : w <= Latest(S)
  BY <1>5 DEF Latest
<1> QED BY <1>6

\* A deployed revision is one that has a record.
LEMMA DeployedInHistory ==
  ASSUME NEW h \in Stores
  PROVE  DeployedAll(h) \subseteq History(h) /\ History(h) \subseteq Versions
BY DEF DeployedAll, History

\* The release an upgrade starts from is a revision with a rendered manifest.
LEMMA CurrentReleaseExists ==
  ASSUME NEW h \in GoodStores, History(h) # {}
  PROVE  /\ CurrentRelease(h) \in Versions
         /\ h[CurrentRelease(h)].status # "none"
         /\ h[CurrentRelease(h)].manifest \in Specs
<1>1. CurrentRelease(h) \in DeployedAll(h) \cup History(h)
  BY LatestIsMaximum DEF CurrentRelease, DeployedAll, History
<1> QED BY <1>1 DEF DeployedAll, History, GoodStores, GoodRecords

\* The last revision has a rendered manifest.
LEMMA LatestExists ==
  ASSUME NEW h \in GoodStores, History(h) # {}
  PROVE  /\ Latest(History(h)) \in Versions
         /\ h[Latest(History(h))].status # "none"
         /\ h[Latest(History(h))].manifest \in Specs
<1>1. Latest(History(h)) \in History(h)
  BY LatestIsMaximum DEF History
<1> QED BY <1>1 DEF History, GoodStores, GoodRecords

-----------------------------------------------------------------------------
(* The inductive strengthening of TypeOK: records and watch events that    *)
(* exist hold a rendered manifest, and so do prev and rel wherever a step  *)
(* uses them.                                                              *)

CROK == cr \in CRs /\ crStatus \in CRStatuses

StoreOK == /\ releases \in GoodStores /\ cached \in GoodStores
           /\ watchq \in Seq(Versions \X GoodRecords)

ObjectsOK == cluster \in [Objects -> Contents] /\ marked \subseteq Objects

LocalOK == /\ pc \in Steps /\ o \in CRs /\ fresh \in BOOLEAN
           /\ status \in CRStatuses /\ todo \subseteq Items
           /\ prev \in Releases /\ rel \in Releases

BoundsOK == /\ faults \in 0 .. MaxFaults /\ crashes \in 0 .. MaxCrashes
            /\ edits \in 0 .. MaxEdits /\ drifts \in 0 .. MaxDrifts

GoodReleases == {r \in Releases : r.version \in Versions /\ r.manifest \in Specs}

\* The steps that use the previous release, and those that use the new one.
PrevSteps == {"deleteObjects", "candidate", "finalizer", "reconcile",
              "upgradeApply", "upgradeKeep", "upgradeSupersede",
              "rollbackApply", "rollbackFailCurrent"}

RelSteps == {"installApply", "installFailed", "installRecord", "upgradeApply",
             "upgradeKeep", "upgradeFailed", "upgradeSupersede",
             "upgradeDeploy", "rollbackApply", "rollbackFailCurrent",
             "rollbackFailTarget", "rollbackSupersede", "rollbackDeploy"}

\* What a rollback supersedes was listed with its manifest.
GoodItems == {r \in Items : r.manifest \in Specs}

WorkOK == /\ pc \in PrevSteps => prev \in GoodReleases
          /\ pc \in RelSteps => rel \in GoodReleases
          /\ pc = "rollbackSupersede" => todo \subseteq GoodItems

TypeInv == CROK /\ StoreOK /\ ObjectsOK /\ LocalOK /\ BoundsOK /\ WorkOK

-----------------------------------------------------------------------------
(* The helpers keep the types. *)

\* Writing a record keeps the stores and the queue of events well-formed.
LEMMA WriteReleaseOK ==
  ASSUME StoreOK, NEW v \in Versions, NEW r \in GoodRecords, WriteRelease(v, r)
  PROVE  StoreOK'
<1> DEFINE E == Versions \X GoodRecords
<1>1. /\ <<v, r>> \in E /\ watchq \in Seq(E)
      /\ releases \in GoodStores /\ cached \in GoodStores
  BY DEF StoreOK
<1>2. [releases EXCEPT ![v] = r] \in GoodStores
  BY <1>1 DEF GoodStores
<1>3. CASE MaxLag = 0 \/ Len(watchq) < MaxLag
  <2>1. watchq' = watchq \/ watchq' = Append(watchq, <<v, r>>)
    BY <1>3 DEF WriteRelease
  <2>2. watchq' \in Seq(E)
    <3> HIDE DEF E
    <3> QED BY <1>1, <2>1
  <2> QED BY <1>1, <1>2, <1>3, <2>2 DEF StoreOK, WriteRelease
<1>4. CASE MaxLag # 0 /\ ~(Len(watchq) < MaxLag)
  <2>1. /\ cached' = [cached EXCEPT ![Head(watchq)[1]] = Head(watchq)[2]]
        /\ watchq' = Append(Tail(watchq), <<v, r>>)
    BY <1>4 DEF WriteRelease
  <2>2. Head(watchq) \in E /\ watchq' \in Seq(E)
    <3>1. watchq # <<>>
      BY <1>4, BoundsAssumption
    <3> HIDE DEF E
    <3> QED BY <1>1, <2>1, <3>1
  <2>3. cached' \in GoodStores
    BY <1>1, <2>1, <2>2 DEF GoodStores
  <2> QED BY <1>1, <1>2, <2>2, <2>3 DEF StoreOK, WriteRelease
<1> QED BY <1>3, <1>4

\* A record made of a status and a rendered manifest is well-formed.
LEMMA RecordOK ==
  ASSUME NEW s \in Statuses, NEW m \in Specs
  PROVE  Record(s, m) \in GoodRecords
BY DEF Record, GoodRecords, Records

\* The absence of a record is a well-formed record.
LEMMA NoReleaseOK == NoRelease \in GoodRecords
BY DEF NoRelease, GoodRecords, Records, Statuses, NoSpec

\* recordRelease keeps the stores well-formed, whether it succeeds or not.
LEMMA RecordReleaseOK ==
  ASSUME StoreOK, BoundsOK, NEW v \in Versions, NEW s \in Statuses,
         NEW m \in Specs, RecordRelease(v, s, m)
  PROVE  StoreOK' /\ faults' \in 0 .. MaxFaults
<1>1. CASE Updates(v, s, m)
  <2>1. StoreOK'
    BY <1>1, RecordOK, WriteReleaseOK DEF Updates
  <2>2. faults' \in 0 .. MaxFaults
    BY <1>1 DEF Updates, Works, BoundsOK
  <2> QED BY <2>1, <2>2
<1>2. CASE UpdateFails(v)
  BY <1>2, BoundsAssumption DEF UpdateFails, Works, Fails, BoundsOK, StoreOK, store
<1> QED BY <1>1, <1>2 DEF RecordRelease

\* A request that works or fails keeps the bound on faults.
LEMMA FaultsOK ==
  ASSUME BoundsOK, Works \/ Fails
  PROVE  faults' \in 0 .. MaxFaults
BY BoundsAssumption DEF BoundsOK, Works, Fails

\* Applying a manifest yields a cluster again.
LEMMA ApplyOK ==
  ASSUME NEW c \in [Objects -> Contents], NEW S, NEW s \in Specs
  PROVE  Apply(S, s, c) \in [Objects -> Contents]
BY DEF Apply, Contents

\* Deleting objects yields a cluster again.
LEMMA DeleteOK ==
  ASSUME NEW c \in [Objects -> Contents], NEW S
  PROVE  Delete(S, c) \in [Objects -> Contents]
BY DEF Delete, Contents

\* kube.Client.Update keeps the objects' types, with or without a failure.
LEMMA UpdateObjectsOK ==
  ASSUME ObjectsOK, BoundsOK, NEW m, NEW s \in Specs,
         UpdateObjects(m, s) \/ UpdateThenHookFails(m, s)
  PROVE  ObjectsOK' /\ faults' \in 0 .. MaxFaults
<1>1. faults' \in 0 .. MaxFaults
  BY FaultsOK DEF UpdateObjects, UpdateThenHookFails
<1>2. marked' \subseteq Objects
  BY RendersAssumption DEF ObjectsOK, UpdateObjects, UpdateThenHookFails
<1>3. cluster' \in [Objects -> Contents]
  BY ApplyOK, DeleteOK DEF ObjectsOK, UpdateObjects, UpdateThenHookFails
<1> QED BY <1>1, <1>2, <1>3 DEF ObjectsOK

\* Applying part of a manifest keeps the objects' types.
LEMMA ApplySomeOK ==
  ASSUME ObjectsOK, NEW s \in Specs, NEW S \in SUBSET Renders[s], HelmApply(S, s)
  PROVE  ObjectsOK'
BY RendersAssumption, ApplyOK DEF HelmApply, ObjectsOK

\* Every status the reconciler builds is one.
LEMMA StatusOK ==
  ASSUME NEW s \in CRStatuses
  PROVE  /\ \A r \in {"none", "install", "upgrade", "uninstall"} :
              [s EXCEPT !.releaseFailed = r] \in CRStatuses
         /\ \A b \in BOOLEAN : [s EXCEPT !.irreconcilable = b] \in CRStatuses
         /\ \A d \in {"unset", "true", "false"} :
              [s EXCEPT !.deployed = d] \in CRStatuses
         /\ \A d \in {"unset", "true", "false"}, m \in Manifests :
              [s EXCEPT !.deployed = d, !.deployedRelease = m] \in CRStatuses
BY DEF CRStatuses

\* The releases the informer lists are items.
LEMMA ListedOK ==
  ASSUME StoreOK, NEW S \in SUBSET Versions
  PROVE  /\ Listed(S) \subseteq Items
         /\ S \subseteq History(cached) => Listed(S) \subseteq GoodItems
BY DEF StoreOK, GoodStores, GoodRecords, Records, Listed, Items, GoodItems,
       History, Manifests

\* What a step leaves alone keeps its type.
LEMMA Same ==
  /\ CROK /\ UNCHANGED crVars => CROK'
  /\ StoreOK /\ UNCHANGED store => StoreOK'
  /\ ObjectsOK /\ UNCHANGED objects => ObjectsOK'
  /\ BoundsOK /\ UNCHANGED others /\ faults' \in 0 .. MaxFaults => BoundsOK'
BY DEF CROK, crVars, StoreOK, store, ObjectsOK, objects, BoundsOK, others

\* Going on at another step keeps the types of the locals.
LEMMA GotoOK ==
  ASSUME LocalOK, NEW l \in Steps, NEW s \in CRStatuses,
         Goto(l) \/ GotoWith(l, s),
         todo' \subseteq Items, prev' \in Releases, rel' \in Releases
  PROVE  LocalOK'
BY DEF LocalOK, Goto, GotoWith

\* The defaults have their types.
LEMMA DefaultsOK ==
  /\ NoCR \in CRs /\ NoStatus \in CRStatuses /\ NoRel \in Releases
  /\ EmptyStore \in GoodStores
<1>1. (CHOOSE s \in Specs : TRUE) \in Specs
  BY SpecsAssumption
<1>2. NoCR \in CRs
  BY <1>1 DEF NoCR, CRs
<1>3. NoStatus \in CRStatuses
  BY DEF NoStatus, CRStatuses, Manifests, NoSpec
<1>4. NoRel \in Releases
  BY MaxVersionAssumption DEF NoRel, Releases, Statuses, Manifests, NoSpec
<1>5. EmptyStore \in GoodStores
  BY NoReleaseOK DEF EmptyStore, GoodStores
<1> QED BY <1>2, <1>3, <1>4, <1>5

\* Return resets the locals of a reconciliation.
LEMMA ReturnOK ==
  ASSUME Return
  PROVE  LocalOK' /\ WorkOK'
<1>1. LocalOK'
  BY DefaultsOK DEF Return, LocalOK, Steps
<1>2. WorkOK'
  BY DEF Return, WorkOK, PrevSteps, RelSteps
<1> QED BY <1>1, <1>2

\* Initially the invariant holds.
LEMMA TypeInit == Init => TypeInv
<1> SUFFICES ASSUME Init PROVE TypeInv
  OBVIOUS
<1>1. CROK
  BY DefaultsOK DEF Init, CROK, CRs
<1>2. StoreOK
  BY DefaultsOK DEF Init, StoreOK
<1>3. ObjectsOK
  BY DEF Init, ObjectsOK, Contents
<1>4. LocalOK
  BY DefaultsOK DEF Init, LocalOK, Steps
<1>5. BoundsOK /\ WorkOK
  BY BoundsAssumption DEF Init, BoundsOK, WorkOK, PrevSteps, RelSteps
<1> QED BY <1>1, <1>2, <1>3, <1>4, <1>5 DEF TypeInv

\* Steps that use neither prev nor rel may follow whatever these hold.
LEMMA QuietStep ==
  ASSUME LocalOK, NEW l \in Steps \ (PrevSteps \cup RelSteps),
         NEW s \in CRStatuses, Goto(l) \/ GotoWith(l, s),
         todo' \subseteq Items, prev' \in Releases, rel' \in Releases
  PROVE  LocalOK' /\ WorkOK'
<1>1. LocalOK'
  BY GotoOK
<1>2. pc' = l
  BY DEF Goto, GotoWith
<1>3. WorkOK'
  BY <1>2 DEF WorkOK, RelSteps
<1> QED BY <1>1, <1>3

\* With good releases in hand every step but the superseding one may follow.
LEMMA GoodStep ==
  ASSUME LocalOK, NEW l \in Steps \ {"rollbackSupersede"},
         Goto(l), todo' \subseteq Items,
         prev' \in Releases, l \in PrevSteps => prev' \in GoodReleases,
         rel' \in Releases, l \in RelSteps => rel' \in GoodReleases
  PROVE  LocalOK' /\ WorkOK'
<1>1. LocalOK'
  BY GotoOK DEF LocalOK
<1>2. pc' = l
  BY DEF Goto
<1>3. WorkOK'
  BY <1>2 DEF WorkOK
<1> QED BY <1>1, <1>3

\* The statuses a reconciliation builds.
LEMMA BuiltStatus ==
  ASSUME LocalOK
  PROVE  /\ \A r \in {"none", "install", "upgrade", "uninstall"} :
              ReleaseFailed(r) \in CRStatuses /\ WithWait(ReleaseFailed(r)) \in CRStatuses
         /\ \A b \in BOOLEAN : Irreconcilable(b) \in CRStatuses
         /\ [ReleaseFailed("none") EXCEPT !.deployed = "false",
                                          !.deployedRelease = NoSpec] \in CRStatuses
BY StatusOK DEF LocalOK, ReleaseFailed, WithWait, Irreconcilable, Manifests

\* However an uninstall ends, the next step uses neither prev nor rel.
LEMMA UninstallEndsOK ==
  ASSUME LocalOK, todo' \subseteq Items, prev' \in Releases, rel' \in Releases,
         \/ UninstallFails
         \/ UninstallEnds(Uninstalled)
         \/ UninstallEnds(ReleaseNotFound)
  PROVE  LocalOK' /\ WorkOK'
<1>1. PICK l \in {"report", "deletionStatus"}, s \in CRStatuses : GotoWith(l, s)
  <2>1. CASE o.phase = "live"
    BY <2>1, BuiltStatus DEF UninstallFails, UninstallEnds
  <2>2. CASE o.phase # "live" /\ UninstallFails
    BY <2>2, BuiltStatus DEF UninstallFails, UninstallEnds
  <2>3. CASE o.phase # "live" /\ UninstallEnds(ReleaseNotFound)
    BY <2>3, BuiltStatus DEF UninstallEnds, ReleaseNotFound
  <2>4. CASE o.phase # "live" /\ UninstallEnds(Uninstalled)
    BY <2>4, BuiltStatus DEF UninstallEnds, Uninstalled, WithWait
  <2> QED BY <2>1, <2>2, <2>3, <2>4
<1> QED BY <1>1, QuietStep DEF Steps, PrevSteps, RelSteps

\* A failed sync, install or upgrade is reported.
LEMMA FailureOK ==
  ASSUME LocalOK, todo' \subseteq Items, prev' \in Releases, rel' \in Releases,
         SyncFails \/ InstallFails \/ UpgradeFails
  PROVE  LocalOK' /\ WorkOK'
<1>1. PICK s \in CRStatuses : GotoWith("report", s)
  BY BuiltStatus DEF SyncFails, InstallFails, UpgradeFails
<1> QED BY <1>1, QuietStep DEF Steps, PrevSteps, RelSteps

-----------------------------------------------------------------------------
(* Type correctness, one step per action. *)

\* Entry, exit and deletion.
LEMMA DeletionType ==
  ASSUME TypeInv,
         \/ ReconcileStart \/ ReportStatus \/ UninstallBegin \/ UninstallDelete
         \/ UninstallPurge \/ DeletionStatus \/ CleanupRelease \/ RemoveFinalizer
  PROVE  TypeInv'
<1> USE DEF TypeInv
<1>1. CASE ReconcileStart
  <2>1. LocalOK' /\ WorkOK'
    BY <1>1 DEF ReconcileStart, LocalOK, WorkOK, PrevSteps, RelSteps, Steps, CROK, work
  <2> QED BY <1>1, <2>1, Same DEF ReconcileStart, BoundsOK
<1>2. CASE ReportStatus
  <2>1. CROK'
    BY <1>2 DEF ReportStatus, CROK, LocalOK
  <2> QED BY <1>2, <2>1, Same, ReturnOK, FaultsOK DEF ReportStatus, Accepted, Rejected
<1>3. CASE UninstallBegin
  <2>1. CASE /\ Works \/ Fails
             /\ UninstallEnds(ReleaseNotFound) \/ UninstallFails
             /\ UNCHANGED <<store, work>>
    <3>1. LocalOK' /\ WorkOK'
      BY <2>1, UninstallEndsOK DEF LocalOK, work
    <3> QED BY <1>3, <2>1, <3>1, Same, FaultsOK DEF UninstallBegin
  <2>2. ASSUME NEW v, v = Latest(History(cached)), History(cached) # {},
               RecordRelease(v, "uninstalling", cached[v].manifest),
               prev' = [version |-> v, status |-> "uninstalling",
                        manifest |-> cached[v].manifest],
               todo' = Listed(History(cached)),
               Goto("deleteObjects"), UNCHANGED rel
        PROVE  TypeInv'
    <3>1. v \in Versions /\ cached[v].manifest \in Specs
      BY <2>2, LatestExists DEF StoreOK
    <3>2. StoreOK' /\ faults' \in 0 .. MaxFaults
      BY <2>2, <3>1, RecordReleaseOK DEF Statuses
    <3>3. prev' \in GoodReleases
      BY <2>2, <3>1 DEF GoodReleases, Releases, Statuses, Manifests, Versions
    <3>4. todo' \subseteq Items
      BY <2>2, ListedOK DEF History
    <3>5. LocalOK' /\ WorkOK'
      BY <2>2, <3>3, <3>4, GoodStep DEF LocalOK, Steps, RelSteps, GoodReleases
    <3> QED BY <1>3, <3>2, <3>5, Same DEF UninstallBegin
  <2> QED BY <1>3, <2>1, <2>2 DEF UninstallBegin
<1>4. CASE UninstallDelete
  <2>1. ObjectsOK'
    BY <1>4, DeleteOK DEF UninstallDelete, DeleteObjects, ObjectsOK
  <2>2. LocalOK' /\ WorkOK'
    <3>1. CASE Goto("purge")
      BY <1>4, <3>1, QuietStep DEF UninstallDelete, work, LocalOK, Steps, PrevSteps, RelSteps
    <3>2. CASE UninstallFails
      BY <1>4, <3>2, UninstallEndsOK DEF UninstallDelete, work, LocalOK
    <3> QED BY <1>4, <3>1, <3>2 DEF UninstallDelete
  <2> QED BY <1>4, <2>1, <2>2, Same, FaultsOK DEF UninstallDelete
<1>5. CASE UninstallPurge
  <2>1. CASE /\ todo = {} /\ UNCHANGED <<store, todo>>
             /\ \/ Works /\ UninstallEnds(Uninstalled)
                \/ Fails /\ UninstallFails
    <3>1. LocalOK' /\ WorkOK'
      BY <1>5, <2>1, UninstallEndsOK DEF UninstallPurge, LocalOK
    <3> QED BY <1>5, <2>1, <3>1, Same, FaultsOK DEF UninstallPurge
  <2>2. ASSUME NEW r \in todo, Works, WriteRelease(r.version, NoRelease),
               todo' = todo \ {r}, Goto("purge")
        PROVE  TypeInv'
    <3>1. StoreOK'
      BY <2>2, WriteReleaseOK, NoReleaseOK DEF LocalOK, Items
    <3>2. LocalOK' /\ WorkOK'
      BY <1>5, <2>2, QuietStep DEF UninstallPurge, LocalOK, Steps, PrevSteps, RelSteps
    <3> QED BY <1>5, <2>2, <3>1, <3>2, Same, FaultsOK DEF UninstallPurge
  <2>3. ASSUME NEW r \in todo, UpdateFails(r.version), UninstallFails, UNCHANGED todo
        PROVE  TypeInv'
    <3>1. LocalOK' /\ WorkOK'
      BY <1>5, <2>3, UninstallEndsOK DEF UninstallPurge, LocalOK
    <3> QED BY <1>5, <2>3, <3>1, Same, FaultsOK DEF UninstallPurge, UpdateFails
  <2> QED BY <1>5, <2>1, <2>2, <2>3 DEF UninstallPurge
<1>6. CASE DeletionStatus
  <2>1. CROK'
    BY <1>6 DEF DeletionStatus, CROK, LocalOK
  <2>2. LocalOK' /\ WorkOK'
    <3>1. CASE Return
      BY <3>1, ReturnOK
    <3>2. CASE UNCHANGED work /\ (Goto("cleanup") \/ Goto("removeFinalizer"))
      BY <3>2, QuietStep DEF work, LocalOK, Steps, PrevSteps, RelSteps
    <3> QED BY <1>6, <3>1, <3>2 DEF DeletionStatus
  <2> QED BY <1>6, <2>1, <2>2, Same, FaultsOK DEF DeletionStatus, Accepted, Rejected
<1>7. CASE CleanupRelease
  <2>1. ObjectsOK'
    BY <1>7, DeleteOK DEF CleanupRelease, DeleteObjects, ObjectsOK, objects
  <2>2. LocalOK' /\ WorkOK'
    <3>1. CASE Return
      BY <3>1, ReturnOK
    <3>2. CASE /\ UNCHANGED work
               /\ \/ GotoWith("removeFinalizer", ReleaseFailed("none"))
                  \/ GotoWith("report", ReleaseFailed("uninstall"))
      BY <3>2, QuietStep, BuiltStatus DEF work, LocalOK, Steps, PrevSteps, RelSteps
    <3> QED BY <1>7, <3>1, <3>2 DEF CleanupRelease
  <2> QED BY <1>7, <2>1, <2>2, Same, FaultsOK DEF CleanupRelease
<1>8. CASE RemoveFinalizer
  <2>1. CROK'
    BY <1>8 DEF RemoveFinalizer, CROK, CRs
  <2> QED BY <1>8, <2>1, Same, ReturnOK, FaultsOK DEF RemoveFinalizer, Accepted, Rejected
<1> QED BY <1>1, <1>2, <1>3, <1>4, <1>5, <1>6, <1>7, <1>8

\* Sync.
LEMMA SyncType ==
  ASSUME TypeInv, SyncHistory \/ SyncCleanup \/ SyncDeployed \/ SyncCandidate
  PROVE  TypeInv'
<1> USE DEF TypeInv
<1>1. CASE SyncHistory
  <2>1. todo' \subseteq Items
    BY <1>1, ListedOK DEF SyncHistory, History
  <2>2. LocalOK' /\ WorkOK'
    BY <1>1, <2>1, QuietStep DEF SyncHistory, LocalOK, Steps, PrevSteps, RelSteps
  <2> QED BY <1>1, <2>2, Same DEF SyncHistory, BoundsOK
<1>2. CASE SyncCleanup
  <2>1. PICK r \in todo :
          \/ /\ Works /\ WriteRelease(r.version, NoRelease)
             /\ todo' = todo \ {r} /\ Goto("syncCleanup")
          \/ /\ Works /\ UNCHANGED store
             /\ todo' = todo \ {r} /\ Goto("syncCleanup")
          \/ Fails /\ SyncFails /\ UNCHANGED <<store, todo>>
    BY <1>2 DEF SyncCleanup
  <2>2. StoreOK'
    BY <2>1, Same, WriteReleaseOK, NoReleaseOK DEF LocalOK, Items
  <2>3. LocalOK' /\ WorkOK'
    <3>1. CASE Goto("syncCleanup") /\ todo' = todo \ {r}
      BY <1>2, <3>1, QuietStep DEF SyncCleanup, LocalOK, Steps, PrevSteps, RelSteps
    <3>2. CASE SyncFails /\ UNCHANGED todo
      BY <1>2, <3>2, FailureOK DEF SyncCleanup, LocalOK
    <3> QED BY <2>1, <3>1, <3>2
  <2> QED BY <1>2, <2>1, <2>2, <2>3, Same, FaultsOK DEF SyncCleanup
<1>3. CASE SyncDeployed
  <2>1. CASE DeployedAll(cached) = {}
    <3>1. LocalOK' /\ WorkOK'
      BY <1>3, <2>1, QuietStep, BuiltStatus
         DEF SyncDeployed, LocalOK, Steps, PrevSteps, RelSteps
    <3> QED BY <1>3, <3>1, Same DEF SyncDeployed, BoundsOK
  <2>2. CASE DeployedAll(cached) # {}
    <3> DEFINE v == Latest(DeployedAll(cached))
    <3>1. v \in DeployedAll(cached)
      BY <2>2, LatestIsMaximum DEF DeployedAll
    <3>2. v \in Versions /\ cached[v].manifest \in Specs
      BY <3>1 DEF DeployedAll, StoreOK, GoodStores, GoodRecords
    <3>3. prev' = [version |-> v, status |-> "deployed", manifest |-> cached[v].manifest]
      BY <1>3, <2>2 DEF SyncDeployed
    <3> HIDE DEF v
    <3>4. prev' \in GoodReleases
      BY <3>2, <3>3 DEF GoodReleases, Releases, Statuses, Manifests, Versions
    <3>5. LocalOK' /\ WorkOK'
      BY <1>3, <2>2, <3>4, GoodStep DEF SyncDeployed, LocalOK, Steps, RelSteps, GoodReleases
    <3> QED BY <1>3, <3>5, Same DEF SyncDeployed, BoundsOK
  <2> QED BY <2>1, <2>2
<1>4. CASE SyncCandidate
  <2>1. CASE SyncFails
    <3>1. LocalOK' /\ WorkOK'
      BY <1>4, <2>1, FailureOK DEF SyncCandidate, LocalOK, work
    <3> QED BY <1>4, <3>1, Same, FaultsOK DEF SyncCandidate
  <2>2. CASE \E l \in {"finalizer", "upgrade", "reconcile"} :
               GotoWith(l, Irreconcilable(FALSE)) /\ Works
    <3>1. LocalOK'
      BY <1>4, <2>2, GotoOK, BuiltStatus DEF SyncCandidate, LocalOK, work, Steps
    <3>2. WorkOK'
      BY <1>4, <2>2 DEF SyncCandidate, GotoWith, WorkOK, PrevSteps, RelSteps, work
    <3> QED BY <1>4, <2>2, <3>1, <3>2, Same, FaultsOK DEF SyncCandidate
  <2> QED BY <1>4, <2>1, <2>2 DEF SyncCandidate, NextOperation
<1> QED BY <1>1, <1>2, <1>3, <1>4

\* Install, and the finalizer and status that follow a release.
LEMMA InstallType ==
  ASSUME TypeInv,
         \/ InstallBegin \/ InstallApply \/ InstallFailed \/ InstallRecord
         \/ InstallFinalizer \/ EnsureFinalizer \/ ReleaseHook
  PROVE  TypeInv'
<1> USE DEF TypeInv
<1>1. CASE InstallBegin
  <2>1. CASE /\ Works \/ Fails
             /\ InstallFails \/ Goto("uninstall")
             /\ UNCHANGED <<store, rel>>
    <3>1. LocalOK' /\ WorkOK'
      <4>1. CASE InstallFails
        BY <1>1, <2>1, <4>1, FailureOK DEF InstallBegin, LocalOK
      <4>2. CASE Goto("uninstall")
        BY <1>1, <2>1, <4>2, QuietStep DEF InstallBegin, LocalOK, Steps, PrevSteps, RelSteps
      <4> QED BY <2>1, <4>1, <4>2
    <3> QED BY <1>1, <2>1, <3>1, Same, FaultsOK DEF InstallBegin
  <2>2. CASE /\ Works
             /\ WriteRelease(1, Record("pending-install", o.spec))
             /\ rel' = [version |-> 1, status |-> "pending-install",
                        manifest |-> o.spec]
             /\ Goto("installApply")
    <3>1. o.spec \in Specs /\ 1 \in Versions
      BY MaxVersionAssumption DEF LocalOK, CRs, Versions
    <3>2. StoreOK'
      BY <2>2, <3>1, RecordOK, WriteReleaseOK DEF Statuses
    <3>3. rel' \in GoodReleases
      BY <2>2, <3>1 DEF GoodReleases, Releases, Statuses, Manifests, Versions
    <3>4. LocalOK' /\ WorkOK'
      BY <1>1, <2>2, <3>3, GoodStep DEF InstallBegin, LocalOK, Steps, PrevSteps, GoodReleases
    <3> QED BY <1>1, <2>2, <3>2, <3>4, Same, FaultsOK DEF InstallBegin
  <2> QED BY <1>1, <2>1, <2>2 DEF InstallBegin
<1>2. CASE InstallApply
  <2>1. rel \in GoodReleases /\ rel.manifest \in Specs
    BY <1>2 DEF InstallApply, WorkOK, RelSteps, GoodReleases
  <2>2. ObjectsOK'
    BY <1>2, <2>1, ApplySomeOK DEF InstallApply, ApplySome
  <2>3. LocalOK' /\ WorkOK'
    BY <1>2, <2>1, GoodStep DEF InstallApply, LocalOK, Steps, PrevSteps, work
  <2> QED BY <1>2, <2>2, <2>3, Same, FaultsOK DEF InstallApply
<1>3. CASE InstallFailed
  <2>1. rel.version \in Versions /\ rel.manifest \in Specs
    BY <1>3 DEF InstallFailed, WorkOK, RelSteps, GoodReleases
  <2>2. StoreOK' /\ faults' \in 0 .. MaxFaults
    BY <1>3, <2>1, RecordReleaseOK DEF InstallFailed, Statuses
  <2>3. LocalOK' /\ WorkOK'
    BY <1>3, QuietStep DEF InstallFailed, LocalOK, Steps, PrevSteps, RelSteps, work
  <2> QED BY <1>3, <2>2, <2>3, Same DEF InstallFailed
<1>4. CASE InstallRecord
  <2>1. rel.version \in Versions /\ rel.manifest \in Specs
    BY <1>4 DEF InstallRecord, WorkOK, RelSteps, GoodReleases
  <2>2. StoreOK' /\ faults' \in 0 .. MaxFaults
    BY <1>4, <2>1, RecordReleaseOK DEF InstallRecord, Statuses
  <2>3. LocalOK' /\ WorkOK'
    BY <1>4, QuietStep, BuiltStatus DEF InstallRecord, LocalOK, Steps, PrevSteps, RelSteps, work
  <2> QED BY <1>4, <2>2, <2>3, Same DEF InstallRecord
<1>5. ASSUME NEW l \in {"hook", "upgrade", "reconcile"}, AddFinalizer(l),
             l = "reconcile" => prev \in GoodReleases
      PROVE  TypeInv'
  <2>1. CROK'
    BY <1>5 DEF AddFinalizer, CROK, CRs
  <2>2. LocalOK' /\ WorkOK'
    <3>1. CASE Return
      BY <3>1, ReturnOK
    <3>2. CASE o' = cr' /\ pc' = l /\ UNCHANGED <<fresh, status, work>>
      BY <1>5, <2>1, <3>2 DEF CROK, LocalOK, WorkOK, work, Steps, PrevSteps, RelSteps
    <3> QED BY <1>5, <3>1, <3>2 DEF AddFinalizer
  <2> QED BY <1>5, <2>1, <2>2, Same, FaultsOK DEF AddFinalizer, Accepted, Rejected
<1>6. CASE InstallFinalizer
  BY <1>5, <1>6 DEF InstallFinalizer
<1>7. CASE EnsureFinalizer
  BY <1>5, <1>7 DEF EnsureFinalizer, NextOperation, WorkOK, PrevSteps
<1>8. CASE ReleaseHook
  <2>1. CASE Return
    BY <1>8, <2>1, ReturnOK, Same, FaultsOK DEF ReleaseHook
  <2>2. CASE /\ Works /\ UNCHANGED work
             /\ GotoWith("report", [status EXCEPT !.deployed = "true",
                                                  !.deployedRelease = rel.manifest])
    <3>1. [status EXCEPT !.deployed = "true", !.deployedRelease = rel.manifest] \in CRStatuses
      BY StatusOK DEF LocalOK, Releases
    <3>2. LocalOK' /\ WorkOK'
      BY <2>2, <3>1, QuietStep DEF LocalOK, Steps, PrevSteps, RelSteps, work
    <3> QED BY <1>8, <2>2, <3>2, Same, FaultsOK DEF ReleaseHook
  <2> QED BY <1>8, <2>1, <2>2 DEF ReleaseHook
<1> QED BY <1>1, <1>2, <1>3, <1>4, <1>6, <1>7, <1>8

\* Upgrade.
LEMMA UpgradeType ==
  ASSUME TypeInv,
         \/ UpgradeBegin \/ UpgradeApply \/ UpgradeKeep \/ UpgradeFailed
         \/ UpgradeSupersede \/ UpgradeDeploy \/ ReconcileRelease
  PROVE  TypeInv'
<1> USE DEF TypeInv
<1>1. CASE UpgradeBegin
  <2>1. CASE /\ Works \/ Fails
             /\ UpgradeFails \/ Goto("rollback")
             /\ UNCHANGED <<store, work>>
    <3>1. LocalOK' /\ WorkOK'
      <4>1. CASE UpgradeFails
        BY <2>1, <4>1, FailureOK DEF LocalOK, work
      <4>2. CASE Goto("rollback")
        BY <2>1, <4>2, QuietStep DEF LocalOK, Steps, PrevSteps, RelSteps, work
      <4> QED BY <2>1, <4>1, <4>2
    <3> QED BY <1>1, <2>1, <3>1, Same, FaultsOK DEF UpgradeBegin
  <2>2. ASSUME NEW v, NEW n, UpgradePossible, Works,
               v = CurrentRelease(cached), n = Latest(History(cached)) + 1,
               n <= MaxVersion,
               WriteRelease(n, Record("pending-upgrade", o.spec)),
               prev' = [version |-> v, status |-> cached[v].status,
                        manifest |-> cached[v].manifest],
               rel' = [version |-> n, status |-> "pending-upgrade",
                       manifest |-> o.spec],
               Goto("upgradeApply"), UNCHANGED todo
        PROVE  TypeInv'
    <3>1. History(cached) # {} /\ o.spec \in Specs
      BY <2>2 DEF UpgradePossible, CanUpgrade, LocalOK, CRs
    <3>2. v \in Versions /\ cached[v].manifest \in Specs
      BY <2>2, <3>1, CurrentReleaseExists DEF StoreOK
    <3>3. n \in Versions
      BY <2>2, <3>1, LatestExists, MaxVersionAssumption DEF StoreOK, Versions
    <3>4. StoreOK'
      BY <2>2, <3>1, <3>3, RecordOK, WriteReleaseOK DEF Statuses
    <3>5. cached[v].status \in Statuses
      BY <3>2 DEF StoreOK, GoodStores, GoodRecords, Records
    <3>6. prev' \in GoodReleases
      BY <2>2, <3>2, <3>5 DEF GoodReleases, Releases, Manifests, Versions
    <3>7. rel' \in GoodReleases
      BY <2>2, <3>1, <3>3 DEF GoodReleases, Releases, Manifests, Versions, Statuses
    <3>8. LocalOK' /\ WorkOK'
      BY <2>2, <3>6, <3>7, GoodStep DEF LocalOK, Steps, GoodReleases
    <3> QED BY <1>1, <2>2, <3>4, <3>8, Same, FaultsOK DEF UpgradeBegin
  <2> QED BY <1>1, <2>1, <2>2 DEF UpgradeBegin
<1>2. CASE UpgradeApply
  <2>1. prev \in GoodReleases /\ rel \in GoodReleases /\ rel.manifest \in Specs
    BY <1>2 DEF UpgradeApply, WorkOK, PrevSteps, RelSteps, GoodReleases
  <2>2. ObjectsOK' /\ faults' \in 0 .. MaxFaults
    BY <1>2, <2>1, ApplySomeOK, UpdateObjectsOK, Same, FaultsOK
       DEF UpgradeApply, ApplySome
  <2>3. LocalOK' /\ WorkOK'
    BY <1>2, <2>1, GoodStep DEF UpgradeApply, LocalOK, Steps, work
  <2> QED BY <1>2, <2>2, <2>3, Same DEF UpgradeApply
<1>3. CASE UpgradeKeep
  <2>1. prev \in GoodReleases /\ rel \in GoodReleases
    BY <1>3 DEF UpgradeKeep, WorkOK, PrevSteps, RelSteps
  <2>2. prev.version \in Versions /\ prev.manifest \in Specs /\ prev.status \in Statuses
    BY <2>1 DEF GoodReleases, Releases
  <2>3. StoreOK' /\ faults' \in 0 .. MaxFaults
    BY <1>3, <2>2, RecordReleaseOK DEF UpgradeKeep
  <2>4. LocalOK' /\ WorkOK'
    BY <1>3, <2>1, GoodStep DEF UpgradeKeep, LocalOK, Steps, PrevSteps, work
  <2> QED BY <1>3, <2>3, <2>4, Same DEF UpgradeKeep
<1>4. CASE UpgradeFailed
  <2>1. rel.version \in Versions /\ rel.manifest \in Specs
    BY <1>4 DEF UpgradeFailed, WorkOK, RelSteps, GoodReleases
  <2>2. StoreOK' /\ faults' \in 0 .. MaxFaults
    BY <1>4, <2>1, RecordReleaseOK DEF UpgradeFailed, Statuses
  <2>3. LocalOK' /\ WorkOK'
    BY <1>4, QuietStep DEF UpgradeFailed, LocalOK, Steps, PrevSteps, RelSteps, work
  <2> QED BY <1>4, <2>2, <2>3, Same DEF UpgradeFailed
<1>5. CASE UpgradeSupersede
  <2>1. prev \in GoodReleases /\ rel \in GoodReleases
    BY <1>5 DEF UpgradeSupersede, WorkOK, PrevSteps, RelSteps
  <2>2. prev.version \in Versions /\ prev.manifest \in Specs
    BY <2>1 DEF GoodReleases
  <2>3. StoreOK' /\ faults' \in 0 .. MaxFaults
    BY <1>5, <2>2, RecordReleaseOK DEF UpgradeSupersede, Statuses
  <2>4. LocalOK' /\ WorkOK'
    BY <1>5, <2>1, GoodStep DEF UpgradeSupersede, LocalOK, Steps, PrevSteps, work
  <2> QED BY <1>5, <2>3, <2>4, Same DEF UpgradeSupersede
<1>6. CASE UpgradeDeploy
  <2>1. rel.version \in Versions /\ rel.manifest \in Specs
    BY <1>6 DEF UpgradeDeploy, WorkOK, RelSteps, GoodReleases
  <2>2. StoreOK' /\ faults' \in 0 .. MaxFaults
    BY <1>6, <2>1, RecordReleaseOK DEF UpgradeDeploy, RecordRelease, Statuses
  <2>3. LocalOK' /\ WorkOK'
    BY <1>6, QuietStep, BuiltStatus DEF UpgradeDeploy, LocalOK, Steps, PrevSteps, RelSteps, work
  <2> QED BY <1>6, <2>2, <2>3, Same DEF UpgradeDeploy
<1>7. CASE ReconcileRelease
  <2>1. prev.manifest \in Specs /\ prev \in Releases
    BY <1>7 DEF ReconcileRelease, WorkOK, PrevSteps, GoodReleases
  <2>2. ObjectsOK'
    BY <1>7, <2>1, ApplyOK DEF ReconcileRelease, ObjectsOK
  <2>3. \A b \in BOOLEAN :
          [ReleaseFailed("none") EXCEPT !.irreconcilable = b] \in CRStatuses
    BY BuiltStatus, StatusOK
  <2>4. LocalOK' /\ WorkOK'
    BY <1>7, <2>1, <2>3, QuietStep DEF ReconcileRelease, LocalOK, Steps, PrevSteps, RelSteps
  <2> QED BY <1>7, <2>2, <2>4, Same, FaultsOK DEF ReconcileRelease
<1> QED BY <1>1, <1>2, <1>3, <1>4, <1>5, <1>6, <1>7

\* Rollback.
LEMMA RollbackType ==
  ASSUME TypeInv,
         \/ RollbackBegin \/ RollbackApply \/ RollbackFailCurrent
         \/ RollbackFailTarget \/ RollbackSupersede \/ RollbackDeploy
  PROVE  TypeInv'
<1> USE DEF TypeInv
<1>1. CASE RollbackBegin
  <2>1. CASE (Works \/ Fails) /\ UpgradeFails /\ UNCHANGED <<store, work>>
    <3>1. LocalOK' /\ WorkOK'
      BY <2>1, FailureOK DEF LocalOK, work
    <3> QED BY <1>1, <2>1, <3>1, Same, FaultsOK DEF RollbackBegin, HasPrevious
  <2>2. ASSUME NEW last, last = Latest(History(cached)), History(cached) # {}, Works,
               (last - 1) \in History(cached), last < MaxVersion, Exists(last - 1),
               WriteRelease(last + 1,
                            Record("pending-rollback", releases[last - 1].manifest)),
               rel' = [version |-> last + 1, status |-> "pending-rollback",
                       manifest |-> releases[last - 1].manifest],
               prev' = [version |-> last, status |-> cached[last].status,
                        manifest |-> cached[last].manifest],
               Goto("rollbackApply"), UNCHANGED todo
        PROVE  TypeInv'
    <3>1. last \in Versions /\ cached[last].manifest \in Specs
      BY <2>2, LatestExists DEF StoreOK
    <3>2. cached[last].status \in Statuses
      BY <3>1 DEF StoreOK, GoodStores, GoodRecords, Records
    <3>3. last - 1 \in Versions /\ last + 1 \in Versions
      BY <2>2, <3>1, MaxVersionAssumption DEF History, Versions
    <3>4. releases[last - 1].manifest \in Specs
      BY <2>2, <3>3 DEF Exists, StoreOK, GoodStores, GoodRecords
    <3>5. StoreOK'
      BY <2>2, <3>3, <3>4, RecordOK, WriteReleaseOK DEF Statuses
    <3>6. prev' \in GoodReleases
      BY <2>2, <3>1, <3>2 DEF GoodReleases, Releases, Manifests, Versions
    <3>7. rel' \in GoodReleases
      BY <2>2, <3>3, <3>4 DEF GoodReleases, Releases, Manifests, Versions, Statuses
    <3>8. LocalOK' /\ WorkOK'
      BY <2>2, <3>6, <3>7, GoodStep DEF LocalOK, Steps, GoodReleases
    <3> QED BY <1>1, <2>2, <3>5, <3>8, Same, FaultsOK DEF RollbackBegin, HasPrevious
  <2> QED BY <1>1, <2>1, <2>2 DEF RollbackBegin, HasPrevious
<1>2. CASE RollbackApply
  <2>1. prev \in GoodReleases /\ rel \in GoodReleases /\ rel.manifest \in Specs
    BY <1>2 DEF RollbackApply, WorkOK, PrevSteps, RelSteps, GoodReleases
  <2>2. ObjectsOK' /\ faults' \in 0 .. MaxFaults
    BY <1>2, <2>1, ApplySomeOK, UpdateObjectsOK, Same, FaultsOK
       DEF RollbackApply, ApplySome
  <2>3. LocalOK' /\ WorkOK'
    <3>1. CASE todo' = Listed(DeployedAll(cached)) /\ Goto("rollbackSupersede")
      <4>1. todo' \subseteq GoodItems /\ todo' \subseteq Items
        BY <3>1, ListedOK DEF DeployedAll, History
      <4>2. LocalOK'
        BY <1>2, <3>1, <4>1, GotoOK DEF RollbackApply, LocalOK, Steps
      <4> QED BY <1>2, <2>1, <3>1, <4>1, <4>2 DEF RollbackApply, Goto, WorkOK, PrevSteps
    <3>2. CASE Goto("rollbackFailCurrent") /\ UNCHANGED todo
      BY <1>2, <2>1, <3>2, GoodStep DEF RollbackApply, LocalOK, Steps
    <3>3. CASE UpgradeFails /\ UNCHANGED todo
      BY <1>2, <3>3, FailureOK DEF RollbackApply, LocalOK
    <3> QED BY <1>2, <3>1, <3>2, <3>3 DEF RollbackApply
  <2> QED BY <1>2, <2>2, <2>3, Same DEF RollbackApply
<1>3. CASE RollbackFailCurrent
  <2>1. prev \in GoodReleases /\ rel \in GoodReleases
    BY <1>3 DEF RollbackFailCurrent, WorkOK, PrevSteps, RelSteps
  <2>2. prev.version \in Versions /\ prev.manifest \in Specs
    BY <2>1 DEF GoodReleases
  <2>3. StoreOK' /\ faults' \in 0 .. MaxFaults
    BY <1>3, <2>2, RecordReleaseOK DEF RollbackFailCurrent, Statuses
  <2>4. LocalOK' /\ WorkOK'
    BY <1>3, <2>1, GoodStep DEF RollbackFailCurrent, LocalOK, Steps, PrevSteps, work
  <2> QED BY <1>3, <2>3, <2>4, Same DEF RollbackFailCurrent
<1>4. ASSUME NEW s \in Statuses, RecordRelease(rel.version, s, rel.manifest),
             UpgradeFails, UNCHANGED <<crVars, objects, work, others>>,
             rel \in GoodReleases
      PROVE  TypeInv'
  <2>1. StoreOK' /\ faults' \in 0 .. MaxFaults
    BY <1>4, RecordReleaseOK DEF GoodReleases
  <2>2. LocalOK' /\ WorkOK'
    BY <1>4, FailureOK DEF LocalOK, work
  <2> QED BY <1>4, <2>1, <2>2, Same
<1>5. CASE RollbackFailTarget
  BY <1>4, <1>5 DEF RollbackFailTarget, WorkOK, RelSteps, Statuses
<1>6. CASE RollbackSupersede
  <2>1. rel \in GoodReleases /\ todo \subseteq GoodItems
    BY <1>6 DEF RollbackSupersede, WorkOK, RelSteps
  <2>2. ASSUME NEW r \in todo, RecordRelease(r.version, "superseded", r.manifest),
               todo' = todo \ {r}, Goto("rollbackSupersede")
        PROVE  TypeInv'
    <3>1. r.version \in Versions /\ r.manifest \in Specs
      BY <2>1, <2>2 DEF GoodItems, Items
    <3>2. StoreOK' /\ faults' \in 0 .. MaxFaults
      BY <2>2, <3>1, RecordReleaseOK DEF Statuses
    <3>3. LocalOK'
      BY <1>6, <2>2, GotoOK DEF RollbackSupersede, LocalOK, Steps
    <3>4. WorkOK'
      BY <1>6, <2>1, <2>2 DEF RollbackSupersede, Goto, WorkOK, PrevSteps
    <3> QED BY <1>6, <3>2, <3>3, <3>4, Same DEF RollbackSupersede
  <2>3. CASE Works /\ Goto("rollbackDeploy") /\ UNCHANGED <<store, todo>>
    <3>1. LocalOK' /\ WorkOK'
      BY <1>6, <2>1, <2>3, GoodStep DEF RollbackSupersede, LocalOK, Steps, PrevSteps
    <3> QED BY <1>6, <2>3, <3>1, Same, FaultsOK DEF RollbackSupersede
  <2> QED BY <1>6, <2>2, <2>3 DEF RollbackSupersede
<1>7. CASE RollbackDeploy
  BY <1>4, <1>7 DEF RollbackDeploy, WorkOK, RelSteps, Statuses
<1> QED BY <1>1, <1>2, <1>3, <1>5, <1>6, <1>7

\* Users, the API server, the informer and crashes.
LEMMA EnvironmentType ==
  ASSUME TypeInv, Environment
  PROVE  TypeInv'
<1> USE DEF TypeInv
<1>1. CASE UserEdit
  <2>1. CROK'
    BY <1>1 DEF UserEdit, CROK, CRs
  <2>2. LocalOK' /\ WorkOK'
    BY <1>1 DEF UserEdit, Stale, LocalOK, WorkOK, work
  <2>3. BoundsOK'
    BY <1>1, BoundsAssumption DEF UserEdit, BoundsOK
  <2> QED BY <1>1, <2>1, <2>2, <2>3, Same DEF UserEdit
<1>2. CASE UserDelete \/ CRGone
  <2>1. CROK'
    BY <1>2 DEF UserDelete, CRGone, CROK, CRs
  <2>2. LocalOK' /\ WorkOK'
    BY <1>2 DEF UserDelete, CRGone, Stale, LocalOK, WorkOK, work
  <2> QED BY <1>2, <2>1, <2>2, Same DEF UserDelete, CRGone, BoundsOK
<1>3. CASE UserDrift
  <2>1. ObjectsOK'
    BY <1>3 DEF UserDrift, ObjectsOK, Contents
  <2>2. LocalOK' /\ WorkOK'
    BY <1>3 DEF UserDrift, local, LocalOK, WorkOK
  <2>3. BoundsOK'
    BY <1>3, BoundsAssumption DEF UserDrift, BoundsOK
  <2> QED BY <1>3, <2>1, <2>2, <2>3, Same DEF UserDrift
<1>4. CASE ObjectGone
  <2>1. ObjectsOK'
    BY <1>4 DEF ObjectGone, ObjectsOK, Contents
  <2>2. LocalOK' /\ WorkOK'
    BY <1>4 DEF ObjectGone, local, LocalOK, WorkOK
  <2> QED BY <1>4, <2>1, <2>2, Same DEF ObjectGone, BoundsOK
<1>5. CASE GarbageCollect
  <2>1. StoreOK'
    BY <1>5, Same, WriteReleaseOK, NoReleaseOK DEF GarbageCollect
  <2>2. ObjectsOK'
    BY <1>5 DEF GarbageCollect, ObjectsOK, Contents
  <2>3. LocalOK' /\ WorkOK'
    BY <1>5 DEF GarbageCollect, local, LocalOK, WorkOK
  <2> QED BY <1>5, <2>1, <2>2, <2>3, Same DEF GarbageCollect, BoundsOK
<1>6. CASE WatchDeliver
  <2>1. StoreOK'
    <3> DEFINE E == Versions \X GoodRecords
    <3>1. watchq \in Seq(E) /\ watchq # <<>>
      BY <1>6 DEF WatchDeliver, StoreOK
    <3>2. Head(watchq) \in E /\ Tail(watchq) \in Seq(E)
      <4> HIDE DEF E
      <4> QED BY <3>1
    <3>3. cached' \in GoodStores
      BY <1>6, <3>2 DEF WatchDeliver, StoreOK, GoodStores
    <3> QED BY <1>6, <3>2, <3>3 DEF WatchDeliver, StoreOK
  <2>2. LocalOK' /\ WorkOK'
    BY <1>6 DEF WatchDeliver, local, LocalOK, WorkOK
  <2> QED BY <1>6, <2>1, <2>2, Same DEF WatchDeliver, BoundsOK
<1>7. CASE Crash
  <2>1. StoreOK'
    BY <1>7 DEF Crash, StoreOK
  <2>2. BoundsOK'
    BY <1>7, BoundsAssumption DEF Crash, BoundsOK
  <2> QED BY <1>7, <2>1, <2>2, Same, ReturnOK DEF Crash
<1> QED BY <1>1, <1>2, <1>3, <1>4, <1>5, <1>6, <1>7 DEF Environment

\* Nothing changes in a stuttering step.
LEMMA StutterType ==
  ASSUME TypeInv, UNCHANGED vars
  PROVE  TypeInv'
BY DEF TypeInv, CROK, StoreOK, ObjectsOK, LocalOK, BoundsOK, WorkOK, vars, crVars,
       store, objects, local, others

\* Every reachable state satisfies the inductive invariant.
THEOREM TypeInvariant == Spec => []TypeInv
<1>1. TypeInv /\ [Next]_vars => TypeInv'
  BY DeletionType, SyncType, InstallType, UpgradeType, RollbackType,
     EnvironmentType, StutterType DEF Next, Reconciler
<1> QED BY TypeInit, <1>1, PTL DEF Spec

\* TypeOK is an invariant: the state keeps its types in every interleaving of
\* the reconciler with users, the informer, the garbage collector and crashes.
THEOREM TypeCorrect == Spec => []TypeOK
<1>1. TypeInv => TypeOK
  <2> SUFFICES ASSUME TypeInv PROVE TypeOK
    OBVIOUS
  <2>1. GoodRecords \subseteq Records
    BY DEF GoodRecords
  <2>2. releases \in Stores /\ cached \in Stores
    BY <2>1 DEF TypeInv, StoreOK, GoodStores, Stores
  <2>3. watchq \in Seq(Versions \X Records)
    BY <2>1 DEF TypeInv, StoreOK
  <2> QED BY <2>2, <2>3 DEF TypeInv, CROK, ObjectsOK, LocalOK, BoundsOK, TypeOK
<1> QED BY <1>1, TypeInvariant, PTL
=============================================================================
