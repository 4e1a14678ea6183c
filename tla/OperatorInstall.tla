--------------------------- MODULE OperatorInstall ---------------------------
(***************************************************************************)
(* operator-sdk run bundle, run bundle-upgrade and cleanup, with OLM in a  *)
(* namespace.  Each package has one user, whose commands follow each other *)
(* and may be cut off by their time-out; the users share the namespace's   *)
(* operator groups.  An install plan is named by the version it installs.  *)
(***************************************************************************)
EXTENDS Naturals, Sequences, FiniteSets

CONSTANTS Packages, Versions,
          Supported,   \* package -> the install mode types its CSV supports
          Modes,       \* install modes a user may give: [type, targets]
          Own, Namespaces,
          UserGroups,  \* choices of the groups, by targets, that users have made
          MaxCommands, MaxAborts,
          AbortAt      \* steps at which a command may be cut off

VARIABLES cat,      \* catalog source: its annotations, the last pod and items
          pods,     \* registry pods, named by the last bundle they serve
          ogs,      \* operator groups of the namespace
          sub,      \* subscription
          approved, \* approved install plans not yet carried out
          csv,      \* installed CSV, and whether its definitions are there
          pc, cmd,  \* the running command and its arguments
          got,      \* what it has read and not used yet
          result,   \* how it ended
          commands, aborts

cluster == <<cat, pods, ogs, sub, approved, csv>>
process == <<pc, cmd, got, result>>
vars    == <<cluster, process, commands, aborts>>

NoCat == [there |-> FALSE, pod |-> 0, items |-> <<>>]
NoSub == [there |-> FALSE, start |-> 0, ref |-> 0, installed |-> 0]
NoCSV == [v |-> 0, ok |-> FALSE, crds |-> FALSE]
NoMode == [type |-> "none", targets |-> {}]
NoRead == [ref |-> 0, pod |-> 0, items |-> <<>>, csv |-> 0, found |-> FALSE, todo |-> <<>>,
           ogs |-> {}, any |-> FALSE]
NoCmd == [kind |-> "none", v |-> 0, mode |-> NoMode]

Init == /\ cat = [p \in Packages |-> NoCat] /\ sub = [p \in Packages |-> NoSub]
        /\ csv = [p \in Packages |-> NoCSV] /\ approved = [p \in Packages |-> {}]
        /\ pods = {}
        /\ \E u \in UserGroups : ogs = {[sdk |-> FALSE, targets |-> t] : t \in u}
        /\ pc = [p \in Packages |-> "idle"] /\ cmd = [p \in Packages |-> NoCmd]
        /\ got = [p \in Packages |-> NoRead] /\ result = [p \in Packages |-> "none"]
        /\ commands = MaxCommands /\ aborts = MaxAborts

Start(p, c) == /\ pc[p] = "idle" /\ commands > 0 /\ commands' = commands - 1
               /\ cmd' = [cmd EXCEPT ![p] = c]
               /\ UNCHANGED <<cluster, aborts>>

To(p, step) == /\ pc' = [pc EXCEPT ![p] = step]
               /\ result' = [result EXCEPT ![p] = "none"]

End(p, how) == pc' = [pc EXCEPT ![p] = "idle"] /\ result' = [result EXCEPT ![p] = how]

Go(p, step) == To(p, step) /\ UNCHANGED <<cmd, commands, aborts>>
Stop(p, how) == End(p, how) /\ UNCHANGED <<cmd, commands, aborts>>

-----------------------------------------------------------------------------
(* Install modes *)

\* InstallMode.Validate, and CheckCompatibility with the CSV.
Validate(m) == CASE m.type \in {"AllNamespaces", "OwnNamespace", "none"} -> m.targets = {}
                 [] m.type = "SingleNamespace" -> Cardinality(m.targets) = 1
                 [] m.type = "MultiNamespace" -> m.targets # {}

CheckCompatibility(p, m) ==
  /\ m.type = "SingleNamespace" => Own \notin m.targets
  /\ m.type # "none" => m.type \in Supported[p]

\* getTargetNamespaces, of the modes supported or of the one asked for.
GetTargetNamespaces(p, m) ==
  LET supported == IF m.type = "none" THEN Supported[p] ELSE Supported[p] \cap {m.type}
  IN CASE "AllNamespaces" \in supported -> {}
       [] "AllNamespaces" \notin supported /\ "OwnNamespace" \in supported -> {Own}
       [] OTHER -> m.targets

\* OLM's rule: which mode a CSV has to support under an operator group.
GroupOK(p) == \E g \in ogs : ogs = {g} /\
  CASE g.targets = {} -> "AllNamespaces" \in Supported[p]
    [] g.targets = {Own} -> "OwnNamespace" \in Supported[p]
    [] Cardinality(g.targets) = 1 /\ g.targets # {Own} -> "SingleNamespace" \in Supported[p]
    [] OTHER -> "MultiNamespace" \in Supported[p]

-----------------------------------------------------------------------------
(* run bundle *)

RunBundle(p, v, m) ==
  /\ Validate(m)
  /\ Start(p, [kind |-> "run", v |-> v, mode |-> m])
  /\ IF CheckCompatibility(p, m) THEN To(p, "catalog") ELSE End(p, "error")
  /\ got' = [got EXCEPT ![p] = [NoRead EXCEPT !.items = <<v>>]]

CreateCatalog(p) ==
  /\ pc[p] = "catalog"
  /\ IF cat[p].there
     THEN Stop(p, "error") /\ UNCHANGED cat
     ELSE Go(p, "pod") /\ cat' = [cat EXCEPT ![p] = [NoCat EXCEPT !.there = TRUE]]
  /\ UNCHANGED <<pods, ogs, sub, approved, csv, got>>

\* createAnnotatedRegistry: Create of either registry pod, named after the
\* bundle it adds, and the wait until it runs.
CreateRegistryPod(p) ==
  /\ pc[p] = "pod"
  /\ IF <<p, cmd[p].v>> \in pods
     THEN Stop(p, "error") /\ UNCHANGED pods
     ELSE Go(p, "annotate") /\ pods' = pods \cup {<<p, cmd[p].v>>}
  /\ UNCHANGED <<cat, ogs, sub, approved, csv, got>>

\* createAnnotatedRegistry: the catalog source is read again and then updated.
UpdateCatalogSourceFields(p) ==
  /\ pc[p] = "annotate"
  /\ IF cat[p].there
     THEN /\ cat' = [cat EXCEPT ![p].pod = cmd[p].v, ![p].items = got[p].items]
          /\ Go(p, CASE cmd[p].kind = "run" -> "groups"
                     [] cmd[p].kind = "upgrade" /\ got[p].pod # 0 -> "oldpod"
                     [] OTHER -> "plan")
     ELSE Stop(p, "error") /\ UNCHANGED cat
  /\ UNCHANGED <<pods, ogs, sub, approved, csv, got>>

GetOperatorGroup(p) ==
  /\ pc[p] = "groups"
  /\ IF Cardinality(ogs) > 1 THEN Stop(p, "error") /\ UNCHANGED got
     ELSE Go(p, "ensure") /\ got' = [got EXCEPT ![p].ogs = ogs]
  /\ UNCHANGED cluster

\* ensureOperatorGroup: creates the group of operator-sdk, unless it is there
\* by now, or checks the one it has found.
EnsureOperatorGroup(p) ==
  LET targets == GetTargetNamespaces(p, cmd[p].mode)
      made    == [sdk |-> TRUE, targets |-> targets]
      create  == got[p].ogs = {} /\ ~\E g \in ogs : g.sdk
      fits    == got[p].ogs # {} /\ (cmd[p].mode.type = "none" \/
                                     \A g \in got[p].ogs : g.targets = targets)
  IN /\ pc[p] = "ensure"
     /\ IF create \/ fits THEN Go(p, "subscribe") ELSE Stop(p, "error")
     /\ ogs' = IF create THEN ogs \cup {made} ELSE ogs
     /\ UNCHANGED <<cat, pods, sub, approved, csv, got>>

CreateSubscription(p) ==
  /\ pc[p] = "subscribe"
  /\ IF sub[p].there
     THEN Stop(p, "error") /\ UNCHANGED sub
     ELSE /\ Go(p, "plan")
          /\ sub' = [sub EXCEPT ![p] = [NoSub EXCEPT !.there = TRUE, !.start = cmd[p].v]]
  /\ UNCHANGED <<cat, pods, ogs, approved, csv, got>>

\* Mutant: any install plan of the subscription will do.
WaitForAnyInstallPlan(p) ==
  /\ pc[p] = "plan" /\ sub[p].ref # 0
  /\ Go(p, "approve") /\ got' = [got EXCEPT ![p].ref = sub[p].ref]
  /\ UNCHANGED cluster

\* waitForInstallPlan: until the subscription has a plan other than the one
\* read before the catalog was updated.
WaitForInstallPlan(p) ==
  /\ pc[p] = "plan"
  /\ IF sub[p].there
     THEN /\ sub[p].ref \notin {0, got[p].ref}
          /\ Go(p, "approve") /\ got' = [got EXCEPT ![p].ref = sub[p].ref]
     ELSE Stop(p, "error") /\ UNCHANGED got
  /\ UNCHANGED cluster

\* approveInstallPlan: the plan goes with its subscription.
ApproveInstallPlan(p) ==
  /\ pc[p] = "approve"
  /\ IF sub[p].there
     THEN Go(p, "csv") /\ approved' = [approved EXCEPT ![p] = @ \cup {got[p].ref}]
     ELSE Stop(p, "error") /\ UNCHANGED approved
  /\ UNCHANGED <<cat, pods, ogs, sub, csv, got>>

\* getInstalledCSV: DoCSVWait ends with the CSV's success or failure.
GetInstalledCSV(p) ==
  /\ pc[p] = "csv" /\ csv[p].v = cmd[p].v /\ (csv[p].ok \/ ~GroupOK(p))
  /\ Stop(p, IF csv[p].ok THEN "installed" ELSE "error")
  /\ UNCHANGED <<cluster, got>>

-----------------------------------------------------------------------------
(* run bundle-upgrade *)

\* ValidateAndStringify (or opm registry add) refuses a bundle twice.
ValidItems(s) == \A i, j \in DOMAIN s : i # j => s[i] # s[j]

\* UpgradeOperator reads the subscription and its catalog source; UpdateCatalog
\* takes the bundles and the pod's name from the annotations.
UpgradeOperator(p, v) ==
  /\ Start(p, [kind |-> "upgrade", v |-> v, mode |-> NoMode])
  /\ LET items == Append(cat[p].items, v)
     IN /\ IF sub[p].there /\ cat[p].there /\ cat[p].items # <<>> /\ ValidItems(items)
           THEN To(p, "pod") ELSE End(p, "error")
        /\ got' = [got EXCEPT ![p] = [NoRead EXCEPT !.ref = sub[p].ref, !.pod = cat[p].pod,
                                                    !.items = items]]

\* Mutant: the old registry pod is left alone.
DeleteNoRegistryPod(p) ==
  pc[p] = "oldpod" /\ Go(p, "plan") /\ UNCHANGED <<cluster, got>>

\* deleteRegistryPod: the pod must be there, is deleted, and is waited for.
DeleteRegistryPod(p) ==
  /\ pc[p] = "oldpod"
  /\ IF <<p, got[p].pod>> \in pods
     THEN Go(p, "plan") /\ pods' = pods \ {<<p, got[p].pod>>}
     ELSE Stop(p, "error") /\ UNCHANGED pods
  /\ UNCHANGED <<cat, ogs, sub, approved, csv, got>>

-----------------------------------------------------------------------------
(* cleanup *)

\* Uninstall.Run reads everything first.  The CSV is the one the subscription
\* has installed, or else the one it is about to; an object with no name
\* stands for a CSV that is not found.
Uninstall(p, deleteCRDs) ==
  LET name  == IF sub[p].installed # 0 THEN sub[p].installed ELSE sub[p].ref
      found == name # 0 /\ csv[p].v = name
      crds  == IF deleteCRDs /\ found /\ csv[p].crds THEN <<"crds">> ELSE <<>>
  IN /\ Start(p, [kind |-> "cleanup", v |-> 0, mode |-> NoMode])
     /\ To(p, "unsubscribe")
     /\ got' = [got EXCEPT ![p] = [NoRead EXCEPT !.csv = name, !.found = found,
          !.todo = crds \o (IF name # 0 THEN <<"csv">> ELSE <<>>)
                        \o (IF cat[p].there THEN <<"catalog">> ELSE <<>>),
          !.any = sub[p].there \/ cat[p].there]]

DeleteSubscription(p) ==
  /\ pc[p] = "unsubscribe"
  /\ sub' = [sub EXCEPT ![p] = NoSub]
  /\ Go(p, "delete") /\ UNCHANGED <<cat, pods, ogs, approved, csv, got>>

\* Mutant: the catalog source is not deleted.
DeleteObjectsButCatalog(p) ==
  /\ pc[p] = "delete" /\ got[p].todo # <<>>
  /\ csv' = CASE Head(got[p].todo) = "crds" -> [csv EXCEPT ![p].crds = FALSE]
              [] Head(got[p].todo) = "csv" /\ csv[p].v = got[p].csv
                   -> [csv EXCEPT ![p].v = 0, ![p].ok = FALSE]
              [] OTHER -> csv
  /\ got' = [got EXCEPT ![p].todo = Tail(@)]
  /\ Go(p, "delete") /\ UNCHANGED <<cat, pods, ogs, sub, approved>>

\* deleteObjects: one after the other, each waited for.  A request for an
\* object with no name is an error that is not "not found".
DeleteObjects(p) ==
  /\ pc[p] = "delete" /\ got[p].todo # <<>>
  /\ LET o == Head(got[p].todo)
     IN IF o = "csv" /\ ~got[p].found
        THEN Stop(p, "error") /\ UNCHANGED <<cat, csv, got>>
        ELSE /\ csv' = CASE o = "crds" -> [csv EXCEPT ![p].crds = FALSE]
                         [] o = "csv" /\ csv[p].v = got[p].csv
                              -> [csv EXCEPT ![p].v = 0, ![p].ok = FALSE]
                         [] OTHER -> csv
             /\ cat' = IF o = "catalog" THEN [cat EXCEPT ![p] = NoCat] ELSE cat
             /\ got' = [got EXCEPT ![p].todo = Tail(@)]
             /\ Go(p, "delete")
  /\ UNCHANGED <<pods, ogs, sub, approved>>

\* deleteOperatorGroup: only without subscriptions, and only operator-sdk's.
ListSubscriptions(p) ==
  /\ pc[p] = "delete" /\ got[p].todo = <<>>
  /\ IF \E q \in Packages : sub[q].there
     THEN Stop(p, IF got[p].any THEN "clean" ELSE "notFound")
     ELSE Go(p, "ungroup")
  /\ UNCHANGED <<cluster, got>>

DeleteOperatorGroup(p) ==
  /\ pc[p] = "ungroup"
  /\ ogs' = {g \in ogs : ~g.sdk}
  /\ Stop(p, IF got[p].any THEN "clean" ELSE "notFound")
  /\ UNCHANGED <<cat, pods, sub, approved, csv, got>>

\* The context of a command expires.
TimeOut(p) ==
  /\ pc[p] \in AbortAt /\ aborts > 0 /\ aborts' = aborts - 1
  /\ End(p, "timeout") /\ UNCHANGED <<cluster, cmd, got, commands>>

-----------------------------------------------------------------------------
(* OLM and the garbage collector *)

\* The version after the installed one, or the starting one at first.
NextVersion(p) ==
  IF sub[p].installed = 0 THEN {v \in {sub[p].start} : \E i \in DOMAIN cat[p].items : cat[p].items[i] = v}
  ELSE {cat[p].items[i + 1] : i \in {j \in DOMAIN cat[p].items :
                                       j < Len(cat[p].items) /\ cat[p].items[j] = sub[p].installed}}

GeneratePlan(p) ==
  /\ sub[p].there /\ sub[p].ref = sub[p].installed
  /\ cat[p].there /\ <<p, cat[p].pod>> \in pods
  /\ \E v \in NextVersion(p) : sub' = [sub EXCEPT ![p].ref = v]
  /\ UNCHANGED <<cat, pods, ogs, approved, csv, process, commands, aborts>>

InstallCSV(p) ==
  \E v \in approved[p] :
    /\ approved' = [approved EXCEPT ![p] = @ \ {v}]
    /\ csv' = [csv EXCEPT ![p] = [v |-> v, ok |-> FALSE, crds |-> TRUE]]
    /\ sub' = [sub EXCEPT ![p].installed = IF sub[p].there THEN v ELSE 0]
    /\ UNCHANGED <<cat, pods, ogs, process, commands, aborts>>

SucceedCSV(p) ==
  /\ csv[p].v # 0 /\ ~csv[p].ok /\ GroupOK(p)
  /\ csv' = [csv EXCEPT ![p].ok = TRUE]
  /\ UNCHANGED <<cat, pods, ogs, sub, approved, process, commands, aborts>>

Collect(p) ==
  /\ pods' = {x \in pods : x[1] = p => cat[p].there}
  /\ approved' = [approved EXCEPT ![p] = IF sub[p].there THEN @ ELSE {}]
  /\ <<pods, approved>>' # <<pods, approved>>
  /\ UNCHANGED <<cat, ogs, sub, csv, process, commands, aborts>>

Command(p) == \/ CreateCatalog(p) \/ CreateRegistryPod(p) \/ UpdateCatalogSourceFields(p)
              \/ GetOperatorGroup(p) \/ EnsureOperatorGroup(p) \/ CreateSubscription(p)
              \/ WaitForInstallPlan(p) \/ ApproveInstallPlan(p) \/ GetInstalledCSV(p)
              \/ DeleteRegistryPod(p) \/ DeleteSubscription(p) \/ DeleteObjects(p)
              \/ ListSubscriptions(p) \/ DeleteOperatorGroup(p)

OLM(p) == GeneratePlan(p) \/ InstallCSV(p) \/ SucceedCSV(p) \/ Collect(p)

Next == \E p \in Packages :
          \/ \E v \in Versions, m \in Modes \cup {NoMode} : RunBundle(p, v, m)
          \/ \E v \in Versions : UpgradeOperator(p, v)
          \/ \E d \in BOOLEAN : Uninstall(p, d)
          \/ Command(p) \/ TimeOut(p) \/ OLM(p)

\* Commands and OLM make progress; nobody has to start a command.
Fairness == \A p \in Packages : WF_vars(Command(p)) /\ WF_vars(OLM(p))

Spec == Init /\ [][Next]_vars /\ Fairness

-----------------------------------------------------------------------------
(* Properties *)

\* A run or an upgrade that reports success has its CSV installed, served by
\* the pod the catalog source names, and has left no pod it took over from.
\* With --install-mode it found or made the one group that targets exactly the
\* namespaces asked for.
SuccessServed == \A p \in Packages :
  result[p] = "installed" =>
    /\ csv[p].v = cmd[p].v /\ cat[p].pod = cmd[p].v /\ <<p, cmd[p].v>> \in pods
    /\ got[p].pod # 0 => <<p, got[p].pod>> \notin pods
    /\ cmd[p].mode.type # "none" =>
         \E g \in ogs : ogs = {g} /\
           g.targets = IF cmd[p].mode.type = "OwnNamespace" THEN {Own} ELSE cmd[p].mode.targets

\* A cleanup that reports success leaves neither subscription, CSV nor catalog
\* source, and no operator group of operator-sdk without a subscription.
CleanupComplete == \A p \in Packages :
  result[p] = "clean" =>
    /\ ~sub[p].there /\ csv[p].v = 0 /\ ~cat[p].there
    /\ (\A q \in Packages : ~sub[q].there /\ pc[q] = "idle") => ~\E g \in ogs : g.sdk

\* As long as no command is cut off, every command ends by itself, wherever it
\* starts: OLM produces what it waits for.
CommandsEnd ==
  \A p \in Packages : [](aborts = MaxAborts) => (pc[p] # "idle" ~> pc[p] = "idle")
=============================================================================
