----------------------------- MODULE OLMInstall -----------------------------
(***************************************************************************)
(* operator-sdk olm install / uninstall: the commands create or delete the *)
(* manifests of an OLM version one by one, under a time-out.  A command is *)
(* a process of its own, and may be followed by any other one.  Around it  *)
(* the API server establishes definitions, cascades deletions and finishes *)
(* them later.                                                             *)
(***************************************************************************)
EXTENDS Naturals, SequencesExt

CONSTANTS Crds,        \* the manifest's definitions, in order
          Resources,   \* its other objects, in order
          KindOf,      \* object -> its definition in Crds, or NoCRD
          NoCRD,
          Within,      \* object -> the namespace object it is in, or NoCRD
          Waits,       \* deployments and CSVs the install waits for, in order
          VersionCSV,  \* the package server's CSV, which tells the version
          MaxInstalls, MaxAborts  \* bounds on installs and on failing commands

All == Range(Crds) \cup Range(Resources)

VARIABLES state,    \* of every object at the API server
          served,   \* definitions whose kinds discovery knows
          ready,    \* those of Waits that are rolled out
          pc, todo, \* the running command and what it has left to do
          known,    \* definitions in the REST mapper of the process
          result,   \* how the last command ended
          installs, aborts

cluster == <<state, served, ready>>
process == <<pc, todo, known, result>>
bounds  == <<installs, aborts>>
vars    == <<cluster, process, bounds>>

Parents(o) == {KindOf[o], Within[o]} \ {NoCRD}

Untouched == [o \in All |-> "absent"]
Complete  == [o \in All |-> "present"]

Init ==
  /\ \/ state = Untouched /\ served = {} /\ ready = {}
     \/ state = Complete /\ served = Range(Crds) /\ ready = Range(Waits)
  /\ pc = "idle" /\ todo = <<>> /\ known = {} /\ result = "none"
  /\ installs = MaxInstalls /\ aborts = MaxAborts

-----------------------------------------------------------------------------
(* Requests *)

\* No kind match: the definition is not served and was not mapped before.
Mapped(o) == KindOf[o] \in known \cup served \cup {NoCRD}

\* HasInstalledResources: an object that is found, terminating or not.  Of the
\* errors, "not found" and the "no kind match" of an OLM kind do not count.
HasInstalledResources(S) == \E o \in S : state[o] # "absent"

\* GetObjectsStatus asks for every object and so fills the REST mapper.
GetObjectsStatus == known' = known \cup served

Start(step) == /\ pc = "idle" /\ pc' = step
               /\ known' = {} /\ result' = "none" /\ todo' = <<>>

End(how) == pc' = "idle" /\ result' = how /\ todo' = <<>> /\ UNCHANGED known

-----------------------------------------------------------------------------
(* olm install *)

Install ==
  /\ installs > 0 /\ installs' = installs - 1
  /\ Start("check")
  /\ UNCHANGED <<cluster, aborts>>

\* Mutant: the remains of the definitions only are looked for.
CheckExistingCRDs ==
  /\ pc = "check" /\ GetObjectsStatus
  /\ IF HasInstalledResources(Range(Crds))
     THEN pc' = "idle" /\ result' = "refused" /\ todo' = <<>>
     ELSE pc' = "crds" /\ todo' = Crds /\ UNCHANGED result
  /\ UNCHANGED <<cluster, bounds>>

\* Objects of OLM's own kinds are not looked for: they go with their kinds.
CheckExisting ==
  /\ pc = "check" /\ GetObjectsStatus
  /\ IF HasInstalledResources(Range(Crds) \cup {o \in All : KindOf[o] = NoCRD})
     THEN pc' = "idle" /\ result' = "refused" /\ todo' = <<>>
     ELSE pc' = "crds" /\ todo' = Crds /\ UNCHANGED result
  /\ UNCHANGED <<cluster, bounds>>

\* An object that exists counts as created; no kind match is tried again.
SafeCreateOneResource ==
  /\ pc \in {"crds", "create"} /\ todo # <<>> /\ Mapped(Head(todo))
  /\ state' = [state EXCEPT ![Head(todo)] = IF @ = "absent" THEN "present" ELSE @]
  /\ todo' = Tail(todo)
  /\ known' = known \cup ({KindOf[Head(todo)]} \ {NoCRD})
  /\ UNCHANGED <<served, ready, pc, result, bounds>>

\* The wait ends when one of the definitions is found.
AwaitCRDs ==
  /\ pc = "crds" /\ todo = <<>> /\ HasInstalledResources(Range(Crds))
  /\ pc' = "create" /\ todo' = Resources
  /\ GetObjectsStatus /\ UNCHANGED <<cluster, result, bounds>>

\* DoRolloutWait of the two operators, DoCSVWait of the subscriptions' CSVs
\* and DoRolloutWait of the package server, one after the other.
AwaitRollouts ==
  /\ pc = "create" /\ todo = <<>>
  /\ pc' = "rollout" /\ todo' = Waits
  /\ UNCHANGED <<cluster, known, result, bounds>>

RolloutWait ==
  /\ pc = "rollout" /\ todo # <<>> /\ Head(todo) \in ready
  /\ todo' = Tail(todo)
  /\ UNCHANGED <<cluster, pc, known, result, bounds>>

Installed ==
  /\ pc = "rollout" /\ todo = <<>>
  /\ End("installed") /\ UNCHANGED <<cluster, bounds>>

-----------------------------------------------------------------------------
(* olm uninstall *)

Uninstall == Start("version") /\ UNCHANGED <<cluster, bounds>>

\* GetInstalledVersion: the package server's CSV is found in a list, which
\* fails when the kind is not served, and its label or name has the version.
GetInstalledVersion ==
  KindOf[VersionCSV] \in served /\ state[VersionCSV] # "absent"

\* The version in the cluster must be the one asked for with --version; when
\* it cannot be told, only --version says it.
CheckVersion(given) ==
  /\ pc = "version"
  /\ IF given # (IF GetInstalledVersion THEN "other" ELSE "none")
     THEN pc' = "objects" /\ UNCHANGED <<todo, known, result>>
     ELSE End("error")
  /\ UNCHANGED <<cluster, bounds>>

UninstallVersion ==
  /\ pc = "objects" /\ GetObjectsStatus
  /\ IF HasInstalledResources(All)
     THEN pc' = "delete" /\ todo' = Crds \o Resources /\ UNCHANGED result
     ELSE pc' = "idle" /\ todo' = <<>> /\ result' = "notInstalled"
  /\ UNCHANGED <<cluster, bounds>>

\* Delete with background propagation; not found is fine, no kind match ends
\* the command.
DeleteOne ==
  /\ pc = "delete" /\ todo # <<>>
  /\ LET o == Head(todo)
     IN IF Mapped(o)
        THEN /\ state' = [state EXCEPT ![o] = IF @ = "present" THEN "terminating" ELSE @]
             /\ pc' = "gone" /\ UNCHANGED <<todo, known, result>>
        ELSE End("error") /\ UNCHANGED state
  /\ UNCHANGED <<served, ready, bounds>>

AwaitGone ==
  /\ pc = "gone" /\ state[Head(todo)] = "absent"
  /\ pc' = "delete" /\ todo' = Tail(todo)
  /\ UNCHANGED <<cluster, known, result, bounds>>

Uninstalled ==
  /\ pc = "delete" /\ todo = <<>>
  /\ End("uninstalled") /\ UNCHANGED <<cluster, bounds>>

\* The time-out expires, or a request fails for good.
Abort ==
  /\ pc # "idle" /\ aborts > 0 /\ aborts' = aborts - 1
  /\ End("aborted") /\ UNCHANGED <<cluster, installs>>

-----------------------------------------------------------------------------
(* The cluster *)

Establish(c) ==
  /\ state[c] = "present" /\ c \notin served
  /\ served' = served \cup {c}
  /\ UNCHANGED <<state, ready, process, bounds>>

Cascade(o) ==
  /\ state[o] = "present" /\ \E p \in Parents(o) : state[p] # "present"
  /\ state' = [state EXCEPT ![o] = "terminating"]
  /\ UNCHANGED <<served, ready, process, bounds>>

Finish(o) ==
  /\ state[o] = "terminating"
  /\ \A q \in All : o \in Parents(q) => state[q] = "absent"
  /\ state' = [state EXCEPT ![o] = "absent"]
  /\ served' = served \ {o}
  /\ UNCHANGED <<ready, process, bounds>>

\* What rolls out, in order, needs every object of the manifest.
RollOut ==
  /\ state = Complete
  /\ \E i \in DOMAIN Waits :
       /\ \A j \in DOMAIN Waits : j < i => Waits[j] \in ready
       /\ Waits[i] \notin ready /\ ready' = ready \cup {Waits[i]}
  /\ UNCHANGED <<state, served, process, bounds>>

GoDown == /\ ready # {} /\ state # Complete
          /\ ready' = {} /\ UNCHANGED <<state, served, process, bounds>>

Command == \/ CheckExisting \/ SafeCreateOneResource \/ AwaitCRDs
           \/ AwaitRollouts \/ RolloutWait \/ Installed
           \/ CheckVersion("same") \/ UninstallVersion \/ DeleteOne
           \/ AwaitGone \/ Uninstalled

Environment == \/ \E c \in Range(Crds) : Establish(c)
               \/ \E o \in All : Cascade(o) \/ Finish(o)
               \/ RollOut \/ GoDown

Next == \/ Install \/ Uninstall \/ Abort \/ Command \/ Environment
        \/ \E given \in {"none", "other"} : CheckVersion(given)

Spec == Init /\ [][Next]_vars

-----------------------------------------------------------------------------
(* Properties *)

\* After a successful install every object of the manifest is there to stay:
\* none is a remainder of an earlier installation that is going away.  After a
\* successful uninstall nothing is left, whatever cut-off commands came before.
OutcomeComplete == /\ result = "installed" => state = Complete
                   /\ result = "uninstalled" => state = Untouched
=============================================================================
