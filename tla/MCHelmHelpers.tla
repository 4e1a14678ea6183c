---------------------------- MODULE MCHelmHelpers ----------------------------
(***************************************************************************)
(* An instance of HelmHelpers for TLC.  A behaviour is one of a single     *)
(* component: the variables of the others have values at which they take   *)
(* no step, so the states of the run are the sum of the components' states.*)
(***************************************************************************)
EXTENDS HelmHelpers, FiniteSets

-----------------------------------------------------------------------------
(* Watches: two workers, namespaced and cluster-scoped kinds, releases that *)
(* share a kind, a List document and a document that does not parse.        *)
Object(k, n) == [kind |-> k, ns |-> n]
Document(objs) == [malformed |-> FALSE, objects |-> objs]
Plain == [ns |-> "ns1", docs |-> {Document(<<Object("Pod", "ns1")>>),
                                  Document(<<Object("Role", "ns1")>>)}]
Listed == [ns |-> "ns2", docs |-> {Document(<<Object("Role", "ns2"), Object("Node", "")>>)}]
Implicit == [ns |-> "ns1", docs |-> {Document(<<Object("Pod", "")>>)}]
Broken == [ns |-> "ns1", docs |-> {[malformed |-> TRUE, objects |-> <<>>]}]

MCReleases == {Plain, Listed, Implicit, Broken}

WatchesOff ==
  /\ table = {} /\ started = [x \in Kinds \X Watches!Handlers |-> 0]
  /\ watchPc = [w \in Workers |-> "off"] /\ rel = [w \in Workers |-> Broken]
  /\ docs = <<>> /\ items = <<>> /\ hooked = {} /\ faults = 0

(* Informers: three workers, two namespaces, a restart of the process. *)
InformersOff ==
  /\ mutex = FALSE /\ entries = {} /\ informer = Informers!NoInformers
  /\ made = Informers!NoneMade /\ informerPc = [w \in Callers |-> "off"]
  /\ ns = <<>> /\ restarts = 0

(* Conditions: three types, and a clock of four instants. *)
ConditionsOff == conditions = <<>> /\ since = <<>> /\ now = MaxTime

(* Values: all trees over paths of two keys, one of them three keys long,   *)
(* and all sets of up to three overrides of such paths.                     *)
Keys == {"a", "b"}
Paths == {<<k>> : k \in Keys} \cup {<<j, k>> : j \in Keys, k \in Keys} \cup {<<"a", "a", "b">>}
Inside(p, q) == p # q /\ Len(q) <= Len(p) /\ SubSeq(p, 1, Len(q)) = q
Trees == {{<<p, "spec">> : p \in S} : S \in {T \in SUBSET Paths : \A p, q \in T : ~Inside(p, q)}}
OverrideSets ==
  {{<<p, "override">> : p \in S} : S \in {T \in SUBSET Paths : Cardinality(T) <= 3}}

ValuesOff == /\ spec = {} /\ overrides = {} /\ given = {} /\ parsed = {} /\ calls = {}
             /\ values = {} /\ valuePc = "off"

\* These inputs are such as the theorems of HelmHelperProofs speak of.
ASSUME InputsAsAssumed == Releases \subseteq RenderedReleases /\ ValueInputs

-----------------------------------------------------------------------------
Init ==
  \/ Watches!Init /\ InformersOff /\ ConditionsOff /\ ValuesOff
  \/ WatchesOff /\ Informers!Init /\ ConditionsOff /\ ValuesOff
  \/ WatchesOff /\ InformersOff /\ Conditions!Init /\ ValuesOff
  \/ WatchesOff /\ InformersOff /\ ConditionsOff /\ Values!Init

watchVars == <<table, started, watchPc, rel, docs, items, hooked, faults>>
informerVars == <<mutex, entries, informer, made, informerPc, ns, restarts>>
conditionVars == <<conditions, since, now>>
valueVars == <<spec, overrides, given, parsed, calls, values, valuePc>>
vars == <<watchVars, informerVars, conditionVars, valueVars>>

Next ==
  \/ Watches!Next /\ UNCHANGED <<informerVars, conditionVars, valueVars>>
  \/ Informers!Next /\ UNCHANGED <<watchVars, conditionVars, valueVars>>
  \/ /\ since # <<>> /\ Conditions!Next
     /\ UNCHANGED <<watchVars, informerVars, valueVars>>
  \/ Values!Next /\ UNCHANGED <<watchVars, informerVars, conditionVars>>

Spec == Init /\ [][Next]_vars /\ Informers!Fairness
=============================================================================
