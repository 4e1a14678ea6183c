------------------------ MODULE WebhookDescriptions ------------------------
(***************************************************************************)
(* The webhook definitions of a generated CSV (applyWebhooks and what it   *)
(* calls in internal/generate/clusterserviceversion).  Admission webhooks  *)
(* and the conversion webhooks of CRDs are matched to a service by name    *)
(* and through its selector to a deployment.  Descriptions are kept as a   *)
(* set: the final sort by name is not told apart.                          *)
(***************************************************************************)
EXTENDS Integers, Sequences

CONSTANTS
  Inputs,   \* collected [services, deployments, webhooks, crds]
  URL,      \* the service of a webhook that has a URL instead
  Nil       \* a nil pointer or an empty name

VARIABLES in, hooks, services, descs, pc
vars == <<in, hooks, services, descs, pc>>

HTTPS == 443

(* Mutant: one label the pods have is enough. *)
SelectsSome(svc, dep) == dep.labels /= {} /\ (svc.selector = {} \/ svc.selector \cap dep.labels /= {})

(* A deployment without pod labels is passed over; otherwise all labels of  *)
(* the selector must be on the pods.                                        *)
Selects(svc, dep) == dep.labels /= {} /\ svc.selector \subseteq dep.labels

First(at) == CHOOSE i \in at : \A j \in at : i <= j

findMatchingDepNameFromService(c, svc) ==
  LET hits == {i \in DOMAIN c.deployments : Selects(svc, c.deployments[i])}
  IN  IF hits = {} THEN Nil ELSE c.deployments[First(hits)].name

(* The positions of the services of the webhook's name: the first counts. *)
ServiceOf(c, hook) ==
  IF hook.svc = URL THEN {} ELSE {i \in DOMAIN c.services : c.services[i].name = hook.svc}

findMatchingDeploymentAndServiceForWebhook(c, hook) ==
  LET found == ServiceOf(c, hook)
      svc   == c.services[First(found)]
  IN  IF found = {} \/ svc.external \/ svc.selector = {} THEN Nil
      ELSE findMatchingDepNameFromService(c, svc)

(* The port of the service that the webhook refers to; 443 by default. *)
ContainerPort(ports, ref) ==
  LET p == IF ref = 0 THEN HTTPS ELSE ref IN IF p \in ports THEN p ELSE 0

(* Without a deployment the name of the service stands in, less "-service". *)
Trimmed(svc) == [trimmed |-> svc]

(* validatingToWebhookDescription and mutatingToWebhookDescription. *)
AdmissionDescription(c, hook) ==
  LET dep   == findMatchingDeploymentAndServiceForWebhook(c, hook)
      found == ServiceOf(c, hook)
  IN  [type |-> hook.kind, of |-> {hook.name}, path |-> hook.path,
       port |-> IF found = {} THEN 0 ELSE ContainerPort(c.services[First(found)].ports, hook.port),
       dep |-> IF hook.svc = URL THEN [name |-> Nil]
               ELSE IF dep = Nil THEN Trimmed(hook.svc) ELSE [name |-> dep]]

(* getConvWebhookCRDNamesAndConfig: CRDs whose conversion goes through the  *)
(* service.                                                                 *)
ConvOf(c, svc) == {crd \in c.crds : crd.svc = svc.name}

(* The configuration kept for a CRD: that of a v1beta1 CRD is rebuilt with  *)
(* its path only.                                                           *)
Config(crd) ==
  [path |-> crd.path, port |-> IF crd.api = "v1" THEN crd.port ELSE 0,
   svc |-> IF crd.api = "v1" THEN crd.svc ELSE Nil]

(* crdGroups: the key has the pointer to the port, not the port, so two     *)
(* CRDs meet only if neither has one.                                       *)
SameGroup(a, b) ==
  \/ a = b
  \/ Config(a).port = 0 /\ Config(b).port = 0 /\ Config(a).path = Config(b).path

crdGroups(crds) == {{b \in crds : SameGroup(a, b)} : a \in crds}

ConversionDescription(c, svc, group) ==
  LET one == Config(CHOOSE crd \in group : TRUE)
      dep == findMatchingDepNameFromService(c, svc)
  IN  [type |-> "conversion", of |-> {crd.name : crd \in group}, path |-> one.path,
       port |-> ContainerPort(svc.ports, one.port),
       dep |-> IF dep = Nil THEN Trimmed(one.svc) ELSE [name |-> dep]]

Init ==
  /\ in \in Inputs
  /\ hooks = in.webhooks /\ services = in.services /\ descs = {} /\ pc = "admission"

applyAdmission ==
  /\ pc = "admission" /\ hooks /= <<>>
  /\ descs' = descs \cup {AdmissionDescription(in, Head(hooks))}
  /\ hooks' = Tail(hooks)
  /\ UNCHANGED <<in, services, pc>>

(* conversionToWebhookDescription for one service: the path of every CRD is *)
(* read through its pointer.                                                *)
applyConversion ==
  /\ pc = "admission" /\ hooks = <<>> /\ services /= <<>>
  /\ LET crds == ConvOf(in, Head(services)) IN
       IF \E crd \in crds : crd.path = Nil
         THEN pc' = "panic" /\ UNCHANGED <<services, descs>>
         ELSE /\ descs' = descs \cup {ConversionDescription(in, Head(services), g) : g \in crdGroups(crds)}
              /\ services' = Tail(services) /\ UNCHANGED pc
  /\ UNCHANGED <<in, hooks>>

Finish ==
  /\ pc = "admission" /\ hooks = <<>> /\ services = <<>>
  /\ pc' = "done" /\ UNCHANGED <<in, hooks, services, descs>>

Next == applyAdmission \/ applyConversion \/ Finish
Spec == Init /\ [][Next]_vars

---------------------------------------------------------------------------

Elements(s) == {s[i] : i \in DOMAIN s}
SelectedBy(svc) == {dep \in Elements(in.deployments) : svc.selector \subseteq dep.labels}

(* An admission webhook that calls a service with a selector has a          *)
(* description of its kind and name, with a deployment whose pods the       *)
(* service selects or, if there is none, with the name of the service: OLM  *)
(* sends the calls there.                                                   *)
DeploymentServes ==
  pc = "done" =>
    \A hook \in Elements(in.webhooks), svc \in Elements(in.services) :
      (hook.svc = svc.name /\ svc.selector /= {} /\ ~svc.external) =>
        \E d \in descs :
          /\ d.type = hook.kind /\ d.of = {hook.name}
          /\ IF SelectedBy(svc) = {} THEN d.dep = Trimmed(svc.name)
             ELSE \E dep \in SelectedBy(svc) : d.dep = [name |-> dep.name]
=============================================================================
