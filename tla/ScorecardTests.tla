--------------------------- MODULE ScorecardTests ---------------------------
(***************************************************************************)
(* The built-in tests (internal/scorecard/tests, images/scorecard-test)    *)
(* and the converter of kuttl reports (images/scorecard-test-kuttl): what  *)
(* a test container prints for the bundle that is mounted into its pod.    *)
(* An API is a kind with its version; a field set is what a CR, a schema   *)
(* or the descriptors of an owned CRD name.                                *)
(***************************************************************************)
EXTENDS Integers, Sequences, FiniteSets, SequencesExt

CONSTANTS
  Inputs,    \* tests and the bundles they are run on: [test, bundle]
  KuttlTests \* the kuttl tests of the bundle

(* A CR of alm-examples and a CRD version have a spec and a status block,   *)
(* [has, fields]; a nil schema has none.  An owned CRD of the CSV names the *)
(* fields its spec and status descriptors describe.                         *)
EmptyBundle == [crs |-> <<>>, crds |-> <<>>, owned |-> <<>>, parses |-> TRUE,
                format |-> TRUE, loads |-> TRUE, valid |-> TRUE]

VARIABLES
  bundle,   \* the mounted bundle
  test,     \* the test named by the entrypoint
  report,   \* /tmp/kuttl-report.json: the results of the last kuttl call
  args,     \* the kuttl tests still to be called
  kuttl,    \* what every kuttl test of this bundle does
  result    \* the state the container prints; errors and suggestions are left out

vars == <<bundle, test, report, args, kuttl, result>>

(* A kuttl container is called once for all tests, or once for each.       *)
Init ==
  /\ report = <<>> /\ result = "none"
  /\ \/ \E i \in Inputs : bundle = i.bundle /\ test = i.test /\ args = <<>> /\ kuttl = <<>>
     \/ /\ bundle = EmptyBundle /\ test = "kuttl" /\ kuttl \in [KuttlTests -> BOOLEAN]
        /\ \E s \in SetToSeqs(KuttlTests) : args \in {<<KuttlTests>>, [i \in DOMAIN s |-> {s[i]}]}

(* GetCRs: the CRs of the annotation alm-examples, unless it does not parse. *)
GetCRs(b) == b.crs
Unparsable(b) == ~b.parses

(* checkSpec: a CR without a spec ends the check with a suggestion. *)
checkSpec(crSet, r) == IF \E i \in DOMAIN crSet : ~crSet[i].spec.has THEN "pass" ELSE r

CheckSpecTest(b) == IF Unparsable(b) THEN checkSpec(<<>>, "fail") ELSE checkSpec(GetCRs(b), "pass")

(* The fields of a CR for which the schema of its CRD has no property. *)
MissingValidation(cr, crd) ==
  (cr.spec.fields \ crd.spec.fields) \cup (cr.status.fields \ crd.status.fields)

(* isCRFromCRDApi: a CRD version of the CR's API that misses fields fails   *)
(* the test; one without a schema is a suggestion.                          *)
isCRFromCRDApi(cr, crds, r) ==
  IF \E i \in DOMAIN crds : /\ crds[i].api = cr.api /\ crds[i].spec.has
                           /\ MissingValidation(cr, crds[i]) /= {}
    THEN "fail" ELSE r

CRDsHaveValidationTest(b) ==
  IF Unparsable(b) THEN "error"
  ELSE FoldLeft(LAMBDA r, cr : isCRFromCRDApi(cr, b.crds, r), "pass", GetCRs(b))

(* CheckResources: the first owned CRD without resources fails the test. *)
CheckResources(owned, r) ==
  IF \E i \in DOMAIN owned : ~owned[i].resources THEN "fail" ELSE r

CRDsHaveResourcesTest(b) == CheckResources(b.owned, "pass")

(* The positions of the owned CRDs with the API of a CR; the first is used. *)
OwnedOf(cr, owned) == {i \in DOMAIN owned : owned[i].api = cr.api}
FirstOf(cr, owned) ==
  owned[CHOOSE i \in OwnedOf(cr, owned) : \A j \in OwnedOf(cr, owned) : i <= j]

(* checkOwnedCSVStatusDescriptor: a status block needs an owned CRD with    *)
(* some status descriptor.                                                  *)
checkOwnedCSVStatusDescriptor(cr, owned, r) ==
  IF \/ OwnedOf(cr, owned) = {}
     \/ cr.status.fields /= {} /\ FirstOf(cr, owned).statusDesc = {}
    THEN "fail" ELSE r

(* Mutant: the loop over the spec fields stops at the first described one.  *)
checkSpecDescriptorsBreak(cr, owned, r) ==
  IF \/ ~cr.spec.has \/ OwnedOf(cr, owned) = {}
     \/ cr.spec.fields /= {} /\ cr.spec.fields \cap FirstOf(cr, owned).specDesc = {}
    THEN "fail" ELSE r

(* checkOwnedCSVSpecDescriptors: every spec field needs a descriptor. *)
checkOwnedCSVSpecDescriptors(cr, owned, r) ==
  IF \/ ~cr.spec.has \/ OwnedOf(cr, owned) = {}
     \/ ~(cr.spec.fields \subseteq FirstOf(cr, owned).specDesc)
    THEN "fail" ELSE r

(* checkCSVDescriptors: every CR in turn; a failure is never taken back. *)
checkCSVDescriptors(b, status) ==
  IF Unparsable(b) THEN "error"
  ELSE LET crs == GetCRs(b)
           after[i \in 0 .. Len(crs)] ==
             IF i = 0 THEN "pass"
             ELSE IF status THEN checkOwnedCSVStatusDescriptor(crs[i], b.owned, after[i - 1])
             ELSE checkOwnedCSVSpecDescriptors(crs[i], b.owned, after[i - 1])
       IN  after[Len(crs)]

(* BundleValidationTest: the format, the manifests and their validators. *)
BundleValidationTest(b) == IF b.format /\ b.loads /\ b.valid THEN "pass" ELSE "fail"

(* main of scorecard-test: the entrypoint names the test; a bundle that     *)
(* cannot be read ends the container without a status.                      *)
RunTest ==
  /\ result = "none" /\ test \notin {"kuttl", "none"}
  /\ result' = CASE ~bundle.loads -> "log"
                 [] bundle.loads /\ test = "bundle"    -> BundleValidationTest(bundle)
                 [] bundle.loads /\ test = "validation"-> CRDsHaveValidationTest(bundle)
                 [] bundle.loads /\ test = "resources" -> CRDsHaveResourcesTest(bundle)
                 [] bundle.loads /\ test = "spec"      -> checkCSVDescriptors(bundle, FALSE)
                 [] bundle.loads /\ test = "status"    -> checkCSVDescriptors(bundle, TRUE)
                 [] bundle.loads /\ test = "basic"     -> CheckSpecTest(bundle)
                 [] OTHER -> "fail"
  /\ UNCHANGED <<bundle, test, report, args, kuttl>>

(* The entrypoint of the kuttl image: without arguments one call runs every *)
(* test, otherwise one call per argument; every call writes the same report. *)
CallKuttl ==
  /\ test = "kuttl" /\ result = "none" /\ args /= <<>>
  /\ report' = [t \in Head(args) |-> kuttl[t]]
  /\ args' = Tail(args)
  /\ UNCHANGED <<bundle, test, kuttl, result>>

(* getTestStatus of the kuttl image: a result per test case; a report       *)
(* without test cases is one result without a state.                        *)
getKuttlStatus(r) ==
  IF DOMAIN r = {} THEN "unknown"
  ELSE IF \E t \in DOMAIN r : ~r[t] THEN "fail" ELSE "pass"

ConvertKuttl ==
  /\ test = "kuttl" /\ result = "none" /\ args = <<>>
  /\ result' = getKuttlStatus(report)
  /\ UNCHANGED <<bundle, test, report, args, kuttl>>

Next == RunTest \/ CallKuttl \/ ConvertKuttl

Spec == Init /\ [][Next]_vars

---------------------------------------------------------------------------
(* Every CR of the bundle has a spec, whose fields its owned CRD describes. *)
SpecDescribed ==
  \A i \in DOMAIN bundle.crs : LET cr == bundle.crs[i] IN
    /\ cr.spec.has
    /\ OwnedOf(cr, bundle.owned) /= {}
    /\ cr.spec.fields \subseteq FirstOf(cr, bundle.owned).specDesc

(* The spec descriptor test passes exactly when every CR has a spec whose   *)
(* fields are all described, however the failures of several CRs accumulate *)
(* (checkOwnedCSVSpecDescriptors).                                          *)
SpecDescriptorsExact ==
  test = "spec" /\ result /= "none" /\ bundle.loads /\ bundle.parses
    => (result = "pass") = SpecDescribed
=============================================================================
