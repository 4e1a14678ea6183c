---------------------------- MODULE BundleProofs ----------------------------
(***************************************************************************)
(* Proofs about the commands on bundles.  The exit status of               *)
(* `bundle validate` is exact, whatever the bundle, the selected           *)
(* validators, the external validators, the size of their pipes and the    *)
(* number of failing system calls.  A bundle that `generate bundle`        *)
(* reports as generated reflects the project, whatever earlier commands    *)
(* and failures have left on disk.  A migration by `pkgman-to-bundle` that *)
(* reports success has made a complete bundle of every version, and        *)
(* `generate packagemanifests` leaves the heads of other channels alone.   *)
(***************************************************************************)
EXTENDS BundleCommands, FiniteSetTheorems, NaturalsInduction, WellFoundedInduction, TLAPS

-----------------------------------------------------------------------------
(* The inductive invariant *)

InputInv ==
  /\ ValidBundle(bundle) /\ IsFiniteSet(selected)
  /\ DOMAIN entrypoints = 1 .. Len(entrypoints) /\ Len(entrypoints) \in Nat
  /\ \A k \in 1 .. Len(entrypoints) : ValidEntry(entrypoints[k])

(* Before the end nothing has failed and the bundle, once read, is readable. *)
RunningInv ==
  /\ pc \in {"start", "find", "read", "format", "content", "optional", "external", "decode",
             "wait", "print", "done"}
  /\ pc /= "done" => faults = 0
  /\ pc \notin {"start", "find", "read", "done"} => bundle.readable

(* What the decoder makes of a validator's output. *)
Verdict(e) == IF FirstValue(e) \in {"passed", "failed"} THEN FirstValue(e) ELSE "error"

(* The pipe holds the last chunks written, and what the decoder has read of *)
(* them was no value yet.                                                   *)
PipeInv ==
  /\ written \in Nat /\ pipe \in Seq(Chunk)
  /\ Len(pipe) <= written /\ written <= Len(Entry.chunks)
  /\ \A k \in 1 .. Len(pipe) : pipe[k] = Entry.chunks[written - Len(pipe) + k]
  /\ \A k \in 1 .. written - Len(pipe) : Entry.chunks[k] = "part"
  /\ proc = "exited" => written = Len(Entry.chunks)

ChildInv ==
  /\ pc \in {"decode", "wait"} => i <= Len(entrypoints) /\ Entry.starts
  /\ pc = "decode" => PipeInv
  /\ pc = "wait" => decoded = Verdict(Entry)

Kept(r, e) == Conforms(e) /\ (r.errors > 0 <=> FirstValue(e) = "failed")

Results == [name : {"external"}, errors : Nat, warnings : {0}]

(* Every validator that has run conformed, and its first result is kept. *)
PendingInv ==
  /\ i \in Nat /\ i >= 1
  /\ pc \in {"start", "find", "read", "format", "content", "optional"} => i = 1 /\ pending = <<>>
  /\ pc \in {"external", "decode", "wait"} =>
       /\ i <= Len(entrypoints) + 1 /\ DOMAIN pending = 1 .. i - 1 /\ pending \in Seq(Results)
       /\ \A k \in 1 .. i - 1 : Kept(pending[k], entrypoints[k])
  /\ pc = "print" => \A k \in 1 .. Len(entrypoints) : Conforms(entrypoints[k])

ContentBad ==
  /\ bundle.media /= "helm"
  /\ \/ bundle.self > 0 \/ bundle.csv > 0 \/ BadObjects(bundle) > 0
     \/ \E k \in DOMAIN bundle.crds : bundle.crds[k] > 0

OptionalFound == selected \cap OptionalBad /= {}

(* The result holds an error exactly if a validator that has run found one. *)
ResInv ==
  /\ pc \in {"start", "find", "read", "format"} => "error" \notin res
  /\ pc = "content" => ("error" \in res <=> ~bundle.format)
  /\ pc = "optional" => ("error" \in res <=> ~bundle.format \/ ContentBad)
  /\ pc \in {"external", "decode", "wait"} =>
       ("error" \in res <=> ~bundle.format \/ ContentBad \/ OptionalFound)
  /\ pc = "print" => ("error" \in res <=> ~Sound)

ValidationInv ==
  InputInv /\ RunningInv /\ ChildInv /\ PendingInv /\ ResInv /\ VerdictExact

-----------------------------------------------------------------------------
(* Facts about the model's operators *)

(* AddManifestResults adds an error exactly for a result that has one. *)
LEMMA ErrorsAdded ==
  ASSUME NEW to, NEW results
  PROVE  "error" \in AddManifestResults(to, results)
           <=> "error" \in to \/ \E k \in DOMAIN results : results[k].errors > 0
BY DEF AddManifestResults, Levels

(* The number of unsupported or badly named objects is a natural number. *)
LEMMA BadObjectsNat ==
  ASSUME NEW b, ValidBundle(b)
  PROVE  BadObjects(b) \in Nat
<1> DEFINE bad == {o \in b.objects : (b.media = "registry" /\ ~o.supported) \/ ~o.meta}
<1>1. IsFiniteSet(bad)
  BY FS_Subset DEF ValidBundle
<1> QED
  BY <1>1, FS_CardinalityType DEF BadObjects

(* ValidateBundleContent: appendResult adds the objects' errors to the      *)
(* first result named after the CSV and keeps every other result, so an     *)
(* error is reported exactly if something has one.                          *)
LEMMA ContentErrors ==
  ASSUME NEW b, ValidBundle(b), b.media /= "helm"
  PROVE  (\E k \in DOMAIN ValidateBundleContent(b) : ValidateBundleContent(b)[k].errors > 0)
           <=> \/ b.self > 0 \/ b.csv > 0 \/ BadObjects(b) > 0
               \/ \E k \in DOMAIN b.crds : b.crds[k] > 0
<1> DEFINE two == <<Finding("bundle", b.self, 0), Finding("bundle", b.csv, 1)>>
           crds == [k \in DOMAIN b.crds |-> Finding("crd", b.crds[k], 0)]
           found == two \o crds
           bad == BadObjects(b)
           n == Len(b.crds)
           same == {k \in DOMAIN found : found[k].name = "bundle"}
           first == CHOOSE k \in same : \A l \in same : k <= l
           all == ValidateBundleContent(b)
           Record == [name : {"bundle", "crd"}, errors : Nat, warnings : Nat]
<1>1. bad \in Nat
  BY BadObjectsNat
<1>2. n \in Nat /\ DOMAIN b.crds = 1 .. n /\ \A k \in 1 .. n : b.crds[k] \in Nat
  BY DEF ValidBundle
<1>3. /\ \A k \in 1 .. n : Finding("crd", b.crds[k], 0) \in Record
      /\ Finding("bundle", b.self, 0) \in Record /\ Finding("bundle", b.csv, 1) \in Record
  BY <1>2 DEF ValidBundle, Finding
<1> HIDE DEF Record
<1>4. two \in Seq(Record) /\ Len(two) = 2 /\ two[1] = Finding("bundle", b.self, 0)
      /\ two[2] = Finding("bundle", b.csv, 1)
  BY <1>3
<1>5. /\ crds \in Seq(Record) /\ Len(crds) = n
      /\ \A k \in 1 .. n : crds[k] = Finding("crd", b.crds[k], 0)
  BY <1>2, <1>3
<1> HIDE DEF two, crds
<1>6. /\ found \in Seq(Record) /\ Len(found) = 2 + n /\ DOMAIN found = 1 .. 2 + n
      /\ found[1] = Finding("bundle", b.self, 0) /\ found[2] = Finding("bundle", b.csv, 1)
      /\ \A k \in 1 .. n : found[k + 2] = Finding("crd", b.crds[k], 0)
  <2>1. /\ found \in Seq(Record) /\ Len(found) = 2 + n
        /\ \A k \in 1 .. 2 + n : found[k] = IF k <= 2 THEN two[k] ELSE crds[k - 2]
    <3> DEFINE m == Len(two) + Len(crds)
    <3>1. two \in Seq(Record) /\ crds \in Seq(Record)
      BY <1>4, <1>5
    <3>2. found \in Seq(Record) /\ Len(found) = m
      BY ONLY <3>1
    <3>3. \A k \in 1 .. m : found[k] = IF k <= Len(two) THEN two[k] ELSE crds[k - Len(two)]
      BY ONLY <3>1
    <3> QED
      BY <3>2, <3>3, <1>2, <1>4, <1>5
  <2>2. \A k \in 1 .. n : k + 2 \in 1 .. 2 + n /\ ~(k + 2 <= 2) /\ (k + 2) - 2 = k
    BY <1>2
  <2> QED
    BY <2>1, <2>2, <1>2, <1>4, <1>5
<1> HIDE DEF found
<1>7. 1 \in same /\ \A l \in same : 1 <= l
  BY <1>2, <1>6 DEF Finding
<1>8. first = 1
  <2>1. first \in same /\ \A l \in same : first <= l
    BY <1>7
  <2>2. first \in 1 .. 2 + n
    BY <2>1, <1>6
  <2> QED
    BY <2>1, <2>2, <1>7, <1>2
<1>9. \E w : all = [found EXCEPT ![1] = Finding("bundle", b.self + bad, w)]
  <2> DEFINE objects == Finding("bundle", bad, 0)
  <2>1. objects.name = "bundle" /\ objects.errors = bad
    BY DEF Finding
  <2>2. found[1].name = "bundle" /\ found[1].errors = b.self
    BY <1>6 DEF Finding
  <2>3. all = appendResult(found, objects)
    BY DEF ValidateBundleContent, found, two, crds
  <2>4. same /= {}
    BY <1>7
  <2> HIDE DEF objects
  <2>5. appendResult(found, objects)
          = [found EXCEPT ![first] = Finding(found[first].name, found[first].errors + objects.errors,
                                            found[first].warnings + objects.warnings)]
    BY <2>1, <2>4 DEF appendResult
  <2> QED
    BY <1>8, <2>1, <2>2, <2>3, <2>5
<1>10. /\ DOMAIN all = 1 .. 2 + n /\ all[1].errors = b.self + bad
       /\ \A k \in 2 .. 2 + n : all[k] = found[k]
  <2>1. PICK w : all = [found EXCEPT ![1] = Finding("bundle", b.self + bad, w)]
    BY <1>9
  <2>2. Finding("bundle", b.self + bad, w).errors = b.self + bad
    BY DEF Finding
  <2>3. 1 \in DOMAIN found /\ \A k \in 2 .. 2 + n : k \in DOMAIN found /\ k /= 1
    BY <1>2, <1>6
  <2> HIDE DEF all
  <2> QED
    BY <1>6, <2>1, <2>2, <2>3
<1> HIDE DEF all
<1>11. all[2].errors = b.csv /\ \A k \in 1 .. n : all[k + 2].errors = b.crds[k]
  <2>1. 2 \in 2 .. 2 + n /\ \A k \in 1 .. n : k + 2 \in 2 .. 2 + n
    BY <1>2
  <2>2. all[2] = found[2] /\ \A k \in 1 .. n : all[k + 2] = found[k + 2]
    BY <2>1, <1>10
  <2>3. all[2] = Finding("bundle", b.csv, 1)
        /\ \A k \in 1 .. n : all[k + 2] = Finding("crd", b.crds[k], 0)
    BY <2>2, <1>6
  <2>4. Finding("bundle", b.csv, 1).errors = b.csv
        /\ \A k \in 1 .. n : Finding("crd", b.crds[k], 0).errors = b.crds[k]
    BY DEF Finding
  <2> QED
    BY <2>3, <2>4
<1>12. (\E k \in DOMAIN all : all[k].errors > 0)
         <=> \/ b.self + bad > 0 \/ b.csv > 0 \/ \E k \in 1 .. n : b.crds[k] > 0
  <2>1. ASSUME NEW k \in DOMAIN all, all[k].errors > 0
        PROVE  b.self + bad > 0 \/ b.csv > 0 \/ \E l \in 1 .. n : b.crds[l] > 0
    <3>1. k \in 1 .. 2 + n
      BY <1>10
    <3>2. CASE k = 1
      BY <2>1, <3>2, <1>10
    <3>3. CASE k = 2
      BY <2>1, <3>3, <1>11
    <3>4. CASE k > 2
      <4>1. k - 2 \in 1 .. n /\ all[(k - 2) + 2].errors = b.crds[k - 2] /\ (k - 2) + 2 = k
        BY <3>1, <3>4, <1>2, <1>11
      <4> QED
        BY <2>1, <4>1
    <3> QED
      BY <3>1, <3>2, <3>3, <3>4, <1>2
  <2>2. ASSUME b.self + bad > 0 \/ b.csv > 0 \/ \E l \in 1 .. n : b.crds[l] > 0
        PROVE  \E k \in DOMAIN all : all[k].errors > 0
    <3>1. 1 \in DOMAIN all /\ 2 \in DOMAIN all /\ \A l \in 1 .. n : l + 2 \in DOMAIN all
      BY <1>2, <1>10
    <3> QED
      BY <2>2, <3>1, <1>10, <1>11
  <2> QED
    BY <2>1, <2>2
<1>13. b.self + bad > 0 <=> b.self > 0 \/ bad > 0
  BY <1>1 DEF ValidBundle
<1> QED
  BY <1>2, <1>12, <1>13 DEF all

(* RunOptionalValidators reports an error exactly if it selects a validator *)
(* that finds one.                                                          *)
LEMMA OptionalErrors ==
  ASSUME NEW s, NEW bad, IsFiniteSet(s)
  PROVE  LET found == [k \in 1 .. Cardinality(s \cap bad) |-> Finding("optional", 1, 0)]
         IN  (\E l \in DOMAIN found : found[l].errors > 0) <=> s \cap bad /= {}
<1>1. IsFiniteSet(s \cap bad)
  BY FS_Subset
<1>2. Cardinality(s \cap bad) \in Nat /\ (Cardinality(s \cap bad) = 0 <=> s \cap bad = {})
  BY <1>1, FS_CardinalityType, FS_EmptySet
<1>3. \A k \in 1 .. Cardinality(s \cap bad) : Finding("optional", 1, 0).errors > 0
  BY DEF Finding
<1>4. s \cap bad /= {} => 1 \in 1 .. Cardinality(s \cap bad)
  BY <1>2
<1> QED
  BY <1>2, <1>3, <1>4

(* The first value is the chunk that only parts precede. *)
LEMMA FirstValueAfterParts ==
  ASSUME NEW e, ValidEntry(e), NEW r \in Nat, r + 1 \in 1 .. Len(e.chunks), e.chunks[r + 1] /= "part",
         \A k \in 1 .. r : e.chunks[k] = "part"
  PROVE  FirstValue(e) = e.chunks[r + 1]
<1>1. DOMAIN e.chunks = 1 .. Len(e.chunks) /\ Len(e.chunks) \in Nat
  BY DEF ValidEntry
<1>2. Values(e) \subseteq Nat /\ r + 1 \in Values(e)
  BY <1>1 DEF Values
<1>3. \A l \in Values(e) : r + 1 <= l
  BY <1>1 DEF Values
<1>4. First(e) \in Values(e) /\ \A l \in Values(e) : First(e) <= l
  BY <1>2, <1>3 DEF First
<1>5. First(e) = r + 1
  <2> HIDE DEF Values, First
  <2>1. First(e) \in Nat /\ First(e) <= r + 1 /\ r + 1 <= First(e)
    BY <1>2, <1>3, <1>4
  <2> QED
    BY <2>1
<1> QED
  BY <1>2, <1>5 DEF FirstValue

(* Parts alone are no value. *)
LEMMA NoValueInParts ==
  ASSUME NEW e, ValidEntry(e), \A k \in 1 .. Len(e.chunks) : e.chunks[k] = "part"
  PROVE  FirstValue(e) = "none"
BY DEF FirstValue, Values, ValidEntry

-----------------------------------------------------------------------------
(* The invariant *)

(* It holds when the command starts. *)
LEMMA InitInv ==
  ASSUME ValidInputs, Init
  PROVE  ValidationInv
<1>1. InputInv
  BY DEF ValidInputs, Init, InputInv
<1>2. RunningInv /\ ChildInv /\ ResInv /\ VerdictExact
  BY DEF Init, RunningInv, ChildInv, ResInv, VerdictExact
<1>3. PendingInv
  BY DEF Init, PendingInv
<1> QED
  BY <1>1, <1>2, <1>3 DEF ValidationInv

(* The bundle is found and read: nothing is found yet, and only a fault or  *)
(* an unreadable bundle ends the command.                                   *)
LEMMA ReadSteps ==
  ASSUME ValidInputs, ValidationInv, NewImageRegistry \/ FindBundle \/ ReadBundle
  PROVE  ValidationInv'
<1> USE DEF ValidationInv, NewImageRegistry, FindBundle, ReadBundle, Return, Fault
<1>1. UNCHANGED <<input, res, pending, i, child>>
  OBVIOUS
<1>2. InputInv'
  BY <1>1 DEF InputInv, input, ValidBundle, ValidEntry
<1>3. pc' \in {"find", "read", "format", "done"} /\ faults = 0 /\ pc \in {"start", "find", "read"}
  BY DEF RunningInv
<1>4. RunningInv'
  BY <1>1, <1>3 DEF RunningInv, input
<1>5. ChildInv' /\ PendingInv' /\ ResInv'
  BY <1>1, <1>3 DEF ChildInv, PendingInv, ResInv
<1>6. VerdictExact'
  <2>1. SUFFICES ASSUME pc' = "done"
                 PROVE  exit' = "fatal" /\ (faults' > 0 \/ ~bundle.readable)
    BY <1>1 DEF VerdictExact, input
  <2> QED
    BY <2>1, <1>3
<1> QED
  BY <1>2, <1>4, <1>5, <1>6

(* The built-in and the optional validators: every one that finds an error  *)
(* leaves one in the result.                                                *)
LEMMA BuiltInSteps ==
  ASSUME ValidationInv, ValidateFormat \/ ValidateContent \/ RunOptionalValidators
  PROVE  ValidationInv'
<1> USE DEF ValidationInv
<1>1. UNCHANGED <<input, pending, i, child, deferred, left, faults, exit>>
  BY DEF ValidateFormat, ValidateContent, RunOptionalValidators
<1>2. \/ pc = "format" /\ pc' = "content"
      \/ pc = "content" /\ pc' = "optional"
      \/ pc = "optional" /\ pc' = "external"
  BY DEF ValidateFormat, ValidateContent, RunOptionalValidators
<1>3. InputInv'
  BY <1>1 DEF InputInv, input, ValidBundle, ValidEntry
<1>4. RunningInv' /\ ChildInv' /\ VerdictExact'
  BY <1>1, <1>2 DEF RunningInv, ChildInv, VerdictExact, input
<1>5. PendingInv'
  <2>1. /\ i = 1 /\ pending = <<>> /\ i' = 1 /\ pending' = <<>>
        /\ pc' \in {"content", "optional", "external"}
    BY <1>1, <1>2 DEF PendingInv
  <2>2. <<>> \in Seq(Results) /\ DOMAIN <<>> = 1 .. 0
    OBVIOUS
  <2>3. Len(entrypoints') \in Nat
    BY <1>3 DEF InputInv
  <2> QED
    BY <2>1, <2>2, <2>3 DEF PendingInv
<1>6. ResInv'
  <2>1. bundle' = bundle /\ selected' = selected /\ (ContentBad)' = ContentBad
        /\ OptionalFound' = OptionalFound
    BY <1>1 DEF input, ContentBad, OptionalFound, BadObjects
  <2>2. CASE ValidateFormat
    BY <2>1, <2>2 DEF ValidateFormat, ResInv, InputInv, ValidBundle
  <2>3. CASE ValidateContent
    <3>1. "error" \in res' <=> "error" \in res \/ ContentBad
      <4>1. CASE bundle.media = "helm"
        <5>1. ValidateBundleContent(bundle) = <<Finding("bundle", 0, 0)>>
          BY <4>1 DEF ValidateBundleContent
        <5>2. ~\E k \in DOMAIN ValidateBundleContent(bundle) :
                 ValidateBundleContent(bundle)[k].errors > 0
          BY <5>1 DEF Finding
        <5> QED
          BY <2>3, <4>1, <5>2, ErrorsAdded DEF ValidateContent, ContentBad
      <4>2. CASE bundle.media /= "helm"
        BY <2>3, <4>2, ErrorsAdded, ContentErrors DEF ValidateContent, ContentBad, InputInv
      <4> QED
        BY <4>1, <4>2
    <3> QED
      BY <2>1, <2>3, <3>1 DEF ResInv, ValidateContent
  <2>4. CASE RunOptionalValidators
    <3> DEFINE found ==
                 [k \in 1 .. Cardinality(selected \cap OptionalBad) |-> Finding("optional", 1, 0)]
    <3>1. (\E l \in DOMAIN found : found[l].errors > 0) <=> OptionalFound
      BY OptionalErrors DEF InputInv, OptionalFound
    <3>2. res' = AddManifestResults(res, found)
      BY <2>4 DEF RunOptionalValidators
    <3> HIDE DEF found
    <3>3. "error" \in res' <=> "error" \in res \/ OptionalFound
      BY <3>1, <3>2, ErrorsAdded
    <3> QED
      BY <2>1, <2>4, <3>3 DEF ResInv, RunOptionalValidators
  <2> QED
    BY <2>2, <2>3, <2>4
<1> QED
  BY <1>3, <1>4, <1>5, <1>6

(* A validator is started: its pipe is empty; one that does not start does  *)
(* not conform, and the command ends.                                       *)
LEMMA StartStep ==
  ASSUME ValidationInv, StartValidator
  PROVE  ValidationInv'
<1> USE DEF ValidationInv
<1>1. UNCHANGED <<bundle, selected, entrypoints, res, pending, i, faults>>
      /\ pc = "external" /\ i \in 1 .. Len(entrypoints)
  BY DEF StartValidator, input, PendingInv, InputInv
<1>2. InputInv' /\ Entry' = Entry /\ ValidEntry(Entry)
  BY <1>1 DEF InputInv, ValidBundle, ValidEntry, Entry
<1>3. CASE Entry.starts
  <2>1. pc' = "decode" /\ written' = 0 /\ pipe' = <<>> /\ proc' = "running"
    BY <1>3 DEF StartValidator
  <2>2. PipeInv'
    <3>1. Len(Entry.chunks) \in Nat
      BY <1>2 DEF ValidEntry
    <3>2. <<>> \in Seq(Chunk) /\ Len(<<>>) = 0
      OBVIOUS
    <3> QED
      BY <2>1, <3>1, <3>2, <1>2 DEF PipeInv
  <2>3. RunningInv' /\ ChildInv' /\ VerdictExact'
    BY <1>1, <1>2, <1>3, <2>1, <2>2 DEF RunningInv, ChildInv, VerdictExact
  <2>4. PendingInv' /\ ResInv'
    BY <1>1, <2>1 DEF PendingInv, ResInv, Conforms, ContentBad, OptionalFound, BadObjects
  <2> QED
    BY <1>2, <2>3, <2>4
<1>4. CASE ~Entry.starts
  <2>1. pc' = "done" /\ exit' = "fatal"
    BY <1>4 DEF StartValidator, Return
  <2>2. ~Conforms(entrypoints[i])
    BY <1>4 DEF Conforms, Entry
  <2>3. \E k \in DOMAIN entrypoints' : ~Conforms(entrypoints'[k])
    BY <1>1, <2>2 DEF InputInv
  <2>4. VerdictExact'
    BY <2>1, <2>3 DEF VerdictExact, Conforms
  <2>5. RunningInv' /\ ChildInv' /\ ResInv' /\ PendingInv'
    BY <1>1, <2>1 DEF RunningInv, ChildInv, ResInv, PendingInv
  <2> QED
    BY <1>2, <2>4, <2>5
<1> QED
  BY <1>3, <1>4

(* The process writes its next chunk or exits, beside the decoder. *)
LEMMA ProcessSteps ==
  ASSUME ValidationInv, ProcessWrite \/ ProcessExit
  PROVE  ValidationInv'
<1> USE DEF ValidationInv
<1>1. UNCHANGED <<bundle, selected, entrypoints, res, pending, i, faults, pc, decoded, exit>>
  BY DEF ProcessWrite, ProcessExit, input
<1>2. InputInv' /\ Entry' = Entry
  BY <1>1 DEF InputInv, ValidBundle, ValidEntry, Entry
<1>3. RunningInv' /\ PendingInv' /\ ResInv' /\ VerdictExact'
  BY <1>1 DEF RunningInv, PendingInv, ResInv, VerdictExact, Sound, Conforms, ContentBad,
              OptionalFound, BadObjects
<1>4. ASSUME pc = "decode"
      PROVE  PipeInv'
  <2>1. PipeInv /\ i \in 1 .. Len(entrypoints) /\ ValidEntry(Entry)
    BY <1>4 DEF ChildInv, PendingInv, InputInv, Entry
  <2> DEFINE chunks == Entry.chunks
  <2>2. /\ chunks \in Seq(Chunk) /\ Len(chunks) \in Nat
        /\ chunks = Entry.chunks /\ chunks = Entry'.chunks
    BY <2>1, <1>2 DEF ValidEntry
  <2> HIDE DEF chunks
  <2>3. CASE ProcessWrite
    <3>1. /\ written' = written + 1 /\ pipe' = Append(pipe, chunks[written + 1])
          /\ proc = "running" /\ proc' = proc /\ written < Len(chunks)
      BY <2>2, <2>3 DEF ProcessWrite
    <3>2. chunks[written + 1] \in Chunk
      BY <2>1, <2>2, <3>1 DEF PipeInv
    <3>3. /\ pipe' \in Seq(Chunk) /\ Len(pipe') = Len(pipe) + 1 /\ Len(pipe) \in Nat
          /\ pipe'[Len(pipe) + 1] = chunks[written + 1]
          /\ \A k \in 1 .. Len(pipe) : pipe'[k] = pipe[k]
      BY <2>1, <3>1, <3>2 DEF PipeInv
    <3>4. written' - Len(pipe') = written - Len(pipe) /\ written' \in Nat /\ Len(pipe') <= written'
          /\ written' <= Len(chunks)
      BY <2>1, <2>2, <3>1, <3>3 DEF PipeInv
    <3>5. \A k \in 1 .. Len(pipe') : pipe'[k] = chunks[written' - Len(pipe') + k]
      <4>1. TAKE k \in 1 .. Len(pipe')
      <4>2. CASE k = Len(pipe) + 1
        <5>1. written' - Len(pipe') + k = written + 1
          BY <4>2, <3>3, <3>4, <2>1 DEF PipeInv
        <5> QED
          BY <5>1, <4>2, <3>3
      <4>3. CASE k \in 1 .. Len(pipe)
        BY <4>3, <2>1, <2>2, <3>3, <3>4 DEF PipeInv
      <4> QED
        BY <4>1, <4>2, <4>3, <3>3
    <3>6. \A k \in 1 .. written' - Len(pipe') : chunks[k] = "part"
      BY <2>1, <2>2, <3>4 DEF PipeInv
    <3> QED
      BY <2>2, <3>1, <3>3, <3>4, <3>5, <3>6 DEF PipeInv
  <2>4. CASE ProcessExit
    BY <2>1, <2>4, <1>2 DEF PipeInv, ProcessExit
  <2> QED
    BY <2>3, <2>4
<1>5. ChildInv'
  BY <1>1, <1>2, <1>4 DEF ChildInv, Verdict
<1> QED
  BY <1>2, <1>3, <1>5

(* The decoder reads the chunks in order, so it ends with the first value,  *)
(* or with an error if that is not a ManifestResult.                        *)
LEMMA DecodeStep ==
  ASSUME ValidationInv, Decode
  PROVE  ValidationInv'
<1> USE DEF ValidationInv
<1>1. UNCHANGED <<bundle, selected, entrypoints, res, pending, i, faults, proc, written, exit>>
      /\ pc = "decode" /\ pc' \in {"decode", "wait"}
  BY DEF Decode, DecodeNext, input
<1>2. InputInv' /\ Entry' = Entry
  BY <1>1 DEF InputInv, ValidBundle, ValidEntry, Entry
<1>3. RunningInv' /\ PendingInv' /\ ResInv' /\ VerdictExact'
  BY <1>1 DEF RunningInv, PendingInv, ResInv, VerdictExact, Conforms, ContentBad,
              OptionalFound, BadObjects
<1>4. PipeInv /\ i \in 1 .. Len(entrypoints) /\ ValidEntry(Entry) /\ Entry.starts
  BY <1>1 DEF ChildInv, PendingInv, InputInv, Entry
<1> DEFINE chunks == Entry.chunks
           read == written - Len(pipe)
<1>5. /\ chunks \in Seq(Chunk) /\ Len(chunks) \in Nat /\ DOMAIN chunks = 1 .. Len(chunks)
      /\ chunks = Entry.chunks /\ chunks = Entry'.chunks
  BY <1>4, <1>2 DEF ValidEntry
<1> HIDE DEF chunks
<1>6. /\ read \in Nat /\ Len(pipe) \in Nat /\ written \in Nat /\ written <= Len(chunks)
      /\ \A k \in 1 .. read : chunks[k] = "part"
      /\ \A k \in 1 .. Len(pipe) : pipe[k] = chunks[read + k]
  BY <1>4, <1>5 DEF PipeInv
<1>7. ASSUME pipe /= <<>>
      PROVE  Head(pipe) = chunks[read + 1] /\ read + 1 \in 1 .. Len(chunks) /\ Len(pipe) >= 1
  <2>1. Len(pipe) >= 1 /\ Head(pipe) = pipe[1]
    BY <1>4, <1>7 DEF PipeInv
  <2> QED
    BY <2>1, <1>5, <1>6
<1>8. CASE pipe /= <<>> /\ Head(pipe) = "part"
  <2>1. pipe' = Tail(pipe) /\ pc' = "decode"
    BY <1>1, <1>8 DEF Decode, DecodeNext
  <2>2. /\ pipe' \in Seq(Chunk) /\ Len(pipe') = Len(pipe) - 1
        /\ \A k \in 1 .. Len(pipe') : pipe'[k] = pipe[k + 1]
    BY <2>1, <1>4, <1>8 DEF PipeInv
  <2>3. written' - Len(pipe') = read + 1 /\ Len(pipe') <= written'
    BY <1>1, <1>6, <1>7, <1>8, <2>2
  <2>4. \A k \in 1 .. Len(pipe') : pipe'[k] = chunks[written' - Len(pipe') + k]
    <3>1. TAKE k \in 1 .. Len(pipe')
    <3>2. k + 1 \in 1 .. Len(pipe) /\ read + (k + 1) = written' - Len(pipe') + k
      BY <3>1, <1>6, <2>2, <2>3
    <3> QED
      BY <3>2, <2>2, <1>6
  <2>5. \A k \in 1 .. written' - Len(pipe') : chunks[k] = "part"
    <3>1. SUFFICES ASSUME NEW k \in 1 .. read + 1 PROVE chunks[k] = "part"
      BY <2>3
    <3>2. read \in Nat
      BY <1>6
    <3> HIDE DEF read
    <3>3. k \in 1 .. read \/ k = read + 1
      BY <3>1, <3>2
    <3> QED
      BY <3>3, <1>6, <1>7, <1>8
  <2>6. PipeInv'
    BY <1>1, <1>4, <1>5, <2>2, <2>3, <2>4, <2>5 DEF PipeInv
  <2> QED
    BY <1>1, <1>2, <1>3, <1>4, <2>1, <2>6 DEF ChildInv
<1>9. CASE pipe /= <<>> /\ Head(pipe) /= "part"
  <2>1. /\ pc' = "wait"
        /\ decoded' = (IF Head(pipe) \in {"passed", "failed"} THEN Head(pipe) ELSE "error")
    BY <1>1, <1>9 DEF Decode, DecodeNext
  <2>2. FirstValue(Entry) = Head(pipe)
    <3>1. /\ read \in Nat /\ read + 1 \in 1 .. Len(Entry.chunks) /\ Entry.chunks[read + 1] /= "part"
          /\ Entry.chunks[read + 1] = Head(pipe) /\ \A k \in 1 .. read : Entry.chunks[k] = "part"
      BY <1>5, <1>6, <1>7, <1>9
    <3> HIDE DEF read
    <3> QED
      BY <1>4, <3>1, FirstValueAfterParts
  <2>3. decoded' = Verdict(Entry')
    BY <1>2, <2>1, <2>2 DEF Verdict
  <2> QED
    BY <1>1, <1>2, <1>3, <1>4, <2>1, <2>3 DEF ChildInv
<1>10. CASE pipe = <<>>
  <2>1. pc' = "wait" /\ decoded' = "error" /\ proc = "exited"
    BY <1>1, <1>10 DEF Decode, DecodeNext
  <2>2. written = Len(chunks) /\ read = Len(chunks)
    BY <1>4, <1>5, <1>6, <1>10, <2>1 DEF PipeInv
  <2>3. FirstValue(Entry) = "none"
    BY <1>4, <1>5, <1>6, <2>2, NoValueInParts
  <2>4. decoded' = Verdict(Entry')
    BY <1>2, <2>1, <2>3 DEF Verdict
  <2> QED
    BY <1>1, <1>2, <1>3, <1>4, <2>1, <2>4 DEF ChildInv
<1> QED
  BY <1>8, <1>9, <1>10

(* Wait: the first result of a validator that conformed is kept; another one ends *)
(* the command.                                                             *)
LEMMA WaitStep ==
  ASSUME ValidationInv, Wait
  PROVE  ValidationInv'
<1> USE DEF ValidationInv
<1>1. UNCHANGED <<bundle, selected, entrypoints, res, faults>> /\ pc = "wait"
  BY DEF Wait, input
<1>2. InputInv'
  BY <1>1 DEF InputInv, ValidBundle, ValidEntry
<1>3. i \in 1 .. Len(entrypoints) /\ ValidEntry(Entry) /\ Entry.starts /\ Entry = entrypoints[i]
  BY <1>1 DEF ChildInv, PendingInv, InputInv, Entry
<1> DEFINE errors == IF decoded = "failed" THEN 1 ELSE 0
           finding == Finding("external", errors, 0)
<1>4. /\ Conforms(Entry) <=> Entry.exit = 0 /\ decoded /= "error"
      /\ Conforms(Entry) => decoded = FirstValue(Entry)
  BY <1>1, <1>3 DEF ChildInv, Conforms, Verdict
<1>5. CASE Conforms(Entry)
  <2>1. pc' = "external" /\ i' = i + 1 /\ pending' = Append(pending, finding)
    BY <1>4, <1>5 DEF Wait
  <2>2. finding \in Results /\ (finding.errors > 0 <=> FirstValue(entrypoints[i]) = "failed")
    BY <1>3, <1>4, <1>5 DEF Results, Finding
  <2> HIDE DEF finding
  <2>3. /\ pending' \in Seq(Results) /\ DOMAIN pending' = 1 .. i
        /\ \A k \in 1 .. i - 1 : pending'[k] = pending[k]
        /\ pending'[i] = finding
    <3>1. pending \in Seq(Results) /\ DOMAIN pending = 1 .. i - 1 /\ i \in Nat /\ i >= 1
      BY <1>1 DEF PendingInv
    <3>2. Len(pending) = i - 1
      BY <3>1
    <3> QED
      BY <2>1, <2>2, <3>1, <3>2
  <2>4. \A k \in 1 .. i : Kept(pending'[k], entrypoints[k])
    <3>1. TAKE k \in 1 .. i
    <3>2. CASE k = i
      BY <3>2, <1>3, <1>5, <2>2, <2>3 DEF Kept
    <3>3. CASE k \in 1 .. i - 1
      BY <3>3, <1>1, <2>3 DEF PendingInv
    <3> QED
      BY <1>3, <3>1, <3>2, <3>3
  <2>5. PendingInv'
    <3>1. i' - 1 = i /\ i' \in Nat /\ i' >= 1 /\ i' <= Len(entrypoints') + 1
      BY <1>1, <1>3, <2>1
    <3>2. entrypoints' = entrypoints /\ pc' = "external"
      BY <1>1, <2>1
    <3>3. \A k \in 1 .. i' - 1 : Kept(pending'[k], entrypoints'[k])
      BY <2>4, <3>1, <3>2
    <3>4. DOMAIN pending' = 1 .. i' - 1 /\ pending' \in Seq(Results)
      BY <2>3, <3>1
    <3> QED
      BY <3>1, <3>2, <3>3, <3>4 DEF PendingInv
  <2>6. RunningInv' /\ ChildInv' /\ VerdictExact' /\ ResInv'
    BY <1>1, <2>1 DEF RunningInv, ChildInv, VerdictExact, ResInv, ContentBad, OptionalFound,
                      BadObjects
  <2> QED
    BY <1>2, <2>5, <2>6
<1>6. CASE ~Conforms(Entry)
  <2>1. pc' = "done" /\ exit' = "fatal" /\ i' = i /\ pending' = pending
    BY <1>4, <1>6 DEF Wait, Return
  <2>2. \E k \in DOMAIN entrypoints' : ~Conforms(entrypoints'[k])
    BY <1>1, <1>3, <1>6 DEF InputInv
  <2>3. VerdictExact'
    BY <2>1, <2>2 DEF VerdictExact, Conforms
  <2>4. RunningInv' /\ ChildInv' /\ ResInv' /\ PendingInv'
    BY <1>1, <2>1 DEF RunningInv, ChildInv, ResInv, PendingInv
  <2> QED
    BY <1>2, <2>3, <2>4
<1> QED
  BY <1>5, <1>6

(* The results of the external validators join the others: what is then     *)
(* printed holds an error exactly if the bundle is not sound.               *)
LEMMA DoneStep ==
  ASSUME ValidationInv, ExternalDone
  PROVE  ValidationInv'
<1> USE DEF ValidationInv
<1>1. UNCHANGED <<bundle, selected, entrypoints, i, faults, exit>>
      /\ pc = "external" /\ pc' = "print" /\ i > Len(entrypoints)
      /\ res' = AddManifestResults(res, pending)
  BY DEF ExternalDone, input
<1>2. InputInv' /\ ValidBundle(bundle) /\ Len(entrypoints) \in Nat
      /\ DOMAIN entrypoints = 1 .. Len(entrypoints)
  BY <1>1 DEF InputInv, ValidBundle, ValidEntry
<1>3. /\ DOMAIN pending = 1 .. Len(entrypoints)
      /\ \A k \in 1 .. Len(entrypoints) : Kept(pending[k], entrypoints[k])
      /\ i \in Nat /\ i >= 1
  <2>1. i - 1 = Len(entrypoints)
    BY <1>1, <1>2 DEF PendingInv
  <2> QED
    BY <1>1, <2>1 DEF PendingInv
<1>4. "error" \in res' <=> \/ ~bundle.format \/ ContentBad \/ OptionalFound
                           \/ \E k \in DOMAIN entrypoints : FirstValue(entrypoints[k]) = "failed"
  BY <1>1, <1>2, <1>3, ErrorsAdded DEF ResInv, Kept
<1>5. "error" \in res' <=> ~Sound
  <2>1. ContentBad <=> ~(bundle.media /= "helm" =>
             /\ bundle.self = 0 /\ bundle.csv = 0 /\ BadObjects(bundle) = 0
             /\ \A k \in DOMAIN bundle.crds : bundle.crds[k] = 0)
    <3>1. BadObjects(bundle) \in Nat /\ bundle.self \in Nat /\ bundle.csv \in Nat
          /\ \A k \in DOMAIN bundle.crds : bundle.crds[k] \in Nat
      BY <1>2, BadObjectsNat DEF ValidBundle
    <3> QED
      BY <3>1 DEF ContentBad
  <2> QED
    BY <1>4, <2>1 DEF Sound, OptionalFound
<1>6. ResInv'
  <2>1. Sound' <=> Sound
    BY <1>1 DEF Sound, BadObjects
  <2> QED
    BY <1>1, <1>5, <2>1 DEF ResInv
<1>7. PendingInv'
  <2>1. \A k \in 1 .. Len(entrypoints') : Conforms(entrypoints'[k])
    BY <1>1, <1>3 DEF Kept
  <2> QED
    BY <1>1, <1>3, <2>1 DEF PendingInv
<1>8. RunningInv' /\ ChildInv' /\ VerdictExact'
  BY <1>1 DEF RunningInv, ChildInv, VerdictExact
<1> QED
  BY <1>2, <1>6, <1>7, <1>8

(* The exit status follows the result. *)
LEMMA PrintStep ==
  ASSUME ValidationInv, PrintWithFormat
  PROVE  ValidationInv'
<1> USE DEF ValidationInv
<1>1. UNCHANGED <<bundle, selected, entrypoints, res, pending, i, faults>>
      /\ pc = "print" /\ pc' = "done" /\ exit' = (IF "error" \in res THEN "failed" ELSE "ok")
  BY DEF PrintWithFormat, Return, input
<1>2. InputInv'
  BY <1>1 DEF InputInv, ValidBundle, ValidEntry
<1>3. RunningInv' /\ ChildInv' /\ PendingInv' /\ ResInv'
  BY <1>1 DEF RunningInv, ChildInv, PendingInv, ResInv
<1>4. faults' = 0 /\ bundle'.readable /\ \A k \in DOMAIN entrypoints' : Conforms(entrypoints'[k])
  BY <1>1 DEF RunningInv, PendingInv, InputInv
<1>5. Sound' <=> Sound
  BY <1>1 DEF Sound, BadObjects
<1>6. exit' /= "fatal" /\ (exit' = "ok" <=> Sound)
  BY <1>1 DEF ResInv
<1>7. VerdictExact'
  BY <1>1, <1>4, <1>5, <1>6 DEF VerdictExact
<1> QED
  BY <1>2, <1>3, <1>7

(* Every step keeps the invariant. *)
LEMMA NextInv ==
  ASSUME ValidInputs, ValidationInv, [Next]_vars
  PROVE  ValidationInv'
<1>1. CASE NewImageRegistry \/ FindBundle \/ ReadBundle
  BY <1>1, ReadSteps
<1>2. CASE ValidateFormat \/ ValidateContent \/ RunOptionalValidators
  BY <1>2, BuiltInSteps
<1>3. CASE StartValidator
  BY <1>3, StartStep
<1>4. CASE Process
  BY <1>4, ProcessSteps DEF Process
<1>5. CASE Decode
  BY <1>5, DecodeStep
<1>6. CASE Wait
  BY <1>6, WaitStep
<1>7. CASE ExternalDone
  BY <1>7, DoneStep
<1>8. CASE PrintWithFormat
  BY <1>8, PrintStep
<1>9. CASE UNCHANGED vars
  <2> USE <1>9 DEF vars, input, child, ValidationInv
  <2>1. Entry' = Entry
    BY DEF Entry
  <2>2. InputInv' /\ RunningInv'
    BY DEF InputInv, RunningInv
  <2>3. ChildInv' /\ PendingInv'
    BY <2>1 DEF ChildInv, PipeInv, PendingInv
  <2>4. Sound' = Sound /\ ContentBad' = ContentBad /\ OptionalFound' = OptionalFound
    BY DEF Sound, ContentBad, OptionalFound
  <2>5. ResInv' /\ VerdictExact'
    BY <2>4 DEF ResInv, VerdictExact
  <2> QED
    BY <2>2, <2>3, <2>5
<1> QED
  BY <1>1, <1>2, <1>3, <1>4, <1>5, <1>6, <1>7, <1>8, <1>9 DEF Next, Validate

(* The exit status of `bundle validate` is exact (RunE, run,                *)
(* RunExternalValidators): fatal exactly if a system call failed, the       *)
(* bundle could not be read or an external validator did not begin with a   *)
(* ManifestResult and exit with 0; otherwise a success exactly if no        *)
(* built-in or optional validator found an error and no external one did in *)
(* the first result it prints, the only one that is read.  This holds for   *)
(* every bundle, selection and sequence of external validators, every size  *)
(* of the pipe and every order in which processes and decoder take their    *)
(* steps.                                                                   *)
THEOREM ExitStatusExact ==
  ASSUME ValidInputs
  PROVE  Spec => []VerdictExact
<1>1. Init => ValidationInv
  BY InitInv
<1>2. ValidationInv /\ [Next]_vars => ValidationInv'
  BY NextInv
<1>3. ValidationInv => VerdictExact
  BY DEF ValidationInv
<1> QED
  BY <1>1, <1>2, <1>3, PTL DEF Spec

-----------------------------------------------------------------------------
(* generate bundle *)

TypedInv ==
  /\ Len(proj.objs) \in Nat /\ DOMAIN proj.objs = 1 .. Len(proj.objs)
  /\ cmd.pin \in BOOLEAN /\ cmd.manifests \in BOOLEAN /\ cmd.stdout \in BOOLEAN

Objects == Gen!GetManifestObjects(proj)
InFile(k) == \E f \in DOMAIN files : files[f] = Gen!Content(proj.objs[k])

(* The CSV is derived from the present project. *)
Derived(c) ==
  /\ {"is", "pinned", "owned", "examples", "deps"} \subseteq DOMAIN c /\ c.is = "csv"
  /\ DOMAIN c.owned = Gen!Crds(proj) /\ c.examples = proj.crs /\ c.deps = proj.deps

Complete ==
  /\ \A k \in Objects : InFile(k)
  /\ Derived(csv) /\ csv.pinned = cmd.pin

(* Objects are written in order, and a file that the command has written is *)
(* not written again by it.                                                 *)
ObjectsInv ==
  /\ todo \subseteq Objects
  /\ \A j \in Objects \ todo : \A k \in todo : j < k
  /\ ~cmd.stdout => \A k \in Objects \ todo :
       /\ Gen!UniqueFileName(k) \in DOMAIN files
       /\ files[Gen!UniqueFileName(k)] = Gen!Content(proj.objs[k])

(* What a command has put on disk when it reaches each of its stages. *)
StageInv ==
  /\ genPc \in {"base", "kustomization"} => ~cmd.manifests
  /\ genPc = "csv" => Derived(made) /\ made.pinned = FALSE
  /\ genPc \in {"objects", "pin"} /\ ~cmd.stdout => Derived(csv) /\ csv.pinned = FALSE
  /\ genPc = "objects" => ObjectsInv
  /\ genPc = "pin" => cmd.pin /\ (~cmd.stdout => \A k \in Objects : InFile(k))
  /\ genPc = "score" /\ ~cmd.stdout => Complete
  /\ genPc \in {"metadata", "annotations", "dockerfile"} /\ cmd.manifests /\ ~cmd.stdout => Complete
  /\ Gen!Generated => Complete

GenerationInv == TypedInv /\ StageInv

-----------------------------------------------------------------------------
(* File names *)

Seen(k) == {j \in Objects : j < k}
Dups(k) == {j \in Seen(k) : \E l \in Seen(k) : l < j /\ Gen!NameAt(l) = Gen!NameAt(j)}

(* The objects before one are finitely many. *)
LEMMA SeenFinite ==
  ASSUME TypedInv, NEW k \in Objects
  PROVE  Objects \subseteq Nat /\ IsFiniteSet(Dups(k)) /\ Cardinality(Dups(k)) \in Nat
<1>1. Objects \subseteq 1 .. Len(proj.objs)
  BY DEF Objects, Gen!GetManifestObjects, TypedInv
<1>2. IsFiniteSet(1 .. Len(proj.objs))
  BY FS_Interval DEF TypedInv
<1>3. Dups(k) \subseteq 1 .. Len(proj.objs)
  BY <1>1 DEF Dups, Seen
<1>4. IsFiniteSet(Dups(k))
  BY <1>2, <1>3, FS_Subset
<1> QED
  BY <1>1, <1>4, FS_CardinalityType DEF TypedInv

(* UniqueFileName in terms of these sets. *)
LEMMA NamesDefined ==
  ASSUME NEW k
  PROVE  /\ (\E j \in Seen(k) : Gen!NameAt(j) = Gen!NameAt(k)) =>
              Gen!UniqueFileName(k) = [Gen!NameAt(k) EXCEPT !.dup = Cardinality(Dups(k)) + 1]
         /\ ~(\E j \in Seen(k) : Gen!NameAt(j) = Gen!NameAt(k)) =>
              Gen!UniqueFileName(k) = Gen!NameAt(k)
         /\ Gen!NameAt(k).dup = 0
<1>1. Gen!Cardinality(Dups(k)) = Cardinality(Dups(k))
  BY DEF Gen!Cardinality, Cardinality
<1>2. Gen!NameAt(k).dup = 0
  BY DEF Gen!NameAt, Gen!FileName
<1> QED
  BY <1>1, <1>2 DEF Gen!UniqueFileName, Seen, Dups, Objects

(* WriteObjectsToFiles gives no two objects the same file: the number in a  *)
(* name that comes again grows with every name that comes again.            *)
LEMMA NamesDistinct ==
  ASSUME TypedInv, NEW j \in Objects, NEW k \in Objects, j < k
  PROVE  Gen!UniqueFileName(j) /= Gen!UniqueFileName(k)
<1> DEFINE Again(x) == \E l \in Seen(x) : Gen!NameAt(l) = Gen!NameAt(x)
<1>1. j \in Nat /\ k \in Nat /\ j \in Seen(k) /\ Seen(j) \subseteq Seen(k)
  BY SeenFinite DEF Seen
<1>2. IsFiniteSet(Dups(k)) /\ IsFiniteSet(Dups(j)) /\ Cardinality(Dups(k)) \in Nat
      /\ Cardinality(Dups(j)) \in Nat
  BY SeenFinite
<1>3. ASSUME NEW x \in {j, k}
      PROVE  /\ Again(x) => Gen!UniqueFileName(x).dup = Cardinality(Dups(x)) + 1
             /\ ~Again(x) => Gen!UniqueFileName(x) = Gen!NameAt(x) /\ Gen!UniqueFileName(x).dup = 0
  <2>1. [Gen!NameAt(x) EXCEPT !.dup = Cardinality(Dups(x)) + 1].dup = Cardinality(Dups(x)) + 1
    BY DEF Gen!NameAt, Gen!FileName
  <2> QED
    BY <2>1, NamesDefined
<1>4. CASE ~Again(k)
  <2>1. Gen!NameAt(j) /= Gen!NameAt(k)
    BY <1>1, <1>4
  <2>2. Gen!UniqueFileName(k) = Gen!NameAt(k) /\ Gen!UniqueFileName(k).dup = 0
    BY <1>3, <1>4
  <2>3. CASE Again(j)
    BY <1>2, <1>3, <2>2, <2>3
  <2>4. CASE ~Again(j)
    BY <1>3, <2>1, <2>2, <2>4
  <2> QED
    BY <2>3, <2>4
<1>5. CASE Again(k) /\ ~Again(j)
  BY <1>2, <1>3, <1>5
<1>6. CASE Again(k) /\ Again(j)
  <2>1. j \in Dups(k) /\ Dups(j) \subseteq Dups(k) /\ j \notin Dups(j)
    <3>1. PICK l \in Seen(j) : Gen!NameAt(l) = Gen!NameAt(j)
      BY <1>6
    <3>2. l \in Seen(k) /\ l < j
      BY <1>1, <3>1 DEF Seen
    <3>3. j \in Dups(k)
      BY <1>1, <3>1, <3>2 DEF Dups
    <3>4. Dups(j) \subseteq Dups(k)
      BY <1>1 DEF Dups
    <3>5. ~(j < j)
      BY <1>1
    <3> QED
      BY <3>3, <3>4, <3>5 DEF Dups, Seen
  <2>2. Cardinality(Dups(j) \cup {j}) = Cardinality(Dups(j)) + 1
    BY <1>2, <2>1, FS_AddElement
  <2>3. Dups(j) \cup {j} \subseteq Dups(k)
    BY <2>1
  <2>4. Cardinality(Dups(j)) + 1 <= Cardinality(Dups(k))
    BY <1>2, <2>2, <2>3, FS_Subset
  <2>5. Gen!UniqueFileName(j).dup = Cardinality(Dups(j)) + 1
        /\ Gen!UniqueFileName(k).dup = Cardinality(Dups(k)) + 1
    BY <1>3, <1>6
  <2> QED
    BY <1>2, <2>4, <2>5
<1> QED
  BY <1>4, <1>5, <1>6

-----------------------------------------------------------------------------
(* The stages *)

(* The invariant holds before the first command. *)
LEMMA GenInit ==
  ASSUME ValidProjects, Gen!Init
  PROVE  GenerationInv
<1>1. cmd.pin = FALSE /\ cmd.manifests = FALSE /\ cmd.stdout = FALSE
  BY DEF Gen!Init, Gen!NoCmd
<1>2. TypedInv
  BY <1>1 DEF TypedInv, ValidProjects, Gen!Init
<1>5. StageInv
  BY <1>1 DEF StageInv, Gen!Init, Gen!Generated
<1> QED
  BY <1>2, <1>5 DEF GenerationInv

(* What a step leaves of a finished bundle when project, command, CSV and   *)
(* files stay: all of it.                                                   *)
LEMMA CompleteKept ==
  ASSUME Complete, UNCHANGED <<proj, cmd, csv, files>>
  PROVE  Complete'
BY DEF Complete, Objects, InFile, Derived, Gen!GetManifestObjects, Gen!Crds, Gen!Content

(* The user's edits and the start of a command: no bundle is then claimed   *)
(* to be generated.                                                         *)
LEMMA StartSteps ==
  ASSUME ValidProjects, GenerationInv,
         Gen!EditProject \/ Gen!EditBase \/ Gen!KustomizeManifests \/ Gen!StartBundle
  PROVE  GenerationInv'
<1> USE DEF GenerationInv
<1>1. UNCHANGED <<files, csv>>
  BY DEF Gen!EditProject, Gen!EditBase, Gen!KustomizeManifests, Gen!StartBundle, Gen!disk
<1>2. /\ proj' = proj \/ proj' \in Projects
      /\ cmd' = cmd \/ cmd' = Gen!NoCmd \/ cmd' \in Commands
  BY DEF Gen!EditProject, Gen!EditBase, Gen!KustomizeManifests, Gen!StartBundle
<1>3. TypedInv'
  <2>1. Len(proj'.objs) \in Nat /\ DOMAIN proj'.objs = 1 .. Len(proj'.objs)
    BY <1>2 DEF TypedInv, ValidProjects
  <2>2. Gen!NoCmd.pin = FALSE /\ Gen!NoCmd.manifests = FALSE /\ Gen!NoCmd.stdout = FALSE
    BY DEF Gen!NoCmd
  <2>3. cmd'.pin \in BOOLEAN /\ cmd'.manifests \in BOOLEAN /\ cmd'.stdout \in BOOLEAN
    BY <1>2, <2>2 DEF TypedInv, ValidProjects
  <2> QED
    BY <2>1, <2>3 DEF TypedInv
<1>4. result' /= "ok" /\ genPc' \in {"idle", "base", "collect", "metadata"}
      /\ (genPc' = "base" => ~cmd'.manifests) /\ (genPc' = "metadata" => ~cmd'.manifests)
  BY DEF Gen!EditProject, Gen!EditBase, Gen!KustomizeManifests, Gen!StartBundle, Gen!End,
    Gen!NoCmd
<1>5. StageInv'
  BY <1>4 DEF StageInv, Gen!Generated
<1> QED
  BY <1>3, <1>5

(* generate kustomize manifests writes nothing of a bundle. *)
LEMMA BaseSteps ==
  ASSUME GenerationInv, Gen!WriteBase \/ Gen!WriteKustomization
  PROVE  GenerationInv'
<1> USE DEF GenerationInv
<1>1. UNCHANGED <<files, csv, proj, cmd>>
  BY DEF Gen!WriteBase, Gen!WriteKustomization, Gen!disk
<1>2. genPc' \in {"kustomization", "idle"} /\ ~cmd.manifests
  BY DEF Gen!WriteBase, Gen!WriteKustomization, Gen!End, StageInv
<1>3. TypedInv' /\ StageInv'
  BY <1>1, <1>2 DEF TypedInv, StageInv, Gen!Generated
<1> QED
  BY <1>3

(* The CSV is derived from the present project, whatever base it starts     *)
(* from.                                                                    *)
LEMMA GenerateStep ==
  ASSUME GenerationInv, Gen!Generate
  PROVE  GenerationInv'
<1> USE DEF GenerationInv
<1>1. UNCHANGED <<files, csv, proj, cmd>>
  BY DEF Gen!Generate, Gen!disk
<1>2. \/ genPc' = "idle" /\ result' = "failed"
      \/ genPc' = "csv" /\ \E b : made' = Gen!generate(b, proj, cmd.version)
  BY DEF Gen!Generate, Gen!End
<1>3. ASSUME NEW b, made' = Gen!generate(b, proj, cmd.version)
      PROVE  Derived(made)' /\ made'.pinned = FALSE
  BY <1>1, <1>3 DEF Derived, Gen!generate, Gen!Owned, Gen!applyCustomResources,
    Gen!applyDeployments,
                    Gen!Crds
<1>4. TypedInv' /\ StageInv'
  BY <1>1, <1>2, <1>3 DEF TypedInv, StageInv, Gen!Generated
<1> QED
  BY <1>4

(* The CSV is written, and every object is still to be. *)
LEMMA WriteCSVStep ==
  ASSUME GenerationInv, Gen!WriteCSV
  PROVE  GenerationInv'
<1> USE DEF GenerationInv
<1>1. UNCHANGED <<files, proj, cmd>> /\ genPc = "csv"
  BY DEF Gen!WriteCSV
<1>2. \/ genPc' = "idle" /\ result' = "failed"
      \/ genPc' = "objects" /\ todo' = Gen!GetManifestObjects(proj) /\ (~cmd.stdout => csv' = made)
  BY DEF Gen!WriteCSV, Gen!End
<1>3. ASSUME genPc' = "objects", ~cmd.stdout
      PROVE  Derived(csv)' /\ csv'.pinned = FALSE
  BY <1>1, <1>2, <1>3 DEF StageInv, Derived, Gen!Crds
<1>4. ASSUME genPc' = "objects"
      PROVE  ObjectsInv'
  <2>1. todo' = Objects'
    BY <1>1, <1>2, <1>4 DEF Objects, Gen!GetManifestObjects
  <2> QED
    BY <2>1 DEF ObjectsInv
<1>5. TypedInv' /\ StageInv'
  BY <1>1, <1>2, <1>3, <1>4 DEF TypedInv, StageInv, Gen!Generated
<1> QED
  BY <1>5

(* A file that is put leaves the others. *)
LEMMA PutFile ==
  ASSUME NEW n, NEW v, files' = Gen!Put(n, v)
  PROVE  /\ DOMAIN files' = DOMAIN files \cup {n} /\ files'[n] = v
         /\ \A f \in DOMAIN files : f /= n => files'[f] = files[f]
BY DEF Gen!Put

(* The next object gets a file that the command has not written yet; a      *)
(* failing write ends the command.                                          *)
LEMMA WriteObjectStep ==
  ASSUME GenerationInv, Gen!WriteObject
  PROVE  GenerationInv'
<1> USE DEF GenerationInv
<1>1. UNCHANGED <<csv, proj, cmd>> /\ genPc = "objects" /\ ObjectsInv
  BY DEF Gen!WriteObject, StageInv
<1>2. PICK k \in todo :
        /\ \A l \in todo : k <= l
        /\ \/ /\ files' = IF cmd.stdout THEN files
                          ELSE Gen!Put(Gen!UniqueFileName(k), Gen!Content(proj.objs[k]))
              /\ todo' = todo \ {k} /\ genPc' = genPc
           \/ /\ genPc' = "idle" /\ result' = "failed"
              /\ files' \in IF cmd.stdout THEN {files}
                            ELSE {files, Gen!Put(Gen!UniqueFileName(k), Gen!Cut)}
  BY DEF Gen!WriteObject, Gen!End
<1> DEFINE name == Gen!UniqueFileName(k)
           content == Gen!Content(proj.objs[k])
<1>4. k \in Objects /\ Objects' = Objects /\ Objects \subseteq Nat
  <2>1. k \in Objects
    BY <1>1, <1>2 DEF ObjectsInv
  <2> QED
    BY <1>1, <2>1, SeenFinite DEF Objects, Gen!GetManifestObjects
<1>5. \A j : Gen!UniqueFileName(j)' = Gen!UniqueFileName(j)
  BY <1>1 DEF Gen!UniqueFileName, Gen!NameAt, Gen!FileName, Gen!GetManifestObjects,
    Gen!Cardinality
<1> HIDE DEF name, content
<1>7. ASSUME genPc' = "objects"
      PROVE  ObjectsInv'
  <2>1. todo' = todo \ {k} /\ files' = IF cmd.stdout THEN files ELSE Gen!Put(name, content)
    BY <1>2, <1>7 DEF name, content
  <2>2. todo' \subseteq Objects'
    BY <1>1, <1>4, <2>1 DEF ObjectsInv
  <2>3. ASSUME NEW j \in Objects \ todo', NEW l \in todo'
        PROVE  j < l
    <3>1. CASE j = k
      BY <1>1, <1>2, <1>4, <2>1, <2>3, <3>1 DEF ObjectsInv
    <3>2. CASE j \in Objects \ todo
      BY <1>1, <2>1, <2>3, <3>2 DEF ObjectsInv
    <3> QED
      BY <2>1, <2>3, <3>1, <3>2
  <2>4. ASSUME ~cmd.stdout, NEW j \in Objects \ todo'
        PROVE  Gen!UniqueFileName(j) \in DOMAIN files'
               /\ files'[Gen!UniqueFileName(j)] = Gen!Content(proj.objs[j])
    <3>1. files' = Gen!Put(name, content)
      BY <2>1, <2>4
    <3>2. CASE j = k
      BY <3>1, <3>2, PutFile DEF name, content
    <3>3. CASE j \in Objects \ todo
      <4>1. j < k
        BY <1>1, <3>3 DEF ObjectsInv
      <4>2. Gen!UniqueFileName(j) /= name
        BY <1>4, <3>3, <4>1, NamesDistinct DEF name
      <4> QED
        BY <1>1, <2>4, <3>1, <3>3, <4>2, PutFile DEF ObjectsInv
    <3> QED
      BY <2>1, <2>4, <3>2, <3>3
  <2> QED
    BY <1>1, <1>4, <1>5, <2>2, <2>3, <2>4 DEF ObjectsInv, Gen!Content
<1>8. genPc' \in {"objects", "idle"} /\ (genPc' = "idle" => result' = "failed")
  BY <1>1, <1>2
<1>9. TypedInv' /\ StageInv'
  BY <1>1, <1>7, <1>8 DEF TypedInv, StageInv, Gen!Generated, Derived, Gen!Crds
<1> QED
  BY <1>9

(* Every object has been written. *)
LEMMA WrittenStep ==
  ASSUME GenerationInv, Gen!ObjectsWritten
  PROVE  GenerationInv'
<1> USE DEF GenerationInv
<1>1. UNCHANGED <<files, csv, proj, cmd>> /\ genPc = "objects" /\ todo = {}
      /\ genPc' = IF cmd.pin THEN "pin" ELSE "score"
  BY DEF Gen!ObjectsWritten, Gen!disk
<1>2. ASSUME ~cmd.stdout
      PROVE  \A k \in Objects : InFile(k)
  BY <1>1, <1>2 DEF StageInv, ObjectsInv, InFile
<1>3. ASSUME ~cmd.stdout
      PROVE  (\A k \in Objects : InFile(k))' /\ Derived(csv)' /\ csv'.pinned = FALSE
  BY <1>1, <1>2, <1>3 DEF StageInv, Objects, Gen!GetManifestObjects, InFile, Gen!Content, Derived,
    Gen!Crds
<1>4. ASSUME ~cmd.stdout, ~cmd.pin
      PROVE  Complete'
  BY <1>1, <1>3, <1>4 DEF Complete, TypedInv
<1>5. TypedInv' /\ StageInv'
  BY <1>1, <1>3, <1>4 DEF TypedInv, StageInv, Gen!Generated
<1> QED
  BY <1>5

(* Pinning rewrites the CSV alone; a failure ends the command. *)
LEMMA PinStep ==
  ASSUME GenerationInv, Gen!pinImages
  PROVE  GenerationInv'
<1> USE DEF GenerationInv
<1>1. UNCHANGED <<proj, cmd, files>> /\ genPc = "pin" /\ cmd.pin
  BY DEF Gen!pinImages, StageInv
<1>2. \/ genPc' = "idle" /\ result' = "failed"
      \/ ~cmd.stdout /\ genPc' = "score" /\ csv' = [csv EXCEPT !.pinned = TRUE]
  BY DEF Gen!pinImages, Gen!End
<1>3. ASSUME ~cmd.stdout, csv' = [csv EXCEPT !.pinned = TRUE]
      PROVE  Complete'
  <2>1. Derived(csv) /\ \A k \in Objects : InFile(k)
    BY <1>1, <1>3 DEF StageInv
  <2>2. /\ DOMAIN csv' = DOMAIN csv /\ csv'.pinned = TRUE /\ csv'.is = csv.is
        /\ csv'.owned = csv.owned /\ csv'.examples = csv.examples /\ csv'.deps = csv.deps
    BY <1>3, <2>1 DEF Derived
  <2>3. Derived(csv)' /\ csv'.pinned = cmd'.pin
    BY <1>1, <2>1, <2>2 DEF Derived, Gen!Crds, TypedInv
  <2>4. (\A k \in Objects : InFile(k))'
    BY <1>1, <2>1 DEF Objects, InFile, Gen!GetManifestObjects, Gen!Content
  <2> QED
    BY <2>3, <2>4 DEF Complete
<1>4. TypedInv' /\ StageInv'
  BY <1>1, <1>2, <1>3 DEF TypedInv, StageInv, Gen!Generated
<1> QED
  BY <1>4

(* Scorecard config and metadata: the manifests are left as they are. *)
LEMMA LateSteps ==
  ASSUME GenerationInv,
         \/ Gen!writeScorecardConfig \/ Gen!runMetadata \/ Gen!WriteAnnotations
         \/ Gen!WriteDockerfile
  PROVE  GenerationInv'
<1> USE DEF GenerationInv
<1>1. UNCHANGED <<files, csv, proj, cmd>>
  BY DEF Gen!writeScorecardConfig, Gen!runMetadata, Gen!WriteAnnotations, Gen!WriteDockerfile,
         Gen!disk
<1>2. genPc \in {"score", "metadata", "annotations", "dockerfile"}
      /\ genPc' \in {"metadata", "annotations", "dockerfile", "idle"}
  BY DEF Gen!writeScorecardConfig, Gen!runMetadata, Gen!WriteAnnotations, Gen!WriteDockerfile,
         Gen!Following, Gen!End
<1>3. cmd.manifests /\ ~cmd.stdout => Complete'
  BY <1>1, <1>2, CompleteKept DEF StageInv
<1>4. TypedInv' /\ StageInv'
  BY <1>1, <1>2, <1>3 DEF TypedInv, StageInv, Gen!Generated
<1> QED
  BY <1>4

(* A finished bundle reflects the project. *)
LEMMA CompleteReflects ==
  ASSUME GenerationInv
  PROVE  Gen!BundleReflectsInput
<1>1. SUFFICES ASSUME Gen!Generated PROVE Gen!BundleReflectsInput
  BY DEF Gen!BundleReflectsInput
<1>2. Complete
  BY <1>1 DEF GenerationInv, StageInv
<1> QED
  BY <1>2 DEF Complete, Derived, InFile, Gen!BundleReflectsInput, Objects

(* A bundle that `generate bundle` (runManifests, WriteObjectsToFiles,      *)
(* pinImages) reports as generated reflects the present project, for every  *)
(* project and every sequence of commands, edits and failing writes.        *)
THEOREM BundlesReflectInput ==
  ASSUME ValidProjects
  PROVE  Gen!Spec => []BundleReflectsInput
<1>1. Gen!Init => GenerationInv
  BY GenInit
<1>2. GenerationInv /\ [Gen!Next]_(Gen!vars) => GenerationInv'
  <2>1. SUFFICES ASSUME GenerationInv, [Gen!Next]_(Gen!vars) PROVE GenerationInv'
    OBVIOUS
  <2>2. CASE Gen!EditProject \/ Gen!EditBase \/ Gen!KustomizeManifests \/ Gen!StartBundle
    BY <2>1, <2>2, StartSteps
  <2>3. CASE Gen!WriteBase \/ Gen!WriteKustomization
    BY <2>1, <2>3, BaseSteps
  <2>4. CASE Gen!Generate
    BY <2>1, <2>4, GenerateStep
  <2>5. CASE Gen!WriteCSV
    BY <2>1, <2>5, WriteCSVStep
  <2>6. CASE Gen!WriteObject
    BY <2>1, <2>6, WriteObjectStep
  <2>7. CASE Gen!ObjectsWritten
    BY <2>1, <2>7, WrittenStep
  <2>8. CASE Gen!pinImages
    BY <2>1, <2>8, PinStep
  <2>9. CASE \/ Gen!writeScorecardConfig \/ Gen!runMetadata \/ Gen!WriteAnnotations
             \/ Gen!WriteDockerfile
    BY <2>1, <2>9, LateSteps
  <2>10. CASE UNCHANGED Gen!vars
    <3>1. UNCHANGED <<files, csv, proj, cmd, todo, made, genPc, result>>
      BY <2>10 DEF Gen!vars, Gen!disk
    <3>2. TypedInv' /\ (Complete => Complete')
      BY <2>1, <3>1, CompleteKept DEF GenerationInv, TypedInv
    <3>3. ObjectsInv => ObjectsInv'
      <4>1. \A k : Gen!UniqueFileName(k)' = Gen!UniqueFileName(k)
        BY <3>1 DEF Gen!UniqueFileName, Gen!NameAt, Gen!FileName, Gen!GetManifestObjects,
                    Gen!Cardinality
      <4>2. Objects' = Objects
        BY <3>1 DEF Objects, Gen!GetManifestObjects
      <4> QED
        BY <3>1, <4>1, <4>2 DEF ObjectsInv, Gen!Content
    <3>4. Derived(csv)' = Derived(csv) /\ Derived(made)' = Derived(made)
          /\ (\A k \in Objects : InFile(k))' = (\A k \in Objects : InFile(k))
      BY <3>1 DEF Derived, Gen!Crds, Objects, Gen!GetManifestObjects, InFile, Gen!Content
    <3>5. StageInv'
      BY <2>1, <3>1, <3>2, <3>3, <3>4 DEF GenerationInv, StageInv, Gen!Generated
    <3> QED
      BY <3>2, <3>5 DEF GenerationInv
  <2> QED
    BY <2>1, <2>2, <2>3, <2>4, <2>5, <2>6, <2>7, <2>8, <2>9, <2>10 DEF Gen!Next
<1>3. GenerationInv => BundleReflectsInput
  BY CompleteReflects DEF BundleReflectsInput
<1> QED
  BY <1>1, <1>2, <1>3, PTL DEF Gen!Spec

-----------------------------------------------------------------------------
(* pkgman-to-bundle *)

(* A smallest version exists among those still to migrate. *)
LEMMA LeastVersion ==
  ASSUME NEW S, S \subseteq Nat, S # {}
  PROVE  \E v \in S : \A w \in S : v <= w
<1>1. PICK x \in S : TRUE OBVIOUS
<1> DEFINE R == OpToRel(<, Nat)
<1>2. PICK v \in S : \A w \in S : ~ (<<w, v>> \in R)
  BY <1>1, NatLessThanWellFounded, WFMin
<1>3. \A w \in S : ~ (w < v)
  BY <1>2 DEF OpToRel
<1> QED BY <1>3

(* Packages are written and edited between migrations only; what is there   *)
(* before the first bundle is nothing.                                      *)
PackageInv ==
  /\ DOMAIN dirs \subseteq Nat /\ \A v \in DOMAIN dirs : VersionDir(dirs[v])
  /\ pkgCmd.flags.version \in Nat
  /\ ~outDir => DOMAIN bundles = {}
  /\ pkgResult = "ok" => pkgPc = "idle"
  /\ pkgPc \in {"package", "csv", "objects"} => pkgCmd.op = "generate"

Migrating == pkgPc \in {"copy", "score", "metadata", "build"}

Copied(v) ==
  /\ DOMAIN bundles[v] = {"manifests", "config", "meta"}
  /\ bundles[v].manifests.csvs = dirs[v].csvs
  /\ dirs[v].scores = {} => bundles[v].config = FALSE
  /\ dirs[v].scores # {} => bundles[v].config = TRUE

Described(v) ==
  LET m == bundles[v].meta
  IN  m.is = "meta" /\ m.config = bundles[v].config /\ m.channels = Pkg!getChannelsByCSV(v)

Finished(v) == Copied(v) /\ Described(v) /\ (pkgCmd.images => v \in images)

(* A migration has finished the versions it has left behind, and has done   *)
(* the steps before the present one for the version at work.                *)
MigratingInv ==
  Migrating =>
    /\ pkgCmd.op = "migrate" /\ pkgTodo # {} /\ pkgTodo \subseteq DOMAIN dirs
    /\ DOMAIN bundles = (DOMAIN dirs \ pkgTodo) \cup (IF pkgPc = "copy" THEN {} ELSE {Pkg!Current})
    /\ \A v \in DOMAIN dirs \ pkgTodo : Finished(v)
    /\ pkgPc = "score" =>
         bundles[Pkg!Current] = [manifests |-> dirs[Pkg!Current], config |-> FALSE, meta |-> Pkg!None]
    /\ pkgPc = "metadata" => Copied(Pkg!Current)
    /\ pkgPc = "build" => Copied(Pkg!Current) /\ Described(Pkg!Current)

DoneInv ==
  pkgResult = "ok" /\ pkgCmd.op = "migrate" =>
    DOMAIN bundles = DOMAIN dirs /\ \A v \in DOMAIN dirs : Finished(v)

MigrationInv == PackageInv /\ MigratingInv /\ DoneInv

(* The version at work is one of those still to migrate. *)
LEMMA CurrentToDo ==
  ASSUME MigrationInv, Migrating PROVE Pkg!Current \in pkgTodo /\ Pkg!Current \in DOMAIN dirs
<1>1. pkgTodo \subseteq Nat /\ pkgTodo # {} /\ pkgTodo \subseteq DOMAIN dirs
  BY DEF MigrationInv, MigratingInv, PackageInv
<1>2. \E v \in pkgTodo : \A w \in pkgTodo : v <= w
  BY <1>1, LeastVersion
<1> QED BY <1>1, <1>2 DEF Pkg!Current

(* What is said of a version does not depend on the others. *)
LEMMA VersionKept ==
  ASSUME NEW v, bundles'[v] = bundles[v], UNCHANGED <<dirs, package, pkgCmd>>, images \subseteq images'
  PROVE  /\ Copied(v) => Copied(v)'
         /\ Described(v) => Described(v)'
         /\ Finished(v) => Finished(v)'
<1>1. Pkg!getChannelsByCSV(v)' = Pkg!getChannelsByCSV(v)
  BY DEF Pkg!getChannelsByCSV, Pkg!channelsByCSV
<1>2. Copied(v) => Copied(v)' BY DEF Copied
<1>3. Described(v) => Described(v)' BY <1>1 DEF Described
<1> QED BY <1>2, <1>3 DEF Finished

(* A command that fails claims nothing. *)
LEMMA MigrationFailed ==
  ASSUME MigrationInv, NEW r, r # "ok", Pkg!End(r), UNCHANGED dirs,
         pkgCmd'.flags.version \in Nat, ~outDir' => DOMAIN bundles' = {}
  PROVE  MigrationInv'
BY DEF MigrationInv, PackageInv, MigratingInv, Migrating, DoneInv, Pkg!End

(* Before the first command there is neither a version nor a bundle. *)
LEMMA MigrationInit == ASSUME ValidPackages, Pkg!Init PROVE MigrationInv
<1>1. DOMAIN dirs = {} /\ DOMAIN bundles = {} BY DEF Pkg!Init
<1> QED BY <1>1 DEF Pkg!Init, Pkg!NoCmd, MigrationInv, PackageInv, MigratingInv, Migrating,
        DoneInv

(* The user's edits and generate packagemanifests. *)
LEMMA PackageSteps ==
  ASSUME ValidPackages, MigrationInv,
         \/ Pkg!EditVersion \/ Pkg!RemoveBundles \/ Pkg!StartGenerate \/ Pkg!WritePackage
         \/ Pkg!WriteCSV \/ Pkg!WriteObjects
  PROVE  MigrationInv'
<1> USE DEF MigrationInv, PackageInv
<1>1. CASE Pkg!EditVersion
  <2>1. PICK v \in DOMAIN dirs, l \in Layouts : dirs' = Pkg!Put(dirs, v, l)
    BY <1>1 DEF Pkg!EditVersion
  <2>2. DOMAIN dirs' \subseteq Nat /\ \A w \in DOMAIN dirs' : VersionDir(dirs'[w])
    BY <2>1 DEF Pkg!Put, ValidPackages, VersionDir
  <2> QED BY <1>1, <2>2 DEF Pkg!EditVersion, MigratingInv, Migrating, DoneInv
<1>2. CASE Pkg!RemoveBundles
  <2>1. DOMAIN bundles' = {} BY <1>2 DEF Pkg!RemoveBundles
  <2> QED BY <1>2, <2>1 DEF Pkg!RemoveBundles, MigratingInv, Migrating, DoneInv
<1>3. CASE Pkg!StartGenerate
  <2>1. PICK f \in Generates :
          /\ pkgCmd' = [op |-> "generate", flags |-> f, images |-> FALSE]
          /\ \/ pkgPc' = "package" /\ pkgResult' = "running"
             \/ Pkg!End("failed")
    BY <1>3 DEF Pkg!StartGenerate
  <2>2. pkgCmd'.flags.version \in Nat BY <2>1 DEF ValidPackages
  <2> QED BY <1>3, <2>1, <2>2 DEF Pkg!StartGenerate, Pkg!End, MigratingInv, Migrating, DoneInv
<1>4. CASE Pkg!WritePackage
  BY <1>4 DEF Pkg!WritePackage, Pkg!Fail, Pkg!End, MigratingInv, Migrating, DoneInv
<1>5. CASE Pkg!WriteCSV
  <2> DEFINE v == pkgCmd.flags.version
             d == Pkg!DirOf(v)
             good == [d EXCEPT !.csvs = @ \cup {"top"}, !.bad = @ \ {"csv"}]
             broken == [d EXCEPT !.csvs = @ \ {"top"}, !.bad = @ \cup {"csv"}]
  <2>1. /\ pkgPc = "csv" /\ UNCHANGED <<bundles, outDir, pkgCmd>>
        /\ dirs' \in {dirs, Pkg!Put(dirs, v, good), Pkg!Put(dirs, v, broken)}
        /\ \/ pkgPc' = "objects" /\ UNCHANGED pkgResult
           \/ pkgPc' = "idle" /\ pkgResult' \in {"ok", "failed"}
    BY <1>5 DEF Pkg!WriteCSV, Pkg!Fail, Pkg!End
  <2>2. VersionDir(d) BY DEF Pkg!DirOf, Pkg!NewDir, VersionDir
  <2>3. VersionDir(good) /\ VersionDir(broken)
    <3> HIDE DEF d
    <3> QED BY <2>2 DEF VersionDir
  <2> HIDE DEF good, broken, d
  <2>4. DOMAIN dirs' \subseteq Nat /\ \A w \in DOMAIN dirs' : VersionDir(dirs'[w])
    BY <2>1, <2>3 DEF Pkg!Put, VersionDir
  <2> QED BY <2>1, <2>4 DEF MigratingInv, Migrating, DoneInv
<1>6. CASE Pkg!WriteObjects
  <2> DEFINE v == pkgCmd.flags.version
  <2>1. /\ pkgPc = "objects" /\ UNCHANGED <<bundles, outDir, pkgCmd>>
        /\ dirs' \in {dirs, [dirs EXCEPT ![v].bad = @ \ {"object"}],
                      [dirs EXCEPT ![v].bad = @ \cup {"object"}]}
        /\ pkgPc' = "idle" /\ pkgResult' \in {"ok", "failed"}
    BY <1>6 DEF Pkg!WriteObjects, Pkg!Fail, Pkg!End
  <2>2. DOMAIN dirs' \subseteq Nat /\ \A w \in DOMAIN dirs' : VersionDir(dirs'[w])
    BY <2>1 DEF VersionDir
  <2> QED BY <2>1, <2>2 DEF MigratingInv, Migrating, DoneInv
<1> QED BY <1>1, <1>2, <1>3, <1>4, <1>5, <1>6

(* A migration starts with no bundle there. *)
LEMMA MigrationStarts ==
  ASSUME ValidPackages, MigrationInv, Pkg!StartMigration PROVE MigrationInv'
<1>1. /\ pkgCmd'.op = "migrate" /\ pkgCmd'.flags.version \in Nat
      /\ UNCHANGED <<package, dirs, bundles, images, outDir>>
  BY DEF Pkg!StartMigration, Pkg!NoCmd
<1>2. \/ Pkg!End("failed") \/ Pkg!End("panic")
      \/ /\ ~outDir /\ pkgTodo' = DOMAIN dirs
         /\ IF DOMAIN dirs = {} THEN pkgPc' = "idle" /\ pkgResult' = "ok"
            ELSE pkgPc' = "copy" /\ pkgResult' = "running"
  BY DEF Pkg!StartMigration
<1>3. CASE Pkg!End("failed") \/ Pkg!End("panic")
  <2>1. ~outDir' => DOMAIN bundles' = {} BY <1>1 DEF MigrationInv, PackageInv
  <2> QED BY <1>1, <1>3, <2>1, MigrationFailed
<1>4. CASE ~(Pkg!End("failed") \/ Pkg!End("panic"))
  <2>1. DOMAIN bundles = {} BY <1>2, <1>4 DEF MigrationInv, PackageInv
  <2> QED BY <1>1, <1>2, <1>4, <2>1 DEF MigrationInv, PackageInv, MigratingInv, DoneInv, Migrating
<1> QED BY <1>3, <1>4

(* The manifests of the version at work are copied. *)
LEMMA MigrationCopies ==
  ASSUME MigrationInv, Pkg!CopyOperatorManifests PROVE MigrationInv'
<1> DEFINE v == Pkg!Current
           b == [manifests |-> dirs[v], config |-> FALSE, meta |-> Pkg!None]
<1>1. /\ pkgPc = "copy" /\ Migrating /\ UNCHANGED <<package, dirs, images, pkgCmd>>
      /\ pkgCmd.flags.version \in Nat
  BY DEF Pkg!CopyOperatorManifests, Migrating, MigrationInv, PackageInv
<1>2. v \in pkgTodo /\ v \in DOMAIN dirs BY <1>1, CurrentToDo
<1>3. \/ /\ Pkg!End("failed") /\ UNCHANGED bundles /\ (outDir' = outDir \/ outDir' = TRUE)
      \/ /\ bundles' = Pkg!Put(bundles, v, b) /\ outDir' = TRUE /\ pkgPc' = "score"
         /\ UNCHANGED <<pkgResult, pkgTodo>>
  BY DEF Pkg!CopyOperatorManifests, Pkg!Fail
<1>4. CASE Pkg!End("failed") /\ UNCHANGED bundles /\ (outDir' = outDir \/ outDir' = TRUE)
  <2>1. ~outDir' => DOMAIN bundles' = {} BY <1>4 DEF MigrationInv, PackageInv
  <2> QED BY <1>1, <1>4, <2>1, MigrationFailed
<1>5. CASE /\ bundles' = Pkg!Put(bundles, v, b) /\ outDir' = TRUE /\ pkgPc' = "score"
           /\ UNCHANGED <<pkgResult, pkgTodo>>
  <2>1. Pkg!Current' = v BY <1>5 DEF Pkg!Current
  <2>2. DOMAIN bundles = DOMAIN dirs \ pkgTodo /\ \A w \in DOMAIN dirs \ pkgTodo : Finished(w)
    BY <1>1 DEF MigrationInv, MigratingInv
  <2> HIDE DEF v, b
  <2>3. /\ DOMAIN bundles' = (DOMAIN dirs \ pkgTodo) \cup {v} /\ bundles'[v] = b
        /\ \A w \in DOMAIN dirs \ pkgTodo : bundles'[w] = bundles[w]
    BY <1>2, <1>5, <2>2 DEF Pkg!Put
  <2>4. \A w \in DOMAIN dirs \ pkgTodo : Finished(w)'
    BY <1>1, <2>2, <2>3, VersionKept
  <2>5. pkgResult # "ok" BY <1>1 DEF MigrationInv, PackageInv
  <2>6. b = [manifests |-> dirs[v], config |-> FALSE, meta |-> Pkg!None] BY DEF b
  <2>7. MigratingInv'
    <3>1. Pkg!None' = Pkg!None BY DEF Pkg!None
    <3>2. pkgCmd.op = "migrate" /\ pkgTodo # {} /\ pkgTodo \subseteq DOMAIN dirs
      BY <1>1 DEF MigrationInv, MigratingInv
    <3> QED BY <1>1, <1>5, <2>1, <2>3, <2>4, <2>6, <3>1, <3>2 DEF MigratingInv
  <2> QED BY <1>1, <1>5, <2>5, <2>7 DEF MigrationInv, PackageInv, DoneInv
<1> QED BY <1>3, <1>4, <1>5

(* Its scorecard config, if there is one, gets its place. *)
LEMMA MigrationScores ==
  ASSUME MigrationInv, Pkg!WriteScorecardConfig PROVE MigrationInv'
<1> DEFINE v == Pkg!Current
           d == dirs[v]
<1>1. /\ pkgPc = "score" /\ Migrating /\ UNCHANGED <<package, dirs, images, pkgCmd, outDir>>
      /\ pkgCmd.flags.version \in Nat
  BY DEF Pkg!WriteScorecardConfig, Migrating, MigrationInv, PackageInv
<1>2. v \in pkgTodo /\ v \in DOMAIN dirs BY <1>1, CurrentToDo
<1>3. \/ Pkg!End("failed") /\ UNCHANGED bundles
      \/ /\ bundles' = (IF d.scores = {} THEN bundles
                        ELSE [bundles EXCEPT ![v].manifests.scores = @ \ {"top"},
                                             ![v].config = TRUE])
         /\ pkgPc' = "metadata" /\ UNCHANGED <<pkgResult, pkgTodo>>
  BY DEF Pkg!WriteScorecardConfig, Pkg!Fail
<1>4. CASE Pkg!End("failed") /\ UNCHANGED bundles
  <2>1. ~outDir' => DOMAIN bundles' = {} BY <1>1, <1>4 DEF MigrationInv, PackageInv
  <2> QED BY <1>1, <1>4, <2>1, MigrationFailed
<1>5. CASE /\ bundles' = (IF d.scores = {} THEN bundles
                          ELSE [bundles EXCEPT ![v].manifests.scores = @ \ {"top"},
                                               ![v].config = TRUE])
           /\ pkgPc' = "metadata" /\ UNCHANGED <<pkgResult, pkgTodo>>
  <2>1. Pkg!Current' = v BY <1>5 DEF Pkg!Current
  <2>2. /\ DOMAIN bundles = (DOMAIN dirs \ pkgTodo) \cup {v}
        /\ \A w \in DOMAIN dirs \ pkgTodo : Finished(w)
        /\ bundles[v] = [manifests |-> d, config |-> FALSE, meta |-> Pkg!None]
        /\ VersionDir(d)
    BY <1>1, <1>2 DEF MigrationInv, MigratingInv, PackageInv
  <2> HIDE DEF v
  <2>3. /\ DOMAIN bundles' = DOMAIN bundles
        /\ \A w \in DOMAIN dirs \ pkgTodo : bundles'[w] = bundles[w]
    BY <1>2, <1>5, <2>2
  <2>4. \A w \in DOMAIN dirs \ pkgTodo : Finished(w)'
    BY <1>1, <2>2, <2>3, VersionKept
  <2>5. pkgResult # "ok" BY <1>1 DEF MigrationInv, PackageInv
  <2>6. \A w : w = v => Copied(w)'
    <3> SUFFICES ASSUME NEW w, w = v PROVE Copied(w)' OBVIOUS
    <3>1. CASE d.scores = {}
      <4>1. bundles'[v] = [manifests |-> d, config |-> FALSE, meta |-> Pkg!None]
        BY <1>5, <2>2, <3>1
      <4> QED BY <1>1, <3>1, <4>1 DEF Copied
    <3>2. CASE d.scores # {}
      <4>1. bundles'[v] = [[bundles[v] EXCEPT !.manifests.scores = @ \ {"top"}] EXCEPT !.config = TRUE]
        BY <1>5, <2>2, <3>2
      <4>2. /\ DOMAIN bundles'[v] = {"manifests", "config", "meta"}
            /\ bundles'[v].config = TRUE
            /\ bundles'[v].manifests = [d EXCEPT !.scores = @ \ {"top"}]
        BY <2>2, <4>1
      <4>3. bundles'[v].manifests.csvs = d.csvs BY <2>2, <4>2 DEF VersionDir
      <4> QED BY <1>1, <3>2, <4>2, <4>3 DEF Copied
    <3> QED BY <3>1, <3>2
  <2>7. MigratingInv'
    <3>1. pkgCmd.op = "migrate" /\ pkgTodo # {} /\ pkgTodo \subseteq DOMAIN dirs
      BY <1>1 DEF MigrationInv, MigratingInv
    <3>2. Copied(Pkg!Current)'
      BY <2>1, <2>6
    <3> QED BY <1>1, <1>5, <2>1, <2>2, <2>3, <2>4, <3>1, <3>2 DEF MigratingInv
  <2> QED BY <1>1, <1>5, <2>5, <2>7 DEF MigrationInv, PackageInv, DoneInv
<1> QED BY <1>3, <1>4, <1>5

(* The version at work is finished, and the next one or nothing is left. *)
LEMMA MigrationProceeds ==
  ASSUME MigrationInv, Migrating, pkgPc # "copy", Pkg!NextVersion, UNCHANGED <<package, dirs, pkgCmd, outDir>>,
         DOMAIN bundles' = DOMAIN bundles, images \subseteq images',
         \A w \in DOMAIN dirs \ pkgTodo : bundles'[w] = bundles[w],
         \A w : w = Pkg!Current => Finished(w)'
  PROVE  MigrationInv'
<1> DEFINE v == Pkg!Current
           rest == pkgTodo \ {v}
<1>1. v \in pkgTodo /\ v \in DOMAIN dirs BY CurrentToDo
<1>2. /\ DOMAIN bundles = (DOMAIN dirs \ pkgTodo) \cup {v} /\ pkgCmd.op = "migrate"
      /\ pkgTodo \subseteq DOMAIN dirs /\ \A w \in DOMAIN dirs \ pkgTodo : Finished(w)
  BY DEF MigrationInv, MigratingInv
<1>3. /\ pkgTodo' = rest
      /\ IF pkgTodo = {v} THEN pkgPc' = "idle" /\ pkgResult' = "ok"
         ELSE pkgPc' = "copy" /\ UNCHANGED pkgResult
  BY DEF Pkg!NextVersion
<1>4. pkgResult # "ok" BY DEF Migrating, MigrationInv, PackageInv
<1> HIDE DEF v
<1>5. \A w \in DOMAIN dirs \ rest : Finished(w)'
  BY <1>1, <1>2, VersionKept DEF v
<1>6. DOMAIN bundles' = DOMAIN dirs \ rest BY <1>1, <1>2
<1>7. PackageInv'
  BY <1>2, <1>3, <1>4 DEF MigrationInv, PackageInv
<1>8. MigratingInv'
  <2>1. pkgTodo # {v} => rest # {} BY <1>1
  <2> QED BY <1>1, <1>2, <1>3, <1>5, <1>6, <2>1 DEF MigratingInv, Migrating
<1>9. DoneInv'
  <2>1. pkgTodo = {v} => rest = {} OBVIOUS
  <2> QED BY <1>3, <1>4, <1>5, <1>6, <2>1 DEF DoneInv
<1> QED BY <1>7, <1>8, <1>9 DEF MigrationInv

(* Its metadata names the channels and tells whether a config is there. *)
LEMMA MigrationDescribes ==
  ASSUME MigrationInv, Pkg!GenerateMetadata PROVE MigrationInv'
<1> DEFINE v == Pkg!Current
           meta == [is |-> "meta", channels |-> Pkg!getChannelsByCSV(v), default |-> package.default,
                    config |-> bundles[v].config]
<1>1. /\ pkgPc = "metadata" /\ Migrating /\ UNCHANGED <<package, dirs, images, pkgCmd, outDir>>
      /\ pkgCmd.flags.version \in Nat
  BY DEF Pkg!GenerateMetadata, Migrating, MigrationInv, PackageInv
<1>2. v \in pkgTodo /\ v \in DOMAIN dirs BY <1>1, CurrentToDo
<1>3. /\ DOMAIN bundles = (DOMAIN dirs \ pkgTodo) \cup {v} /\ Copied(v)
      /\ pkgCmd.op = "migrate" /\ pkgTodo # {} /\ pkgTodo \subseteq DOMAIN dirs
      /\ \A w \in DOMAIN dirs \ pkgTodo : Finished(w)
  BY <1>1 DEF MigrationInv, MigratingInv
<1>4. \/ /\ Pkg!End("failed")
         /\ bundles' \in {bundles, [bundles EXCEPT ![v].meta = meta],
                          [bundles EXCEPT ![v].meta = Pkg!Cut]}
      \/ /\ bundles' = [bundles EXCEPT ![v].meta = meta]
         /\ IF pkgCmd.images THEN pkgPc' = "build" /\ UNCHANGED <<pkgResult, pkgTodo>>
            ELSE Pkg!NextVersion
  BY DEF Pkg!GenerateMetadata, Pkg!Fail
<1>6. meta.is = "meta" /\ meta.config = bundles[v].config /\ meta.channels = Pkg!getChannelsByCSV(v)
  OBVIOUS
<1> HIDE DEF v, meta
<1>7. DOMAIN bundles' = DOMAIN bundles BY <1>4
<1>8. CASE Pkg!End("failed")
  <2>1. ~outDir' => DOMAIN bundles' = {} BY <1>1, <1>7 DEF MigrationInv, PackageInv
  <2> QED BY <1>1, <1>8, <2>1, MigrationFailed
<1>9. CASE /\ bundles' = [bundles EXCEPT ![v].meta = meta]
           /\ IF pkgCmd.images THEN pkgPc' = "build" /\ UNCHANGED <<pkgResult, pkgTodo>>
              ELSE Pkg!NextVersion
  <2>1. /\ bundles'[v] = [bundles[v] EXCEPT !.meta = meta]
        /\ \A w \in DOMAIN dirs \ pkgTodo : bundles'[w] = bundles[w]
    BY <1>2, <1>3, <1>9
  <2>2. /\ bundles'[v].meta = meta /\ bundles'[v].config = bundles[v].config
        /\ bundles'[v].manifests = bundles[v].manifests
        /\ DOMAIN bundles'[v] = {"manifests", "config", "meta"}
    BY <1>3, <2>1 DEF Copied
  <2>3. \A w : w = v => Copied(w)' /\ Described(w)'
    <3>1. SUFFICES ASSUME NEW w, w = v PROVE Copied(w)' /\ Described(w)' OBVIOUS
    <3>2. Pkg!getChannelsByCSV(w)' = Pkg!getChannelsByCSV(w)
      BY <1>1 DEF Pkg!getChannelsByCSV, Pkg!channelsByCSV
    <3>3. Copied(w)' BY <1>1, <1>3, <2>2, <3>1 DEF Copied
    <3>4. Described(w)' BY <1>6, <2>2, <3>1, <3>2 DEF Described
    <3> QED BY <3>3, <3>4
  <2>4. CASE pkgCmd.images
    <3>1. pkgPc' = "build" /\ UNCHANGED <<pkgResult, pkgTodo>> BY <1>9, <2>4
    <3>2. Pkg!Current' = v BY <3>1 DEF Pkg!Current, v
    <3>3. \A w \in DOMAIN dirs \ pkgTodo : Finished(w)'
      BY <1>1, <1>3, <2>1, VersionKept
    <3>4. Copied(Pkg!Current)' /\ Described(Pkg!Current)'
      BY <2>3, <3>2
    <3>5. pkgResult # "ok" BY <1>1 DEF MigrationInv, PackageInv
    <3>6. MigratingInv'
      BY <1>1, <1>3, <1>7, <3>1, <3>2, <3>3, <3>4 DEF MigratingInv
    <3> QED BY <1>1, <1>7, <3>1, <3>5, <3>6 DEF MigrationInv, PackageInv, DoneInv
  <2>5. CASE ~pkgCmd.images
    <3>1. Pkg!NextVersion BY <1>9, <2>5
    <3>2. \A w : w = v => Finished(w)' BY <1>1, <2>3, <2>5 DEF Finished
    <3> QED BY <1>1, <1>7, <2>1, <3>1, <3>2, MigrationProceeds DEF v
  <2> QED BY <2>4, <2>5
<1> QED BY <1>4, <1>8, <1>9

(* Its image is built. *)
LEMMA MigrationBuilds ==
  ASSUME MigrationInv, Pkg!BuildBundleImage PROVE MigrationInv'
<1> DEFINE v == Pkg!Current
<1>1. /\ pkgPc = "build" /\ Migrating /\ UNCHANGED <<package, dirs, bundles, pkgCmd, outDir>>
      /\ pkgCmd.flags.version \in Nat
  BY DEF Pkg!BuildBundleImage, Migrating, MigrationInv, PackageInv
<1>2. Copied(v) /\ Described(v) BY <1>1 DEF MigrationInv, MigratingInv
<1>3. \/ images' = images \cup {v} /\ Pkg!NextVersion
      \/ Pkg!End("failed")
  BY DEF Pkg!BuildBundleImage, Pkg!Fail
<1> HIDE DEF v
<1>4. CASE Pkg!End("failed")
  <2>1. ~outDir' => DOMAIN bundles' = {} BY <1>1 DEF MigrationInv, PackageInv
  <2> QED BY <1>1, <1>4, <2>1, MigrationFailed
<1>5. CASE images' = images \cup {v} /\ Pkg!NextVersion
  <2>1. \A w : w = v => Finished(w)'
    BY <1>1, <1>2, <1>5, VersionKept DEF Finished
  <2> QED BY <1>1, <1>5, <2>1, MigrationProceeds DEF v
<1> QED BY <1>3, <1>4, <1>5

(* Whatever packages, commands, edits and failures went before, a migration *)
(* that reports success has made a complete bundle of every version.        *)
THEOREM MigrationsComplete ==
  ASSUME ValidPackages PROVE Pkg!Spec => []Migrated
<1>1. Pkg!Init => MigrationInv BY MigrationInit
<1>2. MigrationInv /\ [Pkg!Next]_(Pkg!vars) => MigrationInv'
  <2>1. SUFFICES ASSUME MigrationInv, [Pkg!Next]_(Pkg!vars) PROVE MigrationInv'
    OBVIOUS
  <2>2. CASE UNCHANGED Pkg!vars
    <3>1. UNCHANGED <<package, dirs, bundles, images, outDir, pkgCmd, pkgTodo, pkgPc, pkgResult>>
      BY <2>2 DEF Pkg!vars
    <3>2. \A v : /\ Copied(v) => Copied(v)'
                 /\ Described(v) => Described(v)'
                 /\ Finished(v) => Finished(v)'
      BY <3>1, VersionKept
    <3>3. Pkg!Current' = Pkg!Current /\ Pkg!None' = Pkg!None BY <3>1 DEF Pkg!Current, Pkg!None
    <3>4. PackageInv' /\ DoneInv' BY <2>1, <3>1, <3>2 DEF MigrationInv, PackageInv, DoneInv
    <3>5. MigratingInv'
      <4>1. /\ Copied(Pkg!Current) => Copied(Pkg!Current)'
            /\ Described(Pkg!Current) => Described(Pkg!Current)'
        BY <3>1, <3>3 DEF Copied, Described, Pkg!getChannelsByCSV, Pkg!channelsByCSV
      <4> QED BY <2>1, <3>1, <3>2, <3>3, <4>1 DEF MigrationInv, MigratingInv, Migrating
    <3> QED BY <3>4, <3>5 DEF MigrationInv
  <2>3. CASE Pkg!Next
    BY <2>1, <2>3, PackageSteps, MigrationStarts, MigrationCopies, MigrationScores,
      MigrationDescribes,
       MigrationBuilds
       DEF Pkg!Next
  <2> QED BY <2>1, <2>2, <2>3
<1>3. MigrationInv => Pkg!Migrated
  <2>1. SUFFICES ASSUME MigrationInv, pkgResult = "ok", pkgCmd.op = "migrate" PROVE Pkg!Migrated
    BY DEF Pkg!Migrated
  <2>2. DOMAIN bundles = DOMAIN dirs /\ \A v \in DOMAIN dirs : Finished(v)
    BY <2>1 DEF MigrationInv, DoneInv
  <2>3. ASSUME NEW v \in DOMAIN dirs
        PROVE  LET m == bundles[v].meta
                   heads == {c \in Pkg!Names(package) : \E k \in DOMAIN package.channels :
                               package.channels[k].name = c /\ package.channels[k].csv = v}
               IN  /\ bundles[v].manifests.csvs = dirs[v].csvs
                   /\ m.is = "meta"
                   /\ m.channels = (IF heads = {} THEN {package.default} ELSE heads)
                   /\ m.config = (dirs[v].scores /= {}) /\ bundles[v].config = m.config
                   /\ pkgCmd.images => v \in images
    <3> DEFINE heads == {c \in Pkg!Names(package) : \E k \in DOMAIN package.channels :
                           package.channels[k].name = c /\ package.channels[k].csv = v}
    <3>1. Copied(v) /\ Described(v) /\ (pkgCmd.images => v \in images)
      BY <2>2, <2>3 DEF Finished
    <3>2. heads = Pkg!channelsByCSV(v)
      BY DEF Pkg!channelsByCSV, Pkg!Names
    <3>3. bundles[v].meta.channels = IF heads = {} THEN {package.default} ELSE heads
      BY <3>1, <3>2 DEF Described, Pkg!getChannelsByCSV
    <3>4. bundles[v].meta.config = (dirs[v].scores # {})
      <4>1. CASE dirs[v].scores = {}
        <5>1. bundles[v].meta.config = FALSE BY <3>1, <4>1 DEF Copied, Described
        <5> QED BY <4>1, <5>1
      <4>2. CASE dirs[v].scores # {}
        <5>1. bundles[v].meta.config = TRUE BY <3>1, <4>2 DEF Copied, Described
        <5> QED BY <4>2, <5>1
      <4> QED BY <4>1, <4>2
    <3> QED BY <3>1, <3>3, <3>4 DEF Copied, Described
  <2> QED BY <2>2, <2>3 DEF Pkg!Migrated
<1> QED BY <1>1, <1>2, <1>3, PTL DEF Pkg!Spec, Migrated

-----------------------------------------------------------------------------
(* generate packagemanifests: the heads of the other channels. *)

ChannelInv ==
  /\ package.is = "package" => package.channels \in Seq(Channel)
  /\ pkgPc = "package" => pkgCmd.flags \in Generates

LEMMA PackagesCountAlike == \A S : Pkg!Cardinality(S) = Cardinality(S)
BY DEF Pkg!Cardinality, Cardinality

LEMMA ChannelType ==
  ASSUME NEW c \in Channel, NEW v \in Nat
  PROVE  c.name \in Nat /\ [c EXCEPT !.csv = v] \in Channel /\ [c EXCEPT !.csv = v].name = c.name
BY DEF Channel

\* setChannels keeps the channels of other names where they are.
LEMMA ChannelSet ==
  ASSUME NEW channels \in Seq(Channel), NEW name \in Nat, NEW csv0 \in Nat
  PROVE  LET new == Pkg!setChannels(channels, name, csv0)
         IN  /\ new \in Seq(Channel)
             /\ \A n \in DOMAIN channels : channels[n].name # name =>
                  n \in DOMAIN new /\ new[n] = channels[n]
<1> DEFINE at == {n \in DOMAIN channels : channels[n].name = name}
           first == CHOOSE n \in at : \A j \in at : n <= j
           new == Pkg!setChannels(channels, name, csv0)
<1>1. new = IF at = {} THEN Append(channels, [name |-> name, csv |-> csv0])
            ELSE [channels EXCEPT ![first].csv = csv0]
  BY DEF Pkg!setChannels
<1>2. CASE at = {}
  <2>1. [name |-> name, csv |-> csv0] \in Channel BY DEF Channel
  <2>2. new = Append(channels, [name |-> name, csv |-> csv0]) BY <1>1, <1>2
  <2> HIDE DEF at, new
  <2> QED BY <2>1, <2>2 DEF new
<1>3. CASE at # {}
  <2>1. first \in at
    <3>1. at \subseteq Nat OBVIOUS
    <3> HIDE DEF at
    <3>2. \E n \in at : \A j \in at : n <= j BY <1>3, <3>1, LeastVersion
    <3> QED BY <3>2
  <2>2. new = [channels EXCEPT ![first].csv = csv0] BY <1>1, <1>3
  <2>3. first \in DOMAIN channels /\ channels[first].name = name BY <2>1
  <2> HIDE DEF at, first, new
  <2>4. [channels[first] EXCEPT !.csv = csv0] \in Channel 
    <3>1. channels[first] \in Channel BY <2>3
    <3> QED BY <3>1, ChannelType
  <2>5. new \in Seq(Channel) BY <2>2, <2>3, <2>4
  <2>6. \A n \in DOMAIN channels : n # first => n \in DOMAIN new /\ new[n] = channels[n] BY <2>2
  <2> QED BY <2>3, <2>5, <2>6 DEF new
<1> QED BY <1>2, <1>3

\* sortChannelsByName permutes: it neither loses nor makes up a channel.
LEMMA ChannelsSorted ==
  ASSUME NEW channels \in Seq(Channel)
  PROVE  LET sorted == Pkg!sortChannelsByName(channels)
         IN  /\ sorted \in Seq(Channel)
             /\ \A n \in DOMAIN channels : \E k \in DOMAIN sorted : sorted[k] = channels[n]
<1> DEFINE D == DOMAIN channels
           Before(n, j) == \/ channels[n].name < channels[j].name
                           \/ channels[n].name = channels[j].name /\ n < j
           prior(n) == {j \in D : Before(j, n)}
           place(n) == Pkg!Cardinality(prior(n)) + 1
           sorted == Pkg!sortChannelsByName(channels)
<1>1. sorted = [k \in D |-> channels[CHOOSE n \in D : place(n) = k]]
  BY DEF Pkg!sortChannelsByName
<1>2. D = 1 .. Len(channels) /\ Len(channels) \in Nat /\ D \subseteq Nat
      /\ \A n \in D : channels[n] \in Channel /\ channels[n].name \in Nat
  <2>1. \A n \in D : channels[n] \in Channel OBVIOUS
  <2>2. \A n \in D : channels[n].name \in Nat BY <2>1 DEF Channel
  <2> QED BY <2>1, <2>2
<1>3. IsFiniteSet(D) /\ Cardinality(D) = Len(channels)
  BY <1>2, FS_Interval
<1>4. ASSUME NEW n \in D PROVE IsFiniteSet(prior(n)) /\ Cardinality(prior(n)) \in Nat
                               /\ Cardinality(prior(n)) < Cardinality(D)
  <2>1. prior(n) \in SUBSET D /\ n \notin prior(n) BY <1>2
  <2> HIDE DEF prior, D
  <2>2. IsFiniteSet(prior(n)) /\ Cardinality(prior(n)) <= Cardinality(D)
        /\ (Cardinality(D) = Cardinality(prior(n)) => D = prior(n))
    BY <1>3, <2>1, FS_Subset
  <2>3. D # prior(n) BY <2>1
  <2>4. Cardinality(prior(n)) \in Nat /\ Cardinality(D) \in Nat BY <1>3, <2>2, FS_CardinalityType
  <2> QED BY <2>2, <2>3, <2>4
<1>5. ASSUME NEW n \in D PROVE place(n) \in D /\ place(n) = Cardinality(prior(n)) + 1
  <2>1. place(n) = Cardinality(prior(n)) + 1 BY PackagesCountAlike
  <2>2. Cardinality(prior(n)) \in Nat /\ Cardinality(prior(n)) < Len(channels) BY <1>3, <1>4
  <2> HIDE DEF place, prior
  <2> QED BY <1>2, <2>1, <2>2
<1>6. ASSUME NEW n \in D, NEW j \in D, Before(n, j)
      PROVE  Cardinality(prior(n)) < Cardinality(prior(j))
  <2>1. n \in prior(j) /\ n \notin prior(n) BY <1>2, <1>6
  <2>2. prior(n) \subseteq prior(j)
    <3> SUFFICES ASSUME NEW k \in D, Before(k, n) PROVE Before(k, j)
      OBVIOUS
    <3> QED BY <1>2, <1>6
  <2>3. IsFiniteSet(prior(j)) /\ Cardinality(prior(j)) \in Nat /\ Cardinality(prior(n)) \in Nat BY <1>4
  <2> HIDE DEF prior
  <2>4. Cardinality(prior(n)) <= Cardinality(prior(j))
        /\ (Cardinality(prior(j)) = Cardinality(prior(n)) => prior(j) = prior(n))
    BY <2>2, <2>3, FS_Subset
  <2> QED BY <2>1, <2>3, <2>4
<1>7. ASSUME NEW n \in D, NEW j \in D, place(n) = place(j) PROVE n = j
  <2>1. Cardinality(prior(n)) \in Nat /\ Cardinality(prior(j)) \in Nat BY <1>4
  <2>2. Cardinality(prior(n)) = Cardinality(prior(j))
    <3>1. place(n) = Cardinality(prior(n)) + 1 /\ place(j) = Cardinality(prior(j)) + 1 BY <1>5
    <3> DEFINE x == Cardinality(prior(n))
               y == Cardinality(prior(j))
    <3>2. x + 1 = y + 1 BY <1>7, <3>1
    <3>3. x \in Nat /\ y \in Nat BY <2>1
    <3> HIDE DEF x, y
    <3>4. x = y BY <3>2, <3>3
    <3> QED BY <3>4 DEF x, y
  <2>3. ~Before(n, j) /\ ~Before(j, n)
    <3> HIDE DEF prior, Before
    <3> QED BY <1>6, <2>1, <2>2
  <2> QED BY <1>2, <2>3
<1>8. ASSUME NEW k \in D PROVE \E n \in D : place(n) = k
  <2> DEFINE f == [n \in D |-> place(n)]
  <2>1. f \in [D -> D] BY <1>5
  <2>2. f \in Injection(D, D)
    <3>1. \A n, j \in D : f[n] = f[j] => n = j BY <1>7
    <3> HIDE DEF f, D
    <3> QED BY <2>1, <3>1 DEF Injection, IsInjective
  <2>3. f \in Surjection(D, D)
    <3> HIDE DEF f, D
    <3> QED BY <1>3, <2>2, FS_Injection
  <2>4. \E n \in D : f[n] = k
    <3> HIDE DEF f, D
    <3> QED BY <2>3 DEF Surjection
  <2> QED BY <2>4
<1> HIDE DEF place
<1>9. \A k \in D : (CHOOSE n \in D : place(n) = k) \in D BY <1>8
<1>10. sorted \in Seq(Channel)
  <2>1. \A k \in D : channels[CHOOSE n \in D : place(n) = k] \in Channel BY <1>2, <1>9
  <2> DEFINE g == [k \in D |-> channels[CHOOSE n \in D : place(n) = k]]
  <2>a. sorted = g BY <1>1
  <2>b. g \in [D -> Channel] BY <2>1
  <2> HIDE DEF g, D, sorted
  <2>2. sorted \in [1 .. Len(channels) -> Channel] BY <1>2, <2>a, <2>b
  <2> QED BY <1>2, <2>2
<1>11. ASSUME NEW n \in D PROVE \E k \in DOMAIN sorted : sorted[k] = channels[n]
  <2>1. (CHOOSE j \in D : place(j) = place(n)) = n BY <1>7
  <2>2. place(n) \in D BY <1>5
  <2>3. place(n) \in DOMAIN sorted /\ sorted[place(n)] = channels[n] BY <1>1, <2>1, <2>2
  <2> QED BY <2>3
<1> QED BY <1>10, <1>11

\* What generate writes: the base with its other channels.
LEMMA GeneratedPackage ==
  ASSUME ChannelInputs, ChannelInv, NEW f \in Generates
  PROVE  LET p == Pkg!generate(f)
         IN  /\ p.is = "package" /\ p.channels \in Seq(Channel)
             /\ package.is = "package" /\ f.sameDir => \A n \in DOMAIN package.channels :
                  package.channels[n].name # f.channel =>
                    \E k \in DOMAIN p.channels : p.channels[k] = package.channels[n]
<1> DEFINE base0 == Pkg!GetBase(f.sameDir)
           given == Pkg!setChannels(base0.channels, f.channel, f.version)
           sorted == Pkg!sortChannelsByName(given)
           p == Pkg!generate(f)
<1>1. f.channel \in Nat /\ f.version \in Nat BY DEF ChannelInputs
<1>2. base0.is = "package" /\ base0.channels \in Seq(Channel)
      /\ (package.is = "package" /\ f.sameDir => base0 = package)
  BY DEF Pkg!GetBase, Pkg!Package, ChannelInv
<1>3. given \in Seq(Channel) /\ \A n \in DOMAIN base0.channels : base0.channels[n].name # f.channel =>
         n \in DOMAIN given /\ given[n] = base0.channels[n]
  <2> HIDE DEF base0
  <2> QED BY <1>1, <1>2, ChannelSet
<1>4. sorted \in Seq(Channel) /\ \A n \in DOMAIN given : \E k \in DOMAIN sorted : sorted[k] = given[n]
  <2> HIDE DEF given
  <2> QED BY <1>3, ChannelsSorted
<1>5. \/ f.channel # 0 /\ p.is = "package" /\ p.channels = sorted
      \/ /\ base0.channels = <<>> /\ p.is = "package"
         /\ p.channels = Pkg!setChannels(<<>>, Pkg!Alpha, f.version)
      \/ p = base0
  BY DEF Pkg!generate, Pkg!Package
<1>6. Pkg!setChannels(<<>>, Pkg!Alpha, f.version) \in Seq(Channel)
  <2>1. <<>> \in Seq(Channel) /\ Pkg!Alpha \in Nat BY DEF Pkg!Alpha
  <2> QED BY <1>1, <2>1, ChannelSet
<1> HIDE DEF base0, given, sorted, p
<1>7. p.is = "package" /\ p.channels \in Seq(Channel) BY <1>2, <1>4, <1>5, <1>6
<1>8. ASSUME NEW n \in DOMAIN base0.channels, base0.channels[n].name # f.channel
      PROVE  \E k \in DOMAIN p.channels : p.channels[k] = base0.channels[n]
  <2>1. CASE p.channels = sorted
    <3>1. n \in DOMAIN given /\ given[n] = base0.channels[n] BY <1>3, <1>8
    <3>2. \E k \in DOMAIN sorted : sorted[k] = given[n] BY <1>4, <3>1
    <3> QED BY <2>1, <3>1, <3>2
  <2>2. CASE base0.channels = <<>> BY <2>2
  <2>3. CASE p = base0 BY <2>3
  <2> QED BY <1>5, <2>1, <2>2, <2>3
<1> QED BY <1>2, <1>7, <1>8 DEF p

LEMMA ChannelStep ==
  ASSUME ChannelInputs, ChannelInv, [Pkg!Next]_(Pkg!vars)
  PROVE  /\ ChannelInv'
         /\ package.is = "package" /\ package'.is = "package" /\ pkgCmd.flags.sameDir =>
              \A n \in DOMAIN package.channels : package.channels[n].name # pkgCmd.flags.channel =>
                \E k \in DOMAIN package'.channels : package'.channels[k] = package.channels[n]
<1>1. CASE Pkg!WritePackage
  <2>1. pkgPc = "package" /\ pkgCmd' = pkgCmd /\ pkgPc' \in {"csv", "idle"}
        /\ (package' = Pkg!generate(pkgCmd.flags) \/ package' = package \/ package' = Pkg!Cut)
    BY <1>1 DEF Pkg!WritePackage, Pkg!Fail, Pkg!End
  <2>2. pkgCmd.flags \in Generates BY <2>1 DEF ChannelInv
  <2>3. CASE package' = Pkg!generate(pkgCmd.flags)
    <3> DEFINE f == pkgCmd.flags
               p == Pkg!generate(f)
    <3>1. /\ p.is = "package" /\ p.channels \in Seq(Channel)
          /\ package.is = "package" /\ f.sameDir => \A n \in DOMAIN package.channels :
                  package.channels[n].name # f.channel =>
                    \E k \in DOMAIN p.channels : p.channels[k] = package.channels[n]
      <4> HIDE DEF f
      <4>1. f \in Generates BY <2>2 DEF f
      <4> QED BY <4>1, GeneratedPackage
    <3>2. package' = p BY <2>3
    <3> HIDE DEF p
    <3> QED BY <2>1, <3>1, <3>2 DEF ChannelInv
  <2>4. CASE package' = package BY <2>1, <2>4 DEF ChannelInv
  <2>5. CASE package' = Pkg!Cut BY <2>1, <2>5 DEF ChannelInv, Pkg!Cut
  <2> QED BY <2>1, <2>3, <2>4, <2>5
<1>2. ASSUME package' = package, pkgPc' = "package" => pkgCmd'.flags \in Generates
      PROVE  /\ ChannelInv'
             /\ \A n \in DOMAIN package.channels :
                  \E k \in DOMAIN package'.channels : package'.channels[k] = package.channels[n]
  BY <1>2 DEF ChannelInv
<1>3. CASE Pkg!StartGenerate
  <2>1. PICK f \in Generates : pkgCmd' = [op |-> "generate", flags |-> f, images |-> FALSE]
    BY <1>3 DEF Pkg!StartGenerate
  <2>2. package' = package BY <1>3 DEF Pkg!StartGenerate
  <2> QED BY <2>1, <2>2, <1>2
<1>4. CASE Pkg!EditVersion \/ Pkg!RemoveBundles \/ UNCHANGED Pkg!vars
  <2>1. package' = package /\ pkgCmd' = pkgCmd /\ pkgPc' = pkgPc
    BY <1>4 DEF Pkg!EditVersion, Pkg!RemoveBundles, Pkg!vars
  <2> QED BY <2>1, <1>2 DEF ChannelInv
<1>5. CASE \/ Pkg!WriteCSV \/ Pkg!WriteObjects \/ Pkg!StartMigration \/ Pkg!CopyOperatorManifests
           \/ Pkg!WriteScorecardConfig \/ Pkg!GenerateMetadata \/ Pkg!BuildBundleImage
  <2>1. package' = package
    BY <1>5 DEF Pkg!WriteCSV, Pkg!WriteObjects, Pkg!StartMigration, Pkg!CopyOperatorManifests,
         Pkg!WriteScorecardConfig, Pkg!GenerateMetadata, Pkg!BuildBundleImage
  <2>2. pkgPc' # "package"
    BY <1>5 DEF Pkg!WriteCSV, Pkg!WriteObjects, Pkg!StartMigration, Pkg!CopyOperatorManifests,
         Pkg!WriteScorecardConfig, Pkg!GenerateMetadata, Pkg!BuildBundleImage,
         Pkg!Fail, Pkg!End, Pkg!NextVersion
  <2> QED BY <2>1, <2>2, <1>2
<1> QED BY <1>1, <1>3, <1>4, <1>5 DEF Pkg!Next

\* For all packages, versions and flags, and whatever failed before: generating
\* a version leaves the heads of the channels it does not name as they were
\* (setChannels, sortChannelsByName).
THEOREM OtherHeadsKept ==
  ASSUME ChannelInputs PROVE Pkg!Spec => ChannelsKept
<1>1. Pkg!Init => ChannelInv BY DEF Pkg!Init, ChannelInputs, ChannelInv
<1>2. ChannelInv /\ [Pkg!Next]_(Pkg!vars) => ChannelInv' BY ChannelStep
<1>3. ChannelInv /\ [Pkg!Next]_(Pkg!vars) => [Pkg!HeadsKept]_(Pkg!vars)
  BY ChannelStep DEF Pkg!HeadsKept, Pkg!ToSet
<1> QED BY <1>1, <1>2, <1>3, PTL DEF Pkg!Spec, ChannelsKept, Pkg!ChannelsKept
=============================================================================
