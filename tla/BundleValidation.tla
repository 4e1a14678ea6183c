-------------------------- MODULE BundleValidation --------------------------
(***************************************************************************)
(* `bundle validate` (internal/cmd/operator-sdk/bundle/validate,           *)
(* internal/validate, internal/registry/validate.go): the bundle is found  *)
(* or unpacked, validated by the built-in, the selected optional and the   *)
(* external validators, and the findings decide the exit code.  External   *)
(* validators are processes whose standard output is a pipe of bounded     *)
(* size; they run beside the decoder that reads it.                        *)
(***************************************************************************)
EXTENDS Integers, Sequences, FiniteSets

CONSTANTS
  Bundles,       \* [image, readable, format, media, objects, csv, crds, self]
  Selections,    \* what --select-optional may select: sets of optional validators
  OptionalBad,   \* the optional validators that report an error on the bundle
  Entrypoints,   \* sequences of external validators [starts, chunks, exit]
  PipeSize,      \* chunks a pipe holds
  MaxFaults      \* bound on failing system calls

VARIABLES
  bundle, selected, entrypoints,   \* the input
  res,        \* the Result: the levels of its outputs
  pending,    \* manifest results of external validators, not yet in res
  i,          \* the external validator at work
  proc,       \* its process: "none", "running" or "exited"
  written,    \* chunks it has written
  pipe,       \* chunks written and not read
  decoded,    \* the decoder: "reading", "passed", "failed" or "error"
  deferred,   \* clean-ups that are registered
  left,       \* directories that exist because of the command
  faults, pc, exit

input == <<bundle, selected, entrypoints>>
child == <<proc, written, pipe, decoded>>
vars == <<input, res, pending, i, child, deferred, left, faults, pc, exit>>

Init ==
  /\ bundle \in Bundles /\ selected \in Selections /\ entrypoints \in Entrypoints
  /\ res = {} /\ pending = <<>> /\ i = 1
  /\ proc = "none" /\ written = 0 /\ pipe = <<>> /\ decoded = "reading"
  /\ deferred = {} /\ left = {} /\ faults = 0 /\ pc = "start" /\ exit = "none"

(* run returns: the registered clean-ups run, and the process exits. *)
Return(code) ==
  /\ pc' = "done" /\ exit' = code
  /\ left' = left \ deferred /\ deferred' = {}

Fault == faults < MaxFaults /\ faults' = faults + 1

(* The image registry keeps a cache that Destroy removes. *)
NewImageRegistry ==
  /\ pc = "start"
  /\ \/ left' = {"cache"} /\ deferred' = {"cache"} /\ pc' = "find" /\ UNCHANGED <<faults, exit>>
     \/ Fault /\ Return("fatal")
  /\ UNCHANGED <<input, res, pending, i, child>>

(* A directory is used as it is; an image is unpacked into a temporary one, *)
(* whose removal is registered before the image is pulled.                  *)
FindBundle ==
  /\ pc = "find"
  /\ \/ ~bundle.image /\ pc' = "read" /\ UNCHANGED <<left, deferred, faults, exit>>
     \/ /\ bundle.image
        /\ \/ /\ left' = left \cup {"unpacked"} /\ deferred' = deferred \cup {"unpacked"}
              /\ pc' = "read" /\ UNCHANGED <<faults, exit>>
           \/ Fault /\ Return("fatal")
  /\ UNCHANGED <<input, res, pending, i, child>>

(* getBundleDataFromDir *)
ReadBundle ==
  /\ pc = "read"
  /\ IF bundle.readable THEN pc' = "format" /\ UNCHANGED <<left, deferred, exit>>
     ELSE Return("fatal")
  /\ UNCHANGED <<input, res, pending, i, child, faults>>

(* AddManifestResults: the warnings and the errors of every result. *)
Levels(r) == {l \in {"warning", "error"} : (IF l = "error" THEN r.errors ELSE r.warnings) > 0}
AddManifestResults(to, results) == to \cup UNION {Levels(results[k]) : k \in DOMAIN results}

ValidateFormat ==
  /\ pc = "format"
  /\ res' = (IF bundle.format THEN res ELSE res \cup {"error"})
  /\ pc' = "content"
  /\ UNCHANGED <<input, pending, i, child, deferred, left, faults, exit>>

Finding(name, errors, warnings) == [name |-> name, errors |-> errors, warnings |-> warnings]

(* Mutant: a result of the same name is replaced. *)
appendResultInstead(results, r) ==
  LET same == {k \in DOMAIN results : results[k].name = r.name}
  IN  IF same = {} THEN Append(results, r)
      ELSE [results EXCEPT ![CHOOSE k \in same : \A l \in same : k <= l] = r]

(* appendResult: errors and warnings are added to the first result of that  *)
(* name.                                                                    *)
appendResult(results, r) ==
  LET same == {k \in DOMAIN results : results[k].name = r.name}
      first == CHOOSE k \in same : \A l \in same : k <= l
  IN  IF same = {} THEN Append(results, r)
      ELSE [results EXCEPT ![first] = Finding(@.name, @.errors + r.errors, @.warnings + r.warnings)]

(* An object other than CSV and CRD is an error if its kind is not          *)
(* supported by the format of the bundle, or else if its metadata is bad.   *)
BadObjects(b) ==
  Cardinality({o \in b.objects : (b.media = "registry" /\ ~o.supported) \/ ~o.meta})

(* ValidateBundleContent: Helm bundles are not looked into; the validators  *)
(* of the bundle and its CSV name their results after the CSV.              *)
ValidateBundleContent(b) ==
  IF b.media = "helm" THEN <<Finding("bundle", 0, 0)>>
  ELSE appendResult(
         <<Finding("bundle", b.self, 0), Finding("bundle", b.csv, 1)>>
           \o [k \in DOMAIN b.crds |-> Finding("crd", b.crds[k], 0)],
         Finding("bundle", BadObjects(b), 0))

ValidateContent ==
  /\ pc = "content"
  /\ res' = AddManifestResults(res, ValidateBundleContent(bundle))
  /\ pc' = "optional"
  /\ UNCHANGED <<input, pending, i, child, deferred, left, faults, exit>>

(* validators.run: one result for every validator the selector matches. *)
RunOptionalValidators ==
  /\ pc = "optional"
  /\ res' = AddManifestResults(res,
              [k \in 1 .. Cardinality(selected \cap OptionalBad) |-> Finding("optional", 1, 0)])
  /\ pc' = "external"
  /\ UNCHANGED <<input, pending, i, child, deferred, left, faults, exit>>

---------------------------------------------------------------------------
(* External validators: RunExternalValidators *)

(* What a validator prints: a part of a JSON value; the end of a            *)
(* ManifestResult without or with errors; the end of a Result, whose fields *)
(* a ManifestResult does not have; no JSON.                                 *)
Chunk == {"part", "passed", "failed", "Result", "syntax"}

Entry == entrypoints[i]

StartValidator ==
  /\ pc = "external" /\ i <= Len(entrypoints)
  /\ IF Entry.starts
     THEN /\ proc' = "running" /\ written' = 0 /\ pipe' = <<>> /\ decoded' = "reading"
          /\ pc' = "decode" /\ UNCHANGED <<left, deferred, exit>>
     ELSE Return("fatal") /\ UNCHANGED child
  /\ UNCHANGED <<input, res, pending, i, faults>>

(* The process writes while there is room in the pipe and exits when it has *)
(* written everything.                                                      *)
ProcessWrite ==
  /\ proc = "running" /\ written < Len(Entry.chunks) /\ Len(pipe) < PipeSize
  /\ written' = written + 1 /\ pipe' = Append(pipe, Entry.chunks[written + 1])
  /\ UNCHANGED <<input, res, pending, i, proc, decoded, deferred, left, faults, pc, exit>>

ProcessExit ==
  /\ proc = "running" /\ written = Len(Entry.chunks)
  /\ proc' = "exited"
  /\ UNCHANGED <<input, res, pending, i, written, pipe, decoded, deferred, left, faults, pc, exit>>

(* The decoder reads one JSON value, or up to a syntax error or the end of  *)
(* the output.  Unknown fields are an error, and nothing reads on: further  *)
(* values stay in the pipe.                                                 *)
DecodeNext ==
  /\ \/ /\ pipe /= <<>> /\ Head(pipe) = "part"
        /\ pipe' = Tail(pipe) /\ UNCHANGED <<decoded, pc>>
     \/ /\ pipe /= <<>> /\ Head(pipe) /= "part"
        /\ pipe' = Tail(pipe) /\ pc' = "wait"
        /\ decoded' = (IF Head(pipe) \in {"passed", "failed"} THEN Head(pipe) ELSE "error")
     \/ /\ pipe = <<>> /\ proc = "exited"
        /\ pc' = "wait" /\ decoded' = "error" /\ UNCHANGED pipe
  /\ UNCHANGED <<input, res, pending, i, proc, written, deferred, left, faults, exit>>

(* Mutant: the output is read once the process has exited. *)
DecodeAfterExit == pc = "decode" /\ proc = "exited" /\ DecodeNext

Decode == pc = "decode" /\ DecodeNext

(* Wait returns when the process has exited.  Its exit code is looked at    *)
(* before the decoder's error.  The result is the one value decoded.        *)
Wait ==
  /\ pc = "wait" /\ proc = "exited"
  /\ IF Entry.exit /= 0 \/ decoded = "error" THEN Return("fatal") /\ UNCHANGED <<pending, i>>
     ELSE /\ pending' = Append(pending, Finding("external", IF decoded = "failed" THEN 1 ELSE 0, 0))
          /\ i' = i + 1 /\ pc' = "external" /\ UNCHANGED <<left, deferred, exit>>
  /\ proc' = "none"
  /\ UNCHANGED <<input, res, written, pipe, decoded, faults>>

ExternalDone ==
  /\ pc = "external" /\ i > Len(entrypoints)
  /\ res' = AddManifestResults(res, pending) /\ pending' = <<>>
  /\ pc' = "print"
  /\ UNCHANGED <<input, i, child, deferred, left, faults, exit>>

(* prepare, RunE: one error among the outputs makes the command fail. *)
PrintWithFormat ==
  /\ pc = "print"
  /\ Return(IF "error" \in res THEN "failed" ELSE "ok")
  /\ UNCHANGED <<input, res, pending, i, child, faults>>

Validate ==
  \/ NewImageRegistry \/ FindBundle \/ ReadBundle \/ ValidateFormat \/ ValidateContent
  \/ RunOptionalValidators \/ StartValidator \/ Decode \/ Wait \/ ExternalDone \/ PrintWithFormat

Process == ProcessWrite \/ ProcessExit

Next == Validate \/ Process

(* The command runs on, and an external validator that can write or exit    *)
(* does so.                                                                 *)
Fairness == WF_vars(Validate) /\ WF_vars(Process)

Spec == Init /\ [][Next]_vars /\ Fairness

---------------------------------------------------------------------------
Values(e) == {k \in DOMAIN e.chunks : e.chunks[k] /= "part"}
First(e) == CHOOSE k \in Values(e) : \A l \in Values(e) : k <= l

(* The first value a validator prints. *)
FirstValue(e) == IF Values(e) = {} THEN "none" ELSE e.chunks[First(e)]

(* A ManifestResult to begin with, and exit code 0. *)
Conforms(e) == e.starts /\ e.exit = 0 /\ FirstValue(e) \in {"passed", "failed"}

Sound ==
  /\ bundle.format
  /\ bundle.media /= "helm" =>
       /\ bundle.self = 0 /\ bundle.csv = 0 /\ BadObjects(bundle) = 0
       /\ \A k \in DOMAIN bundle.crds : bundle.crds[k] = 0
  /\ selected \cap OptionalBad = {}
  /\ \A k \in DOMAIN entrypoints : FirstValue(entrypoints[k]) /= "failed"

(* The exit code (RunE, run, RunExternalValidators): fatal exactly if       *)
(* something the command was asked to run did not run, or an external       *)
(* validator did not begin with a ManifestResult and exit with 0; else      *)
(* success exactly if no built-in or optional validator found an error and  *)
(* the first result of every external validator has none.                   *)
VerdictExact ==
  pc = "done" =>
    /\ exit = "fatal" <=> (faults > 0 \/ ~bundle.readable
                           \/ \E k \in DOMAIN entrypoints : ~Conforms(entrypoints[k]))
    /\ exit /= "fatal" => (exit = "ok" <=> Sound)

(* "take each of the ManifestResults and print to STDOUT"                   *)
(* (website/content/en/docs/advanced-topics/custom-bundle-validation.md):   *)
(* no bundle passes for which a validator that does so printed an error.    *)
(* The code reads the first result only (external.go:67).                   *)
EveryResultCounts ==
  pc = "done" /\ exit = "ok" =>
    \A k \in DOMAIN entrypoints : \A l \in DOMAIN entrypoints[k].chunks :
      entrypoints[k].chunks[l] /= "failed"

(* What a validator prints after its first value, which nothing reads. *)
Unread(e) == IF Values(e) = {} THEN 0 ELSE Len(e.chunks) - First(e)

(* The command ends (external.go: "Always wait for the command to finish"), *)
(* however long the first value is and whenever validators write or exit,   *)
(* provided that what they print after the first value fits into the pipe.  *)
(* Otherwise the validator waits for a reader and the command for the       *)
(* validator.                                                               *)
Returns == (\A k \in DOMAIN entrypoints : Unread(entrypoints[k]) <= PipeSize) => <>(pc = "done")
=============================================================================
