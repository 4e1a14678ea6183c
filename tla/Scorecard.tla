----------------------------- MODULE Scorecard -----------------------------
(***************************************************************************)
(* The scorecard command (internal/cmd/operator-sdk/scorecard/cmd.go and   *)
(* internal/scorecard): it stores the bundle in a ConfigMap, runs the      *)
(* selected tests stage by stage in pods labelled with that ConfigMap,     *)
(* collects one result per test through a buffered channel, cleans up and  *)
(* prints.  The goroutines of a parallel stage, the pods, the deadline of  *)
(* the command and requests that the API server applies after the client   *)
(* gave up interleave freely.                                              *)
(***************************************************************************)
EXTENDS Integers, Sequences, FiniteSets, SequencesExt, Functions

CONSTANTS
  Stages,      \* sequence of [parallel : BOOLEAN, tests : Seq(tests)]
  Matching,    \* the tests whose labels match the selector
  Stored,      \* the tests with a storage mount path of their own
  DefaultPath, \* whether the configuration has a default mount path
  Logs,        \* what a test container can print
  Faults,      \* whether API calls may fail although the deadline is not reached
  LateCalls    \* whether a call that the client gave up may be applied later

Tests == UNION {Range(Stages[i].tests) : i \in DOMAIN Stages}

ASSUME ScorecardAssumption ==
  /\ \A i, j \in DOMAIN Stages : i /= j =>
       Range(Stages[i].tests) \cap Range(Stages[j].tests) = {}
  /\ \A i \in DOMAIN Stages : IsInjective(Stages[i].tests)
  /\ Stages \in Seq([parallel : BOOLEAN, tests : Seq(Tests)])
  /\ Matching \subseteq Tests /\ Stored \subseteq Tests
  /\ "cm" \notin Tests   \* the ConfigMap's tag among the late creations
  /\ Logs \subseteq {"pass", "fail", "error", "unknown", "empty", "garbage", "null"}
  /\ {DefaultPath, Faults, LateCalls} \subseteq BOOLEAN

VARIABLES
  opts,      \* the flags --list and --skip-cleanup
  pc,        \* where Run and its caller are
  stage,     \* index of the stage being run
  expired,   \* the context of the command is done
  cm,        \* the bundle ConfigMap is on the cluster
  step,      \* step[t]: how far RunTest is for test t
  pod,       \* pod[t]: the pod of test t on the cluster
  log,       \* log[t]: what its test container printed
  late,      \* creations the server still may apply after the client gave up
  output,    \* the stage's channel of results
  items,     \* testOutput.Items
  err,       \* the error Run returns
  ctxErr,    \* the named result of Run: the deadline error seen before Cleanup
  exit       \* how the process ended

progVars == <<pc, stage, err, ctxErr, exit>>
clusterVars == <<cm, pod, log, late>>
vars == <<opts, progVars, clusterVars, expired, step, output, items>>

PodPhases == {"none", "running", "terminated", "stray"}
NoPod == [phase |-> "none", testrun |-> FALSE, sidecar |-> FALSE]
Steps == {"idle", "create", "wait", "gather", "logs", "sent"}
States == {"pass", "fail", "error", "unknown", "empty"}

(* selectTests: the tests of a stage that match the selector; they keep the *)
(* order of the stage.                                                      *)
selectTests(i) == Range(Stages[i].tests) \cap Matching

Selected == Matching

(* setTestDefaults: a test without a mount path takes the default one. *)
HasStorage(t) == t \in Stored \/ DefaultPath

(* make(chan, len(tests)): room for one result of every test of the stage. *)
Capacity == Cardinality(selectTests(stage))

Init ==
  /\ opts \in [list : BOOLEAN, skipCleanup : BOOLEAN]
  /\ pc = "setup" /\ stage = 0 /\ expired = FALSE
  /\ cm = FALSE /\ late = {}
  /\ step = [t \in Tests |-> "idle"]
  /\ pod = [t \in Tests |-> NoPod]
  /\ log = [t \in Tests |-> "none"]
  /\ output = <<>> /\ items = <<>>
  /\ err = "none" /\ ctxErr = "none" /\ exit = "running"

(* convertErrorToStatus: an error of the runner is a failed result. *)
convertErrorToStatus(t) == [test |-> t, state |-> "fail"]

(* getTestStatus: the printed JSON is the status; anything that does not    *)
(* parse is a failed result.                                                *)
getTestStatus(t) ==
  [test |-> t, state |-> IF log[t] = "garbage" THEN "fail" ELSE log[t]]

(* hasFailingTest: some result is not a pass; a test without any result     *)
(* contributes none.                                                        *)
hasFailingTest(list) == \E i \in DOMAIN list : list[i].state \notin {"pass", "empty"}

(* End the process; os.Exit and a returned error are the same to the caller. *)
Exit(code) ==
  /\ pc' = "done" /\ exit' = code
  /\ UNCHANGED <<opts, stage, expired, clusterVars, step, output, items, err, ctxErr>>

(* run: find the bundle and its metadata, load the configuration, parse the *)
(* selector and build the client; any failure ends the command.             *)
Setup ==
  /\ pc = "setup"
  /\ \/ Exit("1")
     \/ ~opts.list /\ pc' = "bundle"
        /\ UNCHANGED <<opts, stage, expired, clusterVars, step, output, items, err, ctxErr, exit>>

(* The selected tests of all stages, in their order. *)
Listed ==
  SelectSeq(FlattenSeq([j \in DOMAIN Stages |-> Stages[j].tests]), LAMBDA t : t \in Matching)

(* List: the selected tests are printed without results. *)
List ==
  /\ pc = "setup" /\ opts.list
  /\ items' = [i \in DOMAIN Listed |-> [test |-> Listed[i], state |-> "empty"]]
  /\ pc' = "done" /\ exit' = "0"
  /\ UNCHANGED <<opts, stage, expired, clusterVars, step, output, err, ctxErr>>

(* The deadline --wait-time of the command passes. *)
Expire ==
  /\ pc \notin {"setup", "done"} /\ ~expired
  /\ expired' = TRUE
  /\ UNCHANGED <<opts, progVars, clusterVars, step, output, items>>

CallFails == expired \/ Faults

(* Initialize: the bundle is read into a tarball; an error returns from Run *)
(* at once, without Cleanup.                                                *)
getBundleData ==
  /\ pc = "bundle"
  /\ \/ pc' = "configMap" /\ UNCHANGED err
     \/ Faults /\ pc' = "report" /\ err' = "init"
  /\ UNCHANGED <<opts, stage, expired, clusterVars, step, output, items, ctxErr, exit>>

(* Initialize goes on to create the ConfigMap that holds the tarball; its   *)
(* errors are wrapped, so a deadline met here is not the bare context error. *)
CreateConfigMap ==
  /\ pc = "configMap"
  /\ \/ ~expired /\ cm' = TRUE /\ pc' = "stages" /\ UNCHANGED <<late, err>>
     \/ CallFails /\ pc' = "report" /\ err' = "init" /\ UNCHANGED cm
        /\ late' \in {late} \cup (IF expired /\ LateCalls THEN {late \cup {"cm"}} ELSE {})
  /\ UNCHANGED <<opts, stage, expired, pod, log, step, output, items, ctxErr, exit>>

(* The loop over the stages; a stage without selected tests is skipped. *)
NextStage ==
  /\ pc = "stages" /\ stage < Len(Stages)
  /\ stage' = stage + 1 /\ output' = <<>>
  /\ IF selectTests(stage + 1) = {}
       THEN UNCHANGED <<pc, step>>
       ELSE /\ pc' = "tests"
            /\ step' = [t \in Tests |-> IF t \in selectTests(stage + 1)
                                          THEN "create" ELSE step[t]]
  /\ UNCHANGED <<opts, expired, clusterVars, items, err, ctxErr, exit>>

(* Mutant: the tests of a sequential stage are started like a parallel one. *)
MayRunAtOnce(t) == TRUE

(* runStageParallel starts a goroutine per test; runStageSequential runs a  *)
(* test once the ones before it have delivered their result.                *)
MayRun(t) ==
  LET ts == Stages[stage].tests
  IN  \A i, j \in DOMAIN ts :
        ts[j] = t /\ i < j /\ ts[i] \in Matching /\ ~Stages[stage].parallel
          => step[ts[i]] = "sent"

(* results <- runTest(...): the send needs room in the channel. *)
Deliver(t, result) ==
  /\ Len(output) < Capacity
  /\ output' = Append(output, result)
  /\ step' = [step EXCEPT ![t] = "sent"]

TestStep(t, s) == pc = "tests" /\ step[t] = s

(* addStorageToPod: a sidecar that keeps the storage volume readable. *)
addStorageToPod(p) == [p EXCEPT !.sidecar = TRUE]

(* getPodDefinition: the pod of a test carries the label of its run. *)
getPodDefinition == [phase |-> "running", testrun |-> TRUE, sidecar |-> FALSE]

PodFor(t) == IF HasStorage(t) THEN addStorageToPod(getPodDefinition) ELSE getPodDefinition

(* RunTest: create the pod of the test; with the deadline over the client   *)
(* returns the context's error, and a request already sent may still reach  *)
(* the server.                                                              *)
CreatePod(t) ==
  /\ TestStep(t, "create") /\ MayRun(t)
  /\ \/ ~expired /\ pod' = [pod EXCEPT ![t] = PodFor(t)]
        /\ step' = [step EXCEPT ![t] = "wait"] /\ UNCHANGED <<output, late>>
     \/ CallFails /\ Deliver(t, convertErrorToStatus(t)) /\ UNCHANGED pod
        /\ late' \in {late} \cup (IF expired /\ LateCalls THEN {late \cup {t}} ELSE {})
  /\ UNCHANGED <<opts, progVars, expired, cm, log, items>>

(* waitForTestToComplete: poll the pod until its test container has         *)
(* terminated, the read fails or the context is done.                       *)
WaitForTest(t) ==
  /\ TestStep(t, "wait")
  /\ \/ ~expired /\ pod[t].phase = "terminated" /\ UNCHANGED output
        /\ step' = [step EXCEPT ![t] = IF HasStorage(t) THEN "gather" ELSE "logs"]
     \/ CallFails /\ Deliver(t, convertErrorToStatus(t))
  /\ UNCHANGED <<opts, progVars, expired, clusterVars, items>>

(* execInPod: tar runs in the sidecar; without one the stream fails. *)
execInPod(t) == pod[t].sidecar

(* gatherTestOutput: tar the mount path in the sidecar and unpack it.  A    *)
(* stream that fails is logged and closes its pipe, which reads as the end  *)
(* of the archive: the output is lost and the test goes on.  The error is   *)
(* returned if there is no executor, if the archive is cut short or cannot  *)
(* be unpacked, and if the stream fails before execInPod reads err, which   *)
(* the stream's goroutine writes.  The stream has a context of its own, so  *)
(* the deadline does not end it.                                            *)
GatherOutput(t) ==
  /\ TestStep(t, "gather")
  /\ \/ step' = [step EXCEPT ![t] = "logs"] /\ UNCHANGED output
     \/ (Faults \/ ~execInPod(t)) /\ Deliver(t, convertErrorToStatus(t))
  /\ UNCHANGED <<opts, progVars, expired, clusterVars, items>>

(* getTestStatus reads the log; the JSON document null leaves a nil status  *)
(* behind, which runTest dereferences: the process dies.                    *)
ReadLog(t) ==
  /\ TestStep(t, "logs")
  /\ \/ ~expired /\ log[t] /= "null" /\ Deliver(t, getTestStatus(t))
        /\ UNCHANGED <<opts, progVars, expired, clusterVars, items>>
     \/ CallFails /\ Deliver(t, convertErrorToStatus(t))
        /\ UNCHANGED <<opts, progVars, expired, clusterVars, items>>
     \/ ~expired /\ log[t] = "null" /\ Exit("panic")

(* Mutant: a stage replaces the results of the stage before it. *)
CollectOverwrites ==
  /\ pc = "tests"
  /\ \A t \in selectTests(stage) : step[t] = "sent"
  /\ items' = output /\ output' = <<>>
  /\ pc' = "stages"
  /\ UNCHANGED <<opts, stage, expired, clusterVars, step, err, ctxErr, exit>>

(* wg.Wait (or the end of the sequential loop), close the channel and       *)
(* append its results to the list.                                          *)
CollectStage ==
  /\ pc = "tests"
  /\ \A t \in selectTests(stage) : step[t] = "sent"
  /\ items' = items \o output /\ output' = <<>>
  /\ pc' = "stages"
  /\ UNCHANGED <<opts, stage, expired, clusterVars, step, err, ctxErr, exit>>

(* Mutant: a time-out returns before Cleanup. *)
CheckDeadlineReturns ==
  /\ pc = "stages" /\ stage = Len(Stages)
  /\ ctxErr' = IF expired THEN "deadline" ELSE "none"
  /\ err' = ctxErr'
  /\ pc' = IF opts.skipCleanup \/ expired THEN "report" ELSE "deletePods"
  /\ UNCHANGED <<opts, stage, expired, clusterVars, step, output, items, exit>>

(* After the last stage the deadline is looked at, before Cleanup. *)
CheckDeadline ==
  /\ pc = "stages" /\ stage = Len(Stages)
  /\ ctxErr' = IF expired THEN "deadline" ELSE "none"
  /\ err' = ctxErr'
  /\ pc' = IF opts.skipCleanup THEN "report" ELSE "deletePods"
  /\ UNCHANGED <<opts, stage, expired, clusterVars, step, output, items, exit>>

(* Cleanup, with a context of its own: the pods labelled with the ConfigMap, *)
(* then the ConfigMap; its error replaces the one Run had.                  *)
DeletePods ==
  /\ pc = "deletePods"
  /\ \/ /\ pod' = [t \in Tests |-> IF pod[t].testrun THEN NoPod ELSE pod[t]]
        /\ pc' = "deleteConfigMap" /\ UNCHANGED err
     \/ Faults /\ err' = "cleanup" /\ pc' = "report" /\ UNCHANGED pod
  /\ UNCHANGED <<opts, stage, expired, cm, log, late, step, output, items, ctxErr, exit>>

DeleteConfigMap ==
  /\ pc = "deleteConfigMap" /\ pc' = "report"
  /\ \/ cm' = FALSE /\ UNCHANGED err
     \/ Faults /\ err' = "cleanup" /\ UNCHANGED cm
  /\ UNCHANGED <<opts, stage, expired, pod, log, late, step, output, items, ctxErr, exit>>

(* The caller of Run: an error ends the command with 1, and only a bare     *)
(* deadline error prints the results; otherwise they are printed and the    *)
(* status says whether one of them is not a pass.  What is printed is left  *)
(* out.                                                                     *)
PrintAndExit ==
  /\ pc = "report"
  /\ Exit(IF err /= "none" \/ hasFailingTest(items) THEN "1" ELSE "0")

(* The test container of t ends and has printed l. *)
PodTerminates(t) ==
  /\ pod[t].phase = "running"
  /\ pod' = [pod EXCEPT ![t].phase = "terminated"]
  /\ \E l \in Logs : log' = [log EXCEPT ![t] = l]
  /\ UNCHANGED <<opts, progVars, cm, late, expired, step, output, items>>

(* The server applies a creation whose client gave up: a pod nobody waits for. *)
ApplyLate(x) ==
  /\ x \in late /\ late' = late \ {x}
  /\ IF x = "cm" THEN cm' = TRUE /\ UNCHANGED pod
                 ELSE pod' = [pod EXCEPT ![x] = [PodFor(x) EXCEPT !.phase = "stray"]] /\ UNCHANGED cm
  /\ UNCHANGED <<opts, progVars, log, expired, step, output, items>>

RunTest(t) == CreatePod(t) \/ WaitForTest(t) \/ GatherOutput(t) \/ ReadLog(t)

Run ==
  \/ Setup \/ List \/ getBundleData \/ CreateConfigMap \/ NextStage \/ CollectStage \/ CheckDeadline
  \/ DeletePods \/ DeleteConfigMap \/ PrintAndExit
  \/ \E t \in Tests : RunTest(t)

Next ==
  \/ Run \/ Expire
  \/ \E t \in Tests : PodTerminates(t)
  \/ \E x \in late : ApplyLate(x)

(* The program keeps running, every goroutine of a stage is scheduled and   *)
(* the deadline passes; a test container need not end.  The stream of       *)
(* gatherTestOutput is assumed to end: nothing in the code bounds it        *)
(* (context.TODO(), storage.go:71).                                         *)
Spec ==
  /\ Init /\ [][Next]_vars
  /\ WF_vars(Run) /\ WF_vars(Expire)
  /\ \A t \in Tests : WF_vars(RunTest(t))
=============================================================================
