---------------------------- MODULE MCScorecard ----------------------------
(***************************************************************************)
(* Instances of Scorecard for TLC, its properties, and the mapping to what *)
(* a run promises (TestRun).                                               *)
(***************************************************************************)
EXTENDS Scorecard

(* A parallel stage of two tests, a stage the selector empties and a        *)
(* sequential stage of two tests.                                           *)
MCStages == << [parallel |-> TRUE,  tests |-> <<"a", "b">>],
               [parallel |-> FALSE, tests |-> <<"x">>],
               [parallel |-> FALSE, tests |-> <<"c", "d">>] >>
MCMatching == {"a", "b", "c", "d"}

(* A smaller instance for the runs about late requests and exit statuses.   *)
MCSmallStages == << [parallel |-> TRUE, tests |-> <<"a", "b">>] >>
MCSmallMatching == {"a", "b"}
-----------------------------------------------------------------------------
(* Results that have been reported, in the channel or in the list. *)
Reported == Range(items) \cup Range(output)

(* A test has the verdict of its reported result. *)
verdictBar ==
  [t \in Matching |->
     IF opts.list \/ ~\E r \in Reported : r.test = t THEN "none"
     ELSE IF \A r \in Reported : r.test = t => r.state = "pass" THEN "pass" ELSE "fail"]

(* A listing runs no test and counts as a run that failed to give verdicts. *)
outcomeBar ==
  IF pc /= "done" THEN "running"
  ELSE IF exit = "0" /\ ~opts.list THEN "ok" ELSE "failed"

Abstract == INSTANCE TestRun WITH Selected <- Matching, verdict <- verdictBar,
                                  outcome <- outcomeBar

(* The command implements TestRun: goroutines, time-outs and failing calls  *)
(* never lose or revise a verdict of Scorecard.Run, status 0 means that     *)
(* every selected test passed, and the command always ends.                 *)
ImplementsTestRun == Abstract!RunSpec

(* A test occupies the cluster while RunTest works on it after its creation *)
(* and as long as its container runs, also when nobody waits for it.        *)
Occupies(t) == step[t] \in {"wait", "gather", "logs"} \/ pod[t].phase \in {"running", "stray"}

(* u comes before t: in an earlier stage, or in the same sequential stage.  *)
Precedes(u, t) ==
  \E i, j \in DOMAIN Stages :
    /\ u \in selectTests(i) /\ t \in selectTests(j)
    /\ \/ i < j
       \/ /\ i = j /\ ~Stages[i].parallel
          /\ \E m, n \in DOMAIN Stages[i].tests :
               m < n /\ Stages[i].tests[m] = u /\ Stages[i].tests[n] = t

(* Stages run one after the other and the tests of a sequential stage one   *)
(* at a time (runStageParallel, runStageSequential): when a test occupies   *)
(* the cluster, every test before it has been reported, and a pod of one of *)
(* them still runs only if that test was given up and reported as failed    *)
(* (waitForTestToComplete: a failed read or the deadline; RunTest: a pod    *)
(* whose creation was given up).                                            *)
StagesIsolated ==
  \A t, u \in Matching :
    Precedes(u, t) /\ Occupies(t) =>
      \E r \in Reported : r.test = u /\ (Occupies(u) => r.state = "fail")

(* The run was initialised and Cleanup ran to its end. *)
CleanedUp ==
  /\ pc = "done" /\ ~opts.skipCleanup /\ stage = Len(Stages)
  /\ err \notin {"init", "cleanup"} /\ exit /= "panic"

(* Cleanup deletes pods and ConfigMap of a run, also after a time-out:      *)
(* unless it was switched off, failed itself or the process died, a run     *)
(* that was initialised leaves neither behind, but for a pod the server     *)
(* created after the client had given the request up.                       *)
NoRemainders ==
  CleanedUp => ~cm /\ \A t \in Tests : pod[t].phase \in {"none", "stray"}

(* The documentation of the exit status: 0 if all selected tests pass.      *)
ExitStatus ==
  exit = "0" /\ ~opts.list =>
    \A t \in Matching : \E i \in DOMAIN items : items[i] = [test |-> t, state |-> "pass"]
=============================================================================
