------------------------------ MODULE TestRun ------------------------------
(***************************************************************************)
(* What a scorecard run promises, without pods, time-outs or channels:     *)
(* every selected test is given at most one verdict, the run succeeds only *)
(* when every selected test has passed, and it always ends.  The detailed  *)
(* module Scorecard is shown to implement this one.                        *)
(***************************************************************************)
CONSTANT Selected    \* the tests the selector picks

VARIABLES
  verdict,   \* verdict[t]: "none" until the test has been reported
  outcome    \* "running" until the run ends, then "ok" or "failed"

runVars == <<verdict, outcome>>

Verdicts == {"pass", "fail"}

RunInit ==
  /\ verdict = [t \in Selected |-> "none"]
  /\ outcome = "running"

(* One test is reported, in any order, and never revised. *)
Report(t) ==
  /\ outcome = "running"
  /\ verdict[t] = "none"
  /\ \E v \in Verdicts : verdict' = [verdict EXCEPT ![t] = v]
  /\ UNCHANGED outcome

(* Success needs a passing verdict of every selected test. *)
Succeed ==
  /\ outcome = "running"
  /\ \A t \in Selected : verdict[t] = "pass"
  /\ outcome' = "ok"
  /\ UNCHANGED verdict

(* A run may fail at any time. *)
Fail ==
  /\ outcome = "running"
  /\ outcome' = "failed"
  /\ UNCHANGED verdict

RunNext == Succeed \/ Fail \/ \E t \in Selected : Report(t)

(* Every run ends. *)
RunEnds == <>(outcome /= "running")

(* What a run never does wrong. *)
RunSafety == RunInit /\ [][RunNext]_runVars

RunSpec == RunSafety /\ RunEnds
=============================================================================
