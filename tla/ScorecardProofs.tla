-------------------------- MODULE ScorecardProofs --------------------------
(***************************************************************************)
(* Theorems about the scorecard command, for every list of stages, every   *)
(* selector and whatever the test containers print, with and without       *)
(* failing and late API calls.                                             *)
(***************************************************************************)
EXTENDS MCScorecard, SequenceTheorems, TLAPS

-----------------------------------------------------------------------------
(* The inductive invariant. *)

Working == {"create", "wait", "gather", "logs"}

AfterStages == {"deletePods", "deleteConfigMap", "report"}

Results == [test : Tests, state : Logs \cup {"none", "fail"}]

\* Types, as far as the proofs need them; a listing's items are left open.
Typed ==
  /\ stage \in 0 .. Len(Stages)
  /\ step \in [Tests -> Steps]
  /\ pod \in [Tests -> [phase : PodPhases, testrun : BOOLEAN, sidecar : BOOLEAN]]
  /\ log \in [Tests -> Logs \cup {"none"}]
  /\ late \subseteq Tests \cup {"cm"}
  /\ pc \in {"setup", "bundle", "configMap", "stages", "tests", "done"} \cup AfterStages
  /\ pc \notin {"setup", "done"} => ~opts.list
  /\ pc # "done" => exit = "running"
  /\ ~opts.list => items \in Seq(Results) /\ output \in Seq(Results)

\* Only the tests of the present stage are at work, and only while it runs or
\* after the process died in it.
WorkInv ==
  /\ \A t \in Tests : step[t] \in Working =>
       pc \in {"tests", "done"} /\ stage > 0 /\ t \in selectTests(stage)
  /\ pc = "tests" => stage > 0
  /\ opts.list => \A t \in Tests : step[t] = "idle"
  /\ \A j \in DOMAIN Stages : j > stage => \A t \in selectTests(j) : step[t] = "idle"
  /\ pc \in {"setup", "bundle", "configMap"} =>
       stage = 0 /\ items = <<>> /\ output = <<>> /\ \A t \in Tests : step[t] = "idle"
  /\ pc \in {"stages"} \cup AfterStages => output = <<>>

Started(t) == step[t] \in {"wait", "gather", "logs", "sent"}

\* A test is started when the ones before it have been sent.
OrderInv ==
  \A t, u \in Matching : Precedes(u, t) /\ Started(t) => step[u] = "sent"

\* Results are of selected tests that have been sent, and no sent test of a
\* stage is without its result.
ResultsInv ==
  ~opts.list =>
    /\ \A r \in Reported : r.test \in Matching /\ step[r.test] = "sent"
    /\ \A j \in DOMAIN Stages : \A u \in selectTests(j) :
         j < stage \/ (j = stage /\ pc = "stages") => \E r \in Range(items) : r.test = u
    /\ pc = "tests" => \A u \in selectTests(stage) : step[u] = "sent" =>
         \E r \in Range(output) : r.test = u
    /\ pc \in AfterStages /\ err = "none" =>
         \A u \in Matching : \E r \in Range(items) : r.test = u
    /\ \A u \in Matching : step[u] = "sent" => \E r \in Reported : r.test = u

\* A container that has started belongs to a test that has, and nobody reads
\* the log of one that runs.
PodInv ==
  \A t \in Tests :
    /\ pod[t].phase # "none" => Started(t)
    /\ step[t] \in {"gather", "logs"} => pod[t].phase \notin {"running", "stray"}
    /\ t \in late => step[t] = "sent"

\* A test whose container runs, or may still be created, has been given up.
GivenUpInv ==
  ~opts.list => \A r \in Reported :
    r.test \in late \/ pod[r.test].phase \in {"running", "stray"} => r.state = "fail"

\* Pods are labelled, and no pod but a stray one and no ConfigMap outlives
\* Cleanup.
CleanInv ==
  /\ \A t \in Tests : pod[t].phase \in {"running", "terminated"} => pod[t].testrun
  /\ pc \in {"setup", "bundle", "configMap"} =>
       ~cm /\ late = {} /\ err = "none" /\ \A t \in Tests : pod[t].phase = "none"
  /\ "cm" \in late => pc \in {"report", "done"} /\ err = "init"
  /\ pc = "deleteConfigMap" => \A t \in Tests : pod[t].phase \in {"none", "stray"}
  /\ pc \in {"report", "done"} /\ ~opts.skipCleanup /\ stage = Len(Stages)
       /\ err \notin {"init", "cleanup"} /\ exit /= "panic" =>
       ~cm /\ \A t \in Tests : pod[t].phase \in {"none", "stray"}

ScorecardInv ==
  Typed /\ WorkInv /\ OrderInv /\ ResultsInv /\ PodInv /\ GivenUpInv /\ CleanInv

-----------------------------------------------------------------------------
(* Facts about stages and lists. *)

\* The stages split the tests; a selected test is in exactly one of them.
LEMMA StageFacts ==
  /\ DOMAIN Stages = 1 .. Len(Stages) /\ Len(Stages) \in Nat
  /\ \A i \in DOMAIN Stages : selectTests(i) \subseteq Tests /\ selectTests(i) \subseteq Matching
  /\ \A i, j \in DOMAIN Stages : i # j => selectTests(i) \cap selectTests(j) = {}
  /\ \A u \in Matching : \E j \in DOMAIN Stages : u \in selectTests(j)
<1>1. DOMAIN Stages = 1 .. Len(Stages) /\ Len(Stages) \in Nat
  BY ScorecardAssumption
<1>2. \A i \in DOMAIN Stages : Range(Stages[i].tests) \subseteq Tests
  BY DEF Tests
<1>3. \A u \in Matching : \E j \in DOMAIN Stages : u \in Range(Stages[j].tests)
  BY ScorecardAssumption DEF Tests
<1>4. \A i, j \in DOMAIN Stages : i # j =>
        Range(Stages[i].tests) \cap Range(Stages[j].tests) = {}
  BY ScorecardAssumption
<1> QED BY <1>1, <1>2, <1>3, <1>4 DEF selectTests

\* The order of the tests depends on the constants alone.
LEMMA PrecedesConstant == \A t, u : Precedes(u, t)' <=> Precedes(u, t)
  BY DEF Precedes, selectTests

\* A sequential stage starts a test when the ones before it have been sent,
\* and a stage when the stages before it have been collected.
LEMMA TurnOf ==
  ASSUME ScorecardInv, NEW t \in Matching, NEW u \in Matching, pc = "tests", step[t] \in Working,
         MayRun(t), Precedes(u, t)
  PROVE  step[u] = "sent"
<1> USE DEF ScorecardInv
<1>1. t \in selectTests(stage) /\ stage \in DOMAIN Stages /\ ~opts.list
  BY StageFacts, ScorecardAssumption DEF Typed, WorkInv
<1>2. PICK i, j \in DOMAIN Stages :
        /\ u \in selectTests(i) /\ t \in selectTests(j)
        /\ \/ i < j
           \/ /\ i = j /\ ~Stages[i].parallel
              /\ \E m, n \in DOMAIN Stages[i].tests :
                   m < n /\ Stages[i].tests[m] = u /\ Stages[i].tests[n] = t
  BY DEF Precedes
<1>3. j = stage
  BY <1>1, <1>2, StageFacts
<1>4. CASE i < j
  BY <1>1, <1>2, <1>3, <1>4 DEF ResultsInv, Reported
<1>5. CASE ~(i < j)
  BY <1>2, <1>3, <1>5 DEF MayRun
<1> QED BY <1>4, <1>5

\* An empty list has no results.
LEMMA RangeEmpty == Range(<<>>) = {}
  BY DEF Range

\* Sending a result to a channel adds it to the results in it.
LEMMA RangeAppend ==
  ASSUME NEW S, NEW s \in Seq(S), NEW e \in S
  PROVE  Range(Append(s, e)) = Range(s) \cup {e}
<1>1. /\ Append(s, e) \in Seq(S) /\ Len(Append(s, e)) = Len(s) + 1
      /\ \A i \in 1 .. Len(s) : Append(s, e)[i] = s[i]
      /\ Append(s, e)[Len(s) + 1] = e
  OBVIOUS
<1>2. /\ DOMAIN s = 1 .. Len(s) /\ Len(s) \in Nat
      /\ DOMAIN Append(s, e) = 1 .. Len(s) + 1
  BY <1>1
<1> QED BY <1>1, <1>2 DEF Range

\* Appending a channel's results to a list keeps those of both.
LEMMA RangeConcat ==
  ASSUME NEW S, NEW s \in Seq(S), NEW t \in Seq(S)
  PROVE  Range(s \o t) = Range(s) \cup Range(t)
<1>1. /\ s \o t \in Seq(S) /\ Len(s \o t) = Len(s) + Len(t)
      /\ \A i \in 1 .. Len(s) : (s \o t)[i] = s[i]
      /\ \A i \in 1 .. Len(t) : (s \o t)[Len(s) + i] = t[i]
  OBVIOUS
<1>2. /\ DOMAIN s = 1 .. Len(s) /\ Len(s) \in Nat /\ DOMAIN t = 1 .. Len(t) /\ Len(t) \in Nat
      /\ DOMAIN (s \o t) = 1 .. Len(s) + Len(t)
  BY <1>1
<1>3. ASSUME NEW x \in Range(s \o t) PROVE x \in Range(s) \cup Range(t)
  <2>1. PICK i \in 1 .. Len(s) + Len(t) : x = (s \o t)[i]
    BY <1>2 DEF Range
  <2>2. CASE i <= Len(s)
    BY <1>1, <1>2, <2>1, <2>2 DEF Range
  <2>3. CASE i > Len(s)
    <3>1. i - Len(s) \in 1 .. Len(t) /\ Len(s) + (i - Len(s)) = i
      BY <1>2, <2>1, <2>3
    <3> QED BY <1>1, <1>2, <2>1, <3>1 DEF Range
  <2> QED BY <1>2, <2>2, <2>3
<1>4. ASSUME NEW x \in Range(s) PROVE x \in Range(s \o t)
  BY <1>1, <1>2, <1>4 DEF Range
<1>5. ASSUME NEW x \in Range(t) PROVE x \in Range(s \o t)
  <2>1. PICK i \in 1 .. Len(t) : x = t[i]
    BY <1>2 DEF Range
  <2>2. Len(s) + i \in DOMAIN (s \o t)
    BY <1>2, <2>1
  <2> QED BY <1>1, <2>1, <2>2 DEF Range
<1> QED BY <1>3, <1>4, <1>5

-----------------------------------------------------------------------------
(* The steps. *)

\* The invariant holds when the command starts.
LEMMA ScorecardStart == Init => ScorecardInv
<1> SUFFICES ASSUME Init PROVE ScorecardInv
  OBVIOUS
<1>1. Typed
  <2>1. NoPod \in [phase : PodPhases, testrun : BOOLEAN, sidecar : BOOLEAN]
    BY DEF NoPod, PodPhases
  <2>2. stage \in 0 .. Len(Stages)
    BY StageFacts DEF Init
  <2>3. step \in [Tests -> Steps] /\ log \in [Tests -> Logs \cup {"none"}]
    BY DEF Init, Steps
  <2>4. pod \in [Tests -> [phase : PodPhases, testrun : BOOLEAN, sidecar : BOOLEAN]]
    BY <2>1 DEF Init
  <2>5. items \in Seq(Results) /\ output \in Seq(Results)
    BY DEF Init
  <2> QED BY <2>2, <2>3, <2>4, <2>5 DEF Init, Typed
<1>2. WorkInv /\ OrderInv
  BY StageFacts, ScorecardAssumption DEF Init, WorkInv, OrderInv, Started, Working, AfterStages
<1>3. ResultsInv /\ PodInv /\ GivenUpInv
  BY StageFacts, RangeEmpty, ScorecardAssumption
  DEF Init, ResultsInv, PodInv, GivenUpInv, Started, Reported, AfterStages, NoPod
<1>4. CleanInv
  BY DEF Init, CleanInv, NoPod
<1> QED BY <1>1, <1>2, <1>3, <1>4 DEF ScorecardInv

\* A test at work goes on to its next step, in its turn.
LEMMA AdvanceKeeps ==
  ASSUME ScorecardInv, NEW t \in Tests, NEW s \in {"wait", "gather", "logs"},
         pc = "tests", step[t] \in Working, Started(t) \/ MayRun(t),
         step' = [step EXCEPT ![t] = s], UNCHANGED <<opts, progVars, output, items>>
  PROVE  WorkInv' /\ OrderInv' /\ ResultsInv' /\ step' \in [Tests -> Steps]
<1> USE DEF ScorecardInv, progVars
<1>1. WorkInv'
  BY StageFacts DEF Typed, WorkInv, Working, AfterStages, selectTests
<1>2. OrderInv'
  <2> SUFFICES ASSUME NEW v \in Matching, NEW u \in Matching, Precedes(u, v), Started(v)'
               PROVE  step'[u] = "sent"
    BY PrecedesConstant DEF OrderInv
  <2>0. v \in Tests /\ u \in Tests
    BY ScorecardAssumption
  <2>1. step[u] = "sent"
    <3>1. CASE v = t /\ ~Started(t)
      BY <3>1, TurnOf
    <3>2. CASE v # t \/ Started(t)
      <4>1. Started(v)
        BY <2>0, <3>2 DEF Typed, Started
      <4> QED BY <4>1 DEF OrderInv
    <3> QED BY <3>1, <3>2
  <2> QED BY <2>0, <2>1 DEF Typed, Working
<1>3. ResultsInv'
  BY ScorecardAssumption DEF Typed, ResultsInv, Reported, Working, selectTests
<1>4. step' \in [Tests -> Steps]
  BY DEF Typed, Steps
<1> QED BY <1>1, <1>2, <1>3, <1>4

\* A test at work delivers its result and is done.
LEMMA DeliverKeeps ==
  ASSUME ScorecardInv, NEW t \in Tests, NEW r \in Results, r.test = t,
         pc = "tests", step[t] \in Working, Started(t) \/ MayRun(t), Deliver(t, r),
         UNCHANGED <<opts, progVars, items, cm, pod, log>>,
         late' \in {late, late \cup {t}},
         r.state = "fail" \/ (late' = late /\ pod[t].phase \notin {"running", "stray"})
  PROVE  ScorecardInv'
<1> USE DEF ScorecardInv, progVars
<1>0. /\ step' = [step EXCEPT ![t] = "sent"] /\ output' = Append(output, r)
      /\ ~opts.list /\ output \in Seq(Results) /\ items \in Seq(Results)
      /\ t \in selectTests(stage) /\ stage \in DOMAIN Stages
      /\ late' \subseteq Tests \cup {"cm"} /\ ("cm" \in late' => "cm" \in late)
  BY StageFacts, ScorecardAssumption DEF Deliver, Typed, WorkInv
<1>1. Typed'
  BY <1>0 DEF Typed, Steps
<1>2. WorkInv'
  BY <1>0, StageFacts DEF Typed, WorkInv, Working, AfterStages, selectTests
<1>3. OrderInv'
  <2> SUFFICES ASSUME NEW v \in Matching, NEW u \in Matching, Precedes(u, v), Started(v)'
               PROVE  step'[u] = "sent"
    BY PrecedesConstant DEF OrderInv
  <2>0. v \in Tests /\ u \in Tests
    BY ScorecardAssumption
  <2>1. step[u] = "sent"
    <3>1. CASE v = t /\ ~Started(t)
      BY <3>1, TurnOf
    <3>2. CASE v # t \/ Started(t)
      <4>1. Started(v)
        BY <1>0, <2>0, <3>2 DEF Typed, Started
      <4> QED BY <4>1 DEF OrderInv
    <3> QED BY <3>1, <3>2
  <2> QED BY <1>0, <2>0, <2>1 DEF Typed
<1>4. ResultsInv'
  <2>1. Range(output') = Range(output) \cup {r}
    BY <1>0, RangeAppend
  <2>2. t \in Matching
    BY <1>0, StageFacts
  <2>3. \A x \in Reported' : x.test \in Matching /\ step'[x.test] = "sent"
    BY <1>0, <2>1, <2>2 DEF ResultsInv, Reported, Typed
  <2>4. \A u \in selectTests(stage) : step'[u] = "sent" => \E x \in Range(output') : x.test = u
    BY <1>0, <2>1, StageFacts DEF ResultsInv, Typed
  <2>5. \A u \in Matching : step'[u] = "sent" => \E x \in Reported' : x.test = u
    BY <1>0, <2>1, ScorecardAssumption DEF ResultsInv, Reported, Typed
  <2> QED BY <1>0, <2>3, <2>4, <2>5 DEF ResultsInv, AfterStages, selectTests
<1>5. PodInv'
  BY <1>0 DEF PodInv, Started, Typed, Working
<1>6. GivenUpInv'
  <2>1. Reported' = Reported \cup {r}
    BY <1>0, RangeAppend DEF Reported
  <2>2. t \notin late /\ \A x \in Reported : x.test # t
    BY <1>0 DEF PodInv, ResultsInv, Working
  <2> QED BY <1>0, <2>1, <2>2 DEF GivenUpInv
<1>7. CleanInv'
  BY <1>0 DEF CleanInv, Typed
<1> QED BY <1>1, <1>2, <1>3, <1>4, <1>5, <1>6, <1>7

\* A step that leaves the tests, their pods and their results alone.
LEMMA UntouchedKeeps ==
  ASSUME ScorecardInv, UNCHANGED <<opts, step, pod>>, late' \subseteq late \cup {"cm"},
         opts.list \/ Reported' = Reported
  PROVE  OrderInv' /\ PodInv' /\ GivenUpInv'
<1> USE DEF ScorecardInv
<1>1. OrderInv'
  BY PrecedesConstant DEF OrderInv, Started
<1>2. PodInv'
  BY ScorecardAssumption DEF PodInv, Started
<1>3. GivenUpInv'
  BY ScorecardAssumption DEF GivenUpInv, ResultsInv
<1> QED BY <1>1, <1>2, <1>3

\* Before the stages: every step keeps the invariant.
LEMMA PreludeKeeps ==
  ASSUME ScorecardInv, Setup \/ List \/ getBundleData \/ CreateConfigMap
  PROVE  ScorecardInv'
<1> USE DEF ScorecardInv, clusterVars
<1>1. ASSUME Setup PROVE ScorecardInv'
  <2> USE <1>1 DEF Setup, Exit
  <2>1. Typed' BY DEF Typed
  <2>2. WorkInv' BY DEF Typed, WorkInv, Working, AfterStages, selectTests
  <2>3. OrderInv' /\ PodInv' /\ GivenUpInv'
    BY UntouchedKeeps DEF Reported, progVars
  <2>4. ResultsInv'
    BY RangeEmpty, StageFacts DEF WorkInv, ResultsInv, Reported, AfterStages, selectTests
  <2>5. CleanInv' BY DEF CleanInv
  <2> QED BY <2>1, <2>2, <2>3, <2>4, <2>5
<1>2. ASSUME List PROVE ScorecardInv'
  <2> USE <1>2 DEF List
  <2>1. Typed' BY DEF Typed
  <2>2. WorkInv' BY DEF Typed, WorkInv, Working, AfterStages, selectTests
  <2>3. OrderInv' /\ PodInv' /\ GivenUpInv'
    BY UntouchedKeeps DEF Reported, progVars
  <2>4. ResultsInv' BY DEF ResultsInv
  <2>5. CleanInv' BY DEF CleanInv
  <2> QED BY <2>1, <2>2, <2>3, <2>4, <2>5
<1>3. ASSUME getBundleData PROVE ScorecardInv'
  <2> USE <1>3 DEF getBundleData
  <2>1. Typed' BY DEF Typed, AfterStages
  <2>2. WorkInv' BY DEF Typed, WorkInv, Working, AfterStages, selectTests
  <2>3. OrderInv' /\ PodInv' /\ GivenUpInv'
    BY UntouchedKeeps DEF Reported, progVars
  <2>4. ResultsInv'
    BY RangeEmpty, StageFacts DEF WorkInv, ResultsInv, Reported, AfterStages, selectTests
  <2>5. CleanInv' BY DEF CleanInv
  <2> QED BY <2>1, <2>2, <2>3, <2>4, <2>5
<1>4. ASSUME CreateConfigMap PROVE ScorecardInv'
  <2> USE <1>4 DEF CreateConfigMap
  <2>1. Typed' BY DEF Typed, AfterStages
  <2>2. WorkInv' BY DEF Typed, WorkInv, Working, AfterStages, selectTests
  <2>3. OrderInv' /\ PodInv' /\ GivenUpInv'
    BY UntouchedKeeps DEF Reported, progVars
  <2>4. ResultsInv'
    BY RangeEmpty, StageFacts DEF WorkInv, ResultsInv, Reported, AfterStages, selectTests
  <2>5. CleanInv' BY DEF CleanInv
  <2> QED BY <2>1, <2>2, <2>3, <2>4, <2>5
<1> QED BY <1>1, <1>2, <1>3, <1>4

\* The loop over the stages keeps the invariant.
LEMMA StagesKeep ==
  ASSUME ScorecardInv, NextStage \/ CollectStage \/ CheckDeadline
  PROVE  ScorecardInv'
<1> USE DEF ScorecardInv, clusterVars
<1>1. ASSUME NextStage PROVE ScorecardInv'
  <2> USE <1>1
  <2>0. /\ pc = "stages" /\ ~opts.list /\ UNCHANGED <<opts, cm, pod, log, late, items, err, exit>>
        /\ stage' = stage + 1 /\ stage' \in DOMAIN Stages /\ stage \in Nat /\ output' = <<>>
        /\ pc' \in {"stages", "tests"} /\ (pc' = "stages" => selectTests(stage') = {})
        /\ step' \in [Tests -> Steps]
        /\ \A t \in Tests : step'[t] = IF t \in selectTests(stage') THEN "create" ELSE step[t]
    <3>1. /\ pc = "stages" /\ ~opts.list /\ UNCHANGED <<opts, cm, pod, log, late, items, err, exit>>
          /\ stage' = stage + 1 /\ stage' \in DOMAIN Stages /\ stage \in Nat /\ output' = <<>>
      BY StageFacts DEF NextStage, Typed
    <3>2. CASE selectTests(stage + 1) = {}
      BY <3>1, <3>2 DEF NextStage, Typed
    <3>3. CASE selectTests(stage + 1) # {}
      BY <3>1, <3>3 DEF NextStage, Typed, Steps
    <3> QED BY <3>1, <3>2, <3>3
  <2>1. Typed' BY <2>0, StageFacts DEF Typed
  <2>2. WorkInv'
    BY <2>0, StageFacts DEF Typed, WorkInv, Working, AfterStages
  <2>3. /\ \A t \in selectTests(stage') : step[t] = "idle"
        /\ \A t \in Tests : Started(t)' <=> Started(t)
        /\ \A t \in Tests : step'[t] = "sent" <=> step[t] = "sent"
    BY <2>0, StageFacts DEF WorkInv, Started, Typed
  <2>4. OrderInv'
    BY <2>3, PrecedesConstant, ScorecardAssumption DEF OrderInv
  <2>5. ResultsInv'
    BY <2>0, <2>3, RangeEmpty, StageFacts DEF Typed, WorkInv, ResultsInv, Reported, AfterStages
  <2>6. PodInv' /\ GivenUpInv'
    BY <2>0, <2>3, RangeEmpty DEF PodInv, GivenUpInv, WorkInv, Reported
  <2>7. CleanInv' BY <2>0, StageFacts DEF Typed, CleanInv
  <2> QED BY <2>1, <2>2, <2>4, <2>5, <2>6, <2>7
<1>2. ASSUME CollectStage PROVE ScorecardInv'
  <2> USE <1>2 DEF CollectStage
  <2>0. /\ ~opts.list /\ items \in Seq(Results) /\ output \in Seq(Results)
        /\ stage \in DOMAIN Stages
    BY StageFacts DEF Typed, WorkInv
  <2>1. Typed' BY <2>0 DEF Typed
  <2>2. WorkInv' BY <2>0, StageFacts DEF Typed, WorkInv, Working, AfterStages, selectTests
  <2>3. Range(items') = Range(items) \cup Range(output)
    BY <2>0, RangeConcat
  <2>4. OrderInv' /\ PodInv' /\ GivenUpInv'
    BY <2>3, RangeEmpty, UntouchedKeeps DEF Reported
  <2>5. ResultsInv'
    BY <2>0, <2>3, RangeEmpty, StageFacts
    DEF Typed, ResultsInv, Reported, AfterStages, selectTests
  <2>6. CleanInv' BY DEF CleanInv
  <2> QED BY <2>1, <2>2, <2>4, <2>5, <2>6
<1>3. ASSUME CheckDeadline PROVE ScorecardInv'
  <2> USE <1>3 DEF CheckDeadline
  <2>0. ~opts.list /\ stage = Len(Stages)
    BY DEF Typed
  <2>1. Typed' BY <2>0 DEF Typed, AfterStages
  <2>2. WorkInv' BY <2>0, StageFacts DEF Typed, WorkInv, Working, AfterStages, selectTests
  <2>3. OrderInv' /\ PodInv' /\ GivenUpInv'
    BY UntouchedKeeps DEF Reported, progVars
  <2>4. ResultsInv'
    <3>1. \A u \in Matching : \E r \in Range(items) : r.test = u
      BY <2>0, StageFacts DEF Typed, ResultsInv
    <3> QED BY <2>0, <3>1, StageFacts DEF Typed, ResultsInv, Reported, AfterStages, selectTests
  <2>5. CleanInv' BY DEF CleanInv
  <2> QED BY <2>1, <2>2, <2>3, <2>4, <2>5
<1> QED BY <1>1, <1>2, <1>3

\* The error of a call is a result of the test.
LEMMA ErrorIsResult ==
  ASSUME NEW t \in Tests
  PROVE  /\ convertErrorToStatus(t) \in Results /\ convertErrorToStatus(t).test = t
         /\ convertErrorToStatus(t).state = "fail"
  BY DEF convertErrorToStatus, Results

\* Every step of a test keeps the invariant.
LEMMA RunTestKeeps ==
  ASSUME ScorecardInv, NEW t \in Tests, RunTest(t)
  PROVE  ScorecardInv'
<1> USE DEF ScorecardInv, clusterVars, TestStep
<1>1. ASSUME CreatePod(t) PROVE ScorecardInv'
  <2>1. CASE Deliver(t, convertErrorToStatus(t)) /\ UNCHANGED pod
          /\ late' \in {late} \cup (IF expired /\ LateCalls THEN {late \cup {t}} ELSE {})
    <3>1. late' \in {late, late \cup {t}}
      BY <2>1
    <3>2. pc = "tests" /\ step[t] \in Working /\ MayRun(t)
      BY <1>1 DEF CreatePod, Working
    <3>3. UNCHANGED <<opts, progVars, items, cm, pod, log>>
      BY <1>1, <2>1 DEF CreatePod
    <3> QED BY <2>1, <3>1, <3>2, <3>3, ErrorIsResult, DeliverKeeps
  <2>2. CASE ~expired /\ pod' = [pod EXCEPT ![t] = PodFor(t)]
          /\ step' = [step EXCEPT ![t] = "wait"] /\ UNCHANGED <<output, late>>
    <3>0. pc = "tests" /\ step[t] \in Working /\ MayRun(t)
          /\ UNCHANGED <<opts, progVars, output, items, cm, log, late>>
      BY <1>1, <2>2 DEF CreatePod, Working
    <3>1. WorkInv' /\ OrderInv' /\ ResultsInv' /\ step' \in [Tests -> Steps]
      BY <2>2, <3>0, AdvanceKeeps
    <3>2. /\ PodFor(t) \in [phase : PodPhases, testrun : BOOLEAN, sidecar : BOOLEAN]
          /\ PodFor(t).testrun = TRUE
      BY DEF PodFor, addStorageToPod, getPodDefinition, PodPhases
    <3>3. Typed'
      BY <2>2, <3>0, <3>1, <3>2 DEF Typed, progVars
    <3>4. PodInv'
      BY <2>2, <3>0, <3>2 DEF PodInv, Started, Typed, Working
    <3>5. GivenUpInv'
      BY <1>1, <2>2, <3>0 DEF GivenUpInv, ResultsInv, Reported, Typed, CreatePod
    <3>6. CleanInv'
      BY <2>2, <3>0, <3>2 DEF CleanInv, Typed, progVars
    <3> QED BY <3>1, <3>3, <3>4, <3>5, <3>6
  <2> QED BY <1>1, <2>1, <2>2 DEF CreatePod
<1>2. ASSUME NEW s \in {"gather", "logs"}, step[t] \in {"wait", "gather"}, pc = "tests",
             pod[t].phase \notin {"running", "stray"}, step' = [step EXCEPT ![t] = s],
             UNCHANGED <<opts, progVars, output, items, clusterVars>>
      PROVE  ScorecardInv'
  <2>1. step[t] \in Working /\ Started(t) /\ s \in {"wait", "gather", "logs"}
    BY <1>2 DEF Working, Started
  <2>2. WorkInv' /\ OrderInv' /\ ResultsInv' /\ step' \in [Tests -> Steps]
    BY <1>2, <2>1, AdvanceKeeps
  <2>3. Typed'
    BY <1>2, <2>2 DEF Typed, progVars
  <2>4. PodInv' /\ GivenUpInv'
    BY <1>2 DEF PodInv, GivenUpInv, Started, Typed, Reported
  <2>5. CleanInv'
    BY <1>2 DEF CleanInv, progVars
  <2> QED BY <2>2, <2>3, <2>4, <2>5
<1>3. ASSUME NEW r \in Results, r.test = t, Deliver(t, r), step[t] \in {"wait", "gather", "logs"},
             r.state = "fail" \/ step[t] = "logs",
             pc = "tests", UNCHANGED <<opts, progVars, items, clusterVars>>
      PROVE  ScorecardInv'
  <2>1. step[t] \in Working /\ Started(t)
    BY <1>3 DEF Working, Started
  <2>2. r.state = "fail" \/ pod[t].phase \notin {"running", "stray"}
    BY <1>3 DEF PodInv
  <2> QED BY <1>3, <2>1, <2>2, DeliverKeeps
<1>4. ASSUME WaitForTest(t) PROVE ScorecardInv'
  BY <1>2, <1>3, <1>4, ErrorIsResult DEF WaitForTest
<1>5. ASSUME GatherOutput(t) PROVE ScorecardInv'
  <2>1. pod[t].phase \notin {"running", "stray"}
    BY <1>5 DEF GatherOutput, PodInv
  <2> QED BY <1>2, <1>3, <1>5, <2>1, ErrorIsResult DEF GatherOutput
<1>6. ASSUME ReadLog(t) PROVE ScorecardInv'
  <2>1. getTestStatus(t) \in Results /\ getTestStatus(t).test = t
    BY DEF Typed, getTestStatus, Results
  <2>2. CASE Exit("panic")
    <3> USE <1>6, <2>2 DEF ReadLog, Exit
    <3>1. Typed' BY DEF Typed
    <3>2. WorkInv' BY StageFacts DEF Typed, WorkInv, Working, AfterStages, selectTests
    <3>3. OrderInv' /\ PodInv' /\ GivenUpInv'
      BY UntouchedKeeps DEF Reported
    <3>4. ResultsInv' BY DEF ResultsInv, Reported, AfterStages, selectTests
    <3>5. CleanInv' BY DEF CleanInv
    <3> QED BY <3>1, <3>2, <3>3, <3>4, <3>5
  <2>3. CASE Deliver(t, getTestStatus(t))
             /\ UNCHANGED <<opts, progVars, expired, clusterVars, items>>
    BY <1>3, <1>6, <2>1, <2>3 DEF ReadLog
  <2>4. CASE Deliver(t, convertErrorToStatus(t))
             /\ UNCHANGED <<opts, progVars, expired, clusterVars, items>>
    BY <1>3, <1>6, <2>4, ErrorIsResult DEF ReadLog
  <2> QED BY <1>6, <2>2, <2>3, <2>4 DEF ReadLog
<1> QED BY <1>1, <1>4, <1>5, <1>6 DEF RunTest

\* Cleanup, the report, the deadline, ending containers and requests applied
\* late keep the invariant.
LEMMA RestKeeps ==
  ASSUME ScorecardInv,
         \/ DeletePods \/ DeleteConfigMap \/ PrintAndExit \/ Expire
         \/ \E t \in Tests : PodTerminates(t)
         \/ \E x \in late : ApplyLate(x)
         \/ UNCHANGED vars
  PROVE  ScorecardInv'
<1> USE DEF ScorecardInv, clusterVars, progVars
<1>1. ASSUME DeletePods PROVE ScorecardInv'
  <2> USE <1>1 DEF DeletePods
  <2>1. Typed'
    <3>1. NoPod \in [phase : PodPhases, testrun : BOOLEAN, sidecar : BOOLEAN]
      BY DEF NoPod, PodPhases
    <3> QED BY <3>1 DEF Typed, AfterStages
  <2>2. WorkInv' BY DEF Typed, WorkInv, Working, AfterStages, selectTests
  <2>3. OrderInv' /\ PodInv' /\ GivenUpInv'
    BY PrecedesConstant, ScorecardAssumption DEF OrderInv, PodInv, GivenUpInv, ResultsInv, Reported,
       Started, Typed, NoPod, WorkInv, Working
  <2>4. ResultsInv' BY DEF ResultsInv, Reported, AfterStages, selectTests
  <2>5. CleanInv' BY DEF CleanInv, Typed, NoPod, PodPhases
  <2> QED BY <2>1, <2>2, <2>3, <2>4, <2>5
<1>2. ASSUME DeleteConfigMap PROVE ScorecardInv'
  <2> USE <1>2 DEF DeleteConfigMap
  <2>1. Typed' BY DEF Typed, AfterStages
  <2>2. WorkInv' BY DEF Typed, WorkInv, Working, AfterStages, selectTests
  <2>3. OrderInv' /\ PodInv' /\ GivenUpInv'
    BY UntouchedKeeps DEF Reported
  <2>4. ResultsInv' BY DEF ResultsInv, Reported, AfterStages, selectTests
  <2>5. CleanInv' BY DEF CleanInv, Typed
  <2> QED BY <2>1, <2>2, <2>3, <2>4, <2>5
<1>3. ASSUME PrintAndExit PROVE ScorecardInv'
  <2> USE <1>3 DEF PrintAndExit, Exit
  <2>1. Typed' BY DEF Typed
  <2>2. WorkInv' BY DEF Typed, WorkInv, Working, AfterStages, selectTests
  <2>3. OrderInv' /\ PodInv' /\ GivenUpInv'
    BY UntouchedKeeps DEF Reported
  <2>4. ResultsInv' BY DEF ResultsInv, Reported, AfterStages, selectTests
  <2>5. CleanInv' BY DEF CleanInv, Typed
  <2> QED BY <2>1, <2>2, <2>3, <2>4, <2>5
<1>4. ASSUME NEW t \in Tests, PodTerminates(t) PROVE ScorecardInv'
  <2> USE <1>4 DEF PodTerminates
  <2>1. Typed' BY DEF Typed, PodPhases
  <2>2. WorkInv' BY DEF WorkInv, selectTests
  <2>3. OrderInv' /\ PodInv' /\ GivenUpInv'
    BY PrecedesConstant, ScorecardAssumption DEF OrderInv, PodInv, GivenUpInv, ResultsInv, Reported,
       Started, Typed
  <2>4. ResultsInv' BY DEF ResultsInv, Reported, selectTests
  <2>5. CleanInv' BY DEF CleanInv, Typed
  <2> QED BY <2>1, <2>2, <2>3, <2>4, <2>5
<1>5. ASSUME NEW x \in late, ApplyLate(x) PROVE ScorecardInv'
  <2> DEFINE Pods == [phase : PodPhases, testrun : BOOLEAN, sidecar : BOOLEAN]
             stray == [PodFor(x) EXCEPT !.phase = "stray"]
  <2>0. stray \in Pods /\ stray.phase = "stray"
    BY DEF PodFor, addStorageToPod, getPodDefinition, PodPhases
  <2>1. /\ late' = late \ {x} /\ UNCHANGED <<opts, progVars, log, expired, step, output, items>>
        /\ \/ x = "cm" /\ cm' = TRUE /\ UNCHANGED pod
           \/ x \in Tests /\ pod' = [pod EXCEPT ![x] = stray] /\ UNCHANGED cm
    BY <1>5 DEF ApplyLate, Typed
  <2> HIDE DEF stray
  <2>2. Typed'
    <3>1. pod' \in [Tests -> Pods]
      BY <2>0, <2>1 DEF Typed
    <3> QED BY <2>1, <3>1 DEF Typed
  <2>3. WorkInv' BY <2>1 DEF WorkInv, selectTests
  <2>4. OrderInv' /\ PodInv' /\ GivenUpInv'
    BY <2>0, <2>1, PrecedesConstant, ScorecardAssumption DEF OrderInv, PodInv, GivenUpInv, ResultsInv,
       Reported, Started, Typed
  <2>5. ResultsInv' BY <2>1 DEF ResultsInv, Reported, selectTests
  <2>6. CleanInv'
    <3>1. CASE x = "cm"
      BY <2>1, <3>1, ScorecardAssumption DEF CleanInv
    <3>2. CASE x # "cm"
      BY <2>0, <2>1, <3>2 DEF CleanInv, Typed
    <3> QED BY <3>1, <3>2
  <2> QED BY <2>2, <2>3, <2>4, <2>5, <2>6
<1>6. ASSUME Expire \/ UNCHANGED vars PROVE ScorecardInv'
  <2> USE <1>6 DEF Expire, vars
  <2>1. Typed' BY DEF Typed
  <2>2. WorkInv' BY DEF WorkInv, selectTests
  <2>3. OrderInv' /\ PodInv' /\ GivenUpInv'
    BY UntouchedKeeps DEF Reported
  <2>4. ResultsInv' BY DEF ResultsInv, Reported, selectTests
  <2>5. CleanInv' BY DEF CleanInv
  <2> QED BY <2>1, <2>2, <2>3, <2>4, <2>5
<1> QED BY <1>1, <1>2, <1>3, <1>4, <1>5, <1>6

\* The invariant is inductive.
LEMMA ScorecardStep == ScorecardInv /\ [Next]_vars => ScorecardInv'
  BY PreludeKeeps, StagesKeep, RunTestKeeps, RestKeeps DEF Next, Run

-----------------------------------------------------------------------------
(* Safety. *)

\* Stages run one after the other and the tests of a sequential stage one at a
\* time, however goroutines, pods and failing calls interleave: when a test
\* occupies the cluster the ones before it have been reported, and the pod of one
\* of them still runs only if it was reported as failed (runStageSequential,
\* runStageParallel, waitForTestToComplete).
THEOREM StagesApart == Spec => []StagesIsolated
<1>1. ScorecardInv => StagesIsolated
  <2> SUFFICES ASSUME ScorecardInv, NEW t \in Matching, NEW u \in Matching,
                      Precedes(u, t), Occupies(t)
               PROVE  \E r \in Reported : r.test = u /\ (Occupies(u) => r.state = "fail")
    BY DEF StagesIsolated
  <2> USE DEF ScorecardInv
  <2>1. t \in Tests /\ u \in Tests
    BY ScorecardAssumption
  <2>2. Started(t)
    BY <2>1 DEF Occupies, Started, PodInv
  <2>3. step[u] = "sent"
    BY <2>2 DEF OrderInv
  <2>4. ~opts.list
    BY <2>1, <2>3 DEF WorkInv
  <2>5. PICK r \in Reported : r.test = u
    BY <2>3, <2>4 DEF ResultsInv
  <2>6. Occupies(u) => r.state = "fail"
    BY <2>3, <2>4, <2>5 DEF Occupies, GivenUpInv
  <2> QED BY <2>5, <2>6
<1> QED BY <1>1, ScorecardStart, ScorecardStep, PTL DEF Spec

\* Cleanup leaves neither the ConfigMap nor a pod of the run, also after a
\* time-out; only a pod created after the client gave up can remain.
THEOREM NothingRemains == Spec => []NoRemainders
<1>1. ScorecardInv => NoRemainders
  BY DEF ScorecardInv, CleanInv, NoRemainders, CleanedUp
<1> QED BY <1>1, ScorecardStart, ScorecardStep, PTL DEF Spec

-----------------------------------------------------------------------------
(* The refinement of TestRun. *)

\* A step that reports nothing new and does not end the run is invisible.
LEMMA Invisible ==
  ASSUME UNCHANGED opts, Reported' = Reported,
         UNCHANGED <<pc, exit>> \/ (pc # "done" /\ pc' # "done")
  PROVE  UNCHANGED Abstract!runVars
  BY DEF Abstract!runVars, verdictBar, outcomeBar

\* A delivered result is the first of its test: it gives the test its verdict.
LEMMA DeliveryReports ==
  ASSUME ScorecardInv, NEW t \in Tests, NEW r \in Results, r.test = t,
         pc = "tests", step[t] \in Working, Deliver(t, r), UNCHANGED <<opts, progVars, items>>
  PROVE  Abstract!Report(t) /\ t \in Matching
<1> USE DEF ScorecardInv, progVars
<1>1. /\ ~opts.list /\ output \in Seq(Results) /\ t \in Matching
      /\ output' = Append(output, r)
  BY StageFacts DEF Deliver, Typed, WorkInv
<1>2. Reported' = Reported \cup {r}
  BY <1>1, RangeAppend DEF Reported
<1>3. \A x \in Reported : x.test # t
  BY <1>1 DEF ResultsInv, Working
<1>4. verdictBar[t] = "none"
  BY <1>1, <1>3 DEF verdictBar
<1>5. verdictBar' = [verdictBar EXCEPT ![t] = IF r.state = "pass" THEN "pass" ELSE "fail"]
  <2>1. \A u \in Matching : u # t => verdictBar'[u] = verdictBar[u]
    BY <1>1, <1>2 DEF verdictBar
  <2>2. verdictBar'[t] = IF r.state = "pass" THEN "pass" ELSE "fail"
    BY <1>1, <1>2, <1>3 DEF verdictBar
  <2>3. /\ verdictBar \in [Matching -> {"none", "pass", "fail"}]
        /\ verdictBar' \in [Matching -> {"none", "pass", "fail"}]
    BY DEF verdictBar
  <2> QED BY <1>1, <2>1, <2>2, <2>3
<1>6. outcomeBar = "running" /\ outcomeBar' = "running"
  BY DEF outcomeBar
<1> QED BY <1>1, <1>4, <1>5, <1>6 DEF Abstract!Report, Abstract!Verdicts

\* The end of the process is the end of the run, and status 0 means that every
\* selected test has passed.
LEMMA EndingRefines ==
  ASSUME "empty" \notin Logs, ScorecardInv, pc # "done", pc' = "done", UNCHANGED opts,
         Reported' = Reported \/ opts.list,
         exit' = "0" /\ ~opts.list =>
           pc = "report" /\ err = "none" /\ ~hasFailingTest(items)
  PROVE  Abstract!Succeed \/ Abstract!Fail
<1> USE DEF ScorecardInv
<1>1. outcomeBar = "running" /\ UNCHANGED verdictBar
  BY DEF outcomeBar, verdictBar
<1>2. CASE exit' = "0" /\ ~opts.list
  <2>1. /\ items \in Seq(Results) /\ output = <<>>
        /\ \A u \in Matching : \E r \in Range(items) : r.test = u
    BY <1>2 DEF Typed, WorkInv, ResultsInv, AfterStages
  <2>2. \A r \in Range(items) : r.state = "pass"
    <3>1. \A i \in DOMAIN items : items[i] \in Results
      BY <2>1
    <3>2. \A i \in DOMAIN items : items[i].state \in Logs \cup {"none", "fail"}
      BY <3>1 DEF Results
    <3> QED BY <1>2, <3>2 DEF hasFailingTest, Range
  <2>3. Reported = Range(items)
    BY <2>1, RangeEmpty DEF Reported
  <2>4. \A u \in Matching : verdictBar[u] = "pass"
    BY <1>2, <2>1, <2>2, <2>3 DEF verdictBar
  <2>5. outcomeBar' = "ok"
    BY <1>2 DEF outcomeBar
  <2> QED BY <1>1, <2>4, <2>5 DEF Abstract!Succeed
<1>3. CASE ~(exit' = "0" /\ ~opts.list)
  <2>1. outcomeBar' = "failed"
    BY <1>3 DEF outcomeBar
  <2> QED BY <1>1, <2>1 DEF Abstract!Fail
<1> QED BY <1>2, <1>3

\* Every step of the command is a step of TestRun or invisible in it.
LEMMA StepRefines ==
  ASSUME "empty" \notin Logs, ScorecardInv, [Next]_vars
  PROVE  [Abstract!RunNext]_(Abstract!runVars)
<1> USE DEF progVars, clusterVars
<1>1. CASE Setup
  <2>1. CASE Exit("1")
    BY <2>1, <1>1, EndingRefines DEF Setup, Exit, Reported, Abstract!RunNext
  <2>2. CASE pc' = "bundle"
    BY <2>2, <1>1, Invisible DEF Setup, Exit, Reported
  <2> QED BY <1>1, <2>1, <2>2 DEF Setup
<1>2. CASE List
  BY <1>2, EndingRefines DEF List, Abstract!RunNext
<1>3. CASE getBundleData \/ CreateConfigMap \/ CheckDeadline \/ DeletePods \/ DeleteConfigMap
  BY <1>3, Invisible
  DEF getBundleData, CreateConfigMap, CheckDeadline, DeletePods, DeleteConfigMap, Reported
<1>4. CASE NextStage
  <2>1. output = <<>>
    BY <1>4 DEF NextStage, ScorecardInv, WorkInv
  <2> QED BY <1>4, <2>1, Invisible DEF NextStage, Reported
<1>5. CASE CollectStage
  <2>1. items \in Seq(Results) /\ output \in Seq(Results)
    BY <1>5 DEF CollectStage, ScorecardInv, Typed
  <2>2. Reported' = Reported
    BY <1>5, <2>1, RangeConcat, RangeEmpty DEF CollectStage, Reported
  <2> QED BY <1>5, <2>2, Invisible DEF CollectStage
<1>6. CASE PrintAndExit
  BY <1>6, EndingRefines DEF PrintAndExit, Exit, Reported, Abstract!RunNext
<1>7. ASSUME NEW t \in Tests, RunTest(t) PROVE [Abstract!RunNext]_(Abstract!runVars)
  <2>1. pc = "tests" /\ step[t] \in Working /\ opts' = opts
    BY <1>7 DEF RunTest, CreatePod, WaitForTest, GatherOutput, ReadLog, TestStep, Working, Exit
  <2>2. ASSUME NEW r \in Results, r.test = t, Deliver(t, r), UNCHANGED <<progVars, items>>
        PROVE  Abstract!RunNext
    BY <2>1, <2>2, DeliveryReports DEF Abstract!RunNext
  <2>3. CASE UNCHANGED <<progVars, items, output>>
    BY <2>1, <2>3, Invisible DEF Reported
  <2>4. getTestStatus(t) \in Results /\ getTestStatus(t).test = t
    BY DEF ScorecardInv, Typed, getTestStatus, Results
  <2>5. CASE Exit("panic")
    BY <2>1, <2>5, EndingRefines DEF Exit, Reported, Abstract!RunNext
  <2> QED BY <1>7, <2>2, <2>3, <2>4, <2>5, ErrorIsResult
      DEF RunTest, CreatePod, WaitForTest, GatherOutput, ReadLog
<1>8. CASE Expire \/ (\E t \in Tests : PodTerminates(t)) \/ (\E x \in late : ApplyLate(x))
           \/ UNCHANGED vars
  BY <1>8, Invisible DEF Expire, PodTerminates, ApplyLate, vars, Reported
<1> QED BY <1>1, <1>2, <1>3, <1>4, <1>5, <1>6, <1>7, <1>8 DEF Next, Run

\* If no test container prints an empty list of results, the command implements
\* the safety of TestRun: a verdict is given once and never lost or revised, and
\* the exit status is 0 only when every selected test has passed.
THEOREM ImplementsRunSafety ==
  ASSUME "empty" \notin Logs
  PROVE  Spec => Abstract!RunSafety
<1>1. Init => Abstract!RunInit
  BY RangeEmpty DEF Init, Abstract!RunInit, verdictBar, outcomeBar, Reported
<1>2. ScorecardInv /\ [Next]_vars => [Abstract!RunNext]_(Abstract!runVars)
  BY StepRefines
<1> QED BY <1>1, <1>2, ScorecardStart, ScorecardStep, PTL DEF Spec, Abstract!RunSafety
=============================================================================
