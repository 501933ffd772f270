----------------------- MODULE ScenarioRefinementProofs -----------------------
(***************************************************************************)
(* A lone scenario keeps what ScenarioPromise promises, step by step:      *)
(* every step of ScenarioRun is, seen through the mapping of               *)
(* ScenarioRefinement, a step of the promise or none.                      *)
(*                                                                         *)
(* Three invariants carry it.  JudgedInv is about the verdicts: a test     *)
(* that passed had its requirements passed, and every step left behind has *)
(* its verdict.  CountInv is about the count of failures.  EndInv, of      *)
(* ScenarioEndProofs, is about the end of a run on its way.                *)
(***************************************************************************)
EXTENDS ScenarioEndProofs

-----------------------------------------------------------------------------
(***************************************************************************)
(* Verdicts and requirements.                                              *)
(***************************************************************************)
Passed(o) == {t \in Test : o.test_states[t] = "Pass"}

\* What a test that passed required has passed.
Closed(d, TT, o) == \A t \in Passed(o) : InspectedParents(d, TT, t) \subseteq Passed(o)

JudgedUpTo(d, o, n) == \A k \in 1..n : o.test_states[d.test_sequence[k]] # "Pending"

MayStop(d) == d.timeout \/ d.stop_after_failure_count # None

\* A run that is over has judged every test, or was cut short.
CutOrJudged(d, o) ==
    MayStop(d) \/ o.exec_start_state = "Fail" \/ JudgedUpTo(d, o, TestCount(d))

RequirementsInv(d, TT, o) ==
    /\ o.exec_start_state # "Skip"
    /\ Closed(d, TT, o)
    /\ o.state \in {"Idle", "PreStart"} => \A t \in Test : o.test_states[t] = "Pending"
    /\ o.state = "Running" =>
          /\ o.exec_start_state # "Fail"
          /\ InspectedParents(d, TT, d.test_sequence[o.step]) \subseteq Passed(o)
          /\ JudgedUpTo(d, o, o.step - 1)
    /\ o.state \in OverPhase => CutOrJudged(d, o)

JudgedInv == \A s \in Scenario : RequirementsInv(Desc(s), T, scenario[s])

\* What holds of verdicts and requirements after a result was recorded.
RecordedJudged(d, TT, o) ==
    /\ o.exec_start_state # "Skip"
    /\ Closed(d, TT, o)
    /\ o.state = "Idle" => \A t \in Test : o.test_states[t] = "Pending"
    /\ LeavesForTests(d, o) => JudgedUpTo(d, o, LastStepLeft(o))
    /\ o.state \in OverPhase => CutOrJudged(d, o)

\* A test that is skipped is one of the scenario's, and lacks a requirement.
SkipsLack(d, TT, o, new) ==
    \A t \in Test : o.test_states[t] = "Pending" /\ new.test_states[t] = "Skip" =>
       t \in TestsOf(d) /\ \E p \in InspectedParents(d, TT, t) : p \notin Passed(new)

\* A result is recorded for a test whose requirements have passed.
LEMMA RecordJudges ==
    ASSUME NEW d, NEW TT, Ordered(d, TT), NEW o \in ScenarioObject, NEW r \in Result,
           ObjectInv(d, o), RequirementsInv(d, TT, o)
    PROVE  RecordedJudged(d, TT, RecordResult(d, o, r))
<1>. DEFINE new == RecordResult(d, o, r)
            at == d.test_sequence[o.step]
<1>1. /\ new.state = o.state /\ new.step = o.step
      /\ new.exec_start_state = IF o.state = "PreStart" THEN Verdict(r)
                                ELSE o.exec_start_state
      /\ \A t \in Test : new.test_states[t] =
            IF o.state = "Running" /\ t = at THEN Verdict(r) ELSE o.test_states[t]
      /\ o.state \notin {"Running", "PreStart"} => new = o
  BY RecordFields
<1>2. TestCount(d) \in Nat /\ Verdict(r) \in {"Pass", "Fail"}
  BY Zenon DEF Ordered, Verdict
<1>. HIDE DEF new
<1>3. CASE o.state \notin {"Running", "PreStart"}
  <2>1. new = o /\ (LeavesForTests(d, o) => LastStepLeft(o) = 0)
    BY <1>1, <1>3, Zenon DEF LeavesForTests, LastStepLeft
  <2>2. JudgedUpTo(d, o, 0)
    BY DEF JudgedUpTo
  <2>. QED
    BY <1>3, <2>1, <2>2, Zenon DEF RequirementsInv, RecordedJudged, new
<1>4. CASE o.state = "PreStart"
  <2>1. LastStepLeft(new) = 0 /\ new.state \notin OverPhase /\ new.state # "Idle"
    BY <1>1, <1>4, Zenon DEF LastStepLeft, OverPhase
  <2>2. Passed(new) = {} /\ new.exec_start_state # "Skip"
    BY <1>1, <1>2, <1>4, Zenon DEF Passed, RequirementsInv
  <2>3. Closed(d, TT, new) /\ JudgedUpTo(d, new, 0)
    BY <2>2 DEF Closed, JudgedUpTo
  <2>. QED
    BY <2>1, <2>2, <2>3, Zenon DEF RecordedJudged, new
<1>5. CASE o.state = "Running"
  <2>1. /\ LastStepLeft(new) = o.step /\ new.state \notin OverPhase /\ new.state # "Idle"
        /\ new.exec_start_state # "Skip"
    BY <1>1, <1>5, Zenon DEF LastStepLeft, OverPhase, RequirementsInv
  <2>2. o.step \in 1..TestCount(d) /\ at \in Test /\ o.test_states[at] = "Pending"
    BY <1>2, <1>5 DEF ObjectInv, PendingFrom, Ordered
  <2>3. Passed(o) \subseteq Passed(new) /\ Passed(new) \subseteq Passed(o) \cup {at}
    BY <1>1, <2>2, Zenon DEF Passed
  <2>4. InspectedParents(d, TT, at) \subseteq Passed(o) /\ Closed(d, TT, o)
    BY <1>5, Zenon DEF RequirementsInv
  <2>5. Closed(d, TT, new)
    BY <2>3, <2>4, Zenon DEF Closed
  <2>6. ASSUME NEW k \in 1..o.step PROVE new.test_states[d.test_sequence[k]] # "Pending"
    <3>1. k \in 1..TestCount(d) /\ d.test_sequence[k] \in Test
      BY <1>2, <2>2 DEF Ordered
    <3>2. k \in 1..(o.step - 1) \/ k = o.step
      BY <2>2
    <3>3. k \in 1..(o.step - 1) => o.test_states[d.test_sequence[k]] # "Pending"
      BY <1>5, Zenon DEF RequirementsInv, JudgedUpTo
    <3>. QED
      BY <1>1, <1>2, <1>5, <3>1, <3>2, <3>3, Zenon
  <2>7. JudgedUpTo(d, new, o.step)
    BY <2>6, Zenon DEF JudgedUpTo
  <2>. QED
    BY <2>1, <2>5, <2>7, Zenon DEF RecordedJudged, new
<1>. QED
  BY <1>3, <1>4, <1>5, Zenon

\* A test that is passed over lacks a requirement: those that passed are enough for
\* all_dependencies_succeeded.
LEMMA SkippedLacks ==
    ASSUME NEW d, NEW TT, Ordered(d, TT), NEW o \in ScenarioObject, NEW late, NEW next,
           Closed(d, TT, o), NEW t \in SkippedBefore(d, TT, o, late, next)
    PROVE  /\ t \in TestsOf(d) /\ t \in Test
           /\ \E p \in InspectedParents(d, TT, t) : p \notin Passed(o)
<1>1. PICK k \in StepsTried(d, o) :
         /\ t = d.test_sequence[k]
         /\ MayRun(d, o, k, late) /\ ~StepOkay(d, TT, o, k, late)
  BY Zenon DEF SkippedBefore
<1>2. k \in 1..TestCount(d)
  BY SkippedType, Zenon DEF Ordered
<1>3. ~AllDependenciesSucceeded(d, TT, o, t)
  BY <1>1, Zenon DEF StepOkay
<1>4. Passed(o) \in SUBSET Test /\ \A u \in Passed(o) : o.test_states[u] = "Pass"
  BY Zenon DEF Passed
<1>5. ~(InspectedParents(d, TT, t) \subseteq Passed(o))
  BY <1>3, <1>4, Zenon DEF AllDependenciesSucceeded, Closed
<1>. QED
  BY <1>1, <1>2, <1>5, Zenon DEF TestsOf, Ordered

\* Going on to a test: its requirements have passed, and the steps before it have their
\* verdicts.
LEMMA ToTestJudges ==
    ASSUME NEW d, NEW TT, Ordered(d, TT), NEW o \in ScenarioObject,
           NEW late \in Int, NEW next \in StepsOkay(d, TT, o, late),
           \A k \in StepsOkay(d, TT, o, late) : next <= k,
           RecordedInv(d, o), RecordedJudged(d, TT, o), LeavesForTests(d, o)
    PROVE  LET new == [Skipping(o, SkippedBefore(d, TT, o, late, next)) EXCEPT
                         !.state = "Running", !.step = next]
           IN  RequirementsInv(d, TT, new) /\ SkipsLack(d, TT, o, new)
<1>. DEFINE S == SkippedBefore(d, TT, o, late, next)
            base == Skipping(o, S)
            new == [base EXCEPT !.state = "Running", !.step = next]
            at == d.test_sequence[next]
<1>1. /\ base \in ScenarioObject /\ base.exec_start_state = o.exec_start_state
      /\ \A t \in Test : base.test_states[t] = IF t \in S THEN "Skip" ELSE o.test_states[t]
  BY SkippingFields
<1>2. LastStepLeft(o) \in Nat /\ TestCount(d) \in Nat
  BY Zenon DEF LastStepLeft, ScenarioObject, Ordered
<1>3. /\ next \in StepsTried(d, o) /\ next \in 1..TestCount(d) /\ next > LastStepLeft(o)
      /\ next < late /\ o.exec_start_state # "Fail" /\ AllDependenciesSucceeded(d, TT, o, at)
  BY <1>2 DEF StepsOkay, StepsTried, StepOkay, MayRun
<1>. HIDE DEF base
<1>4. /\ new.state = "Running" /\ new.step = next
      /\ new.exec_start_state = o.exec_start_state
      /\ \A t \in Test : new.test_states[t] = IF t \in S THEN "Skip" ELSE o.test_states[t]
  BY <1>1, Zenon DEF ScenarioObject
<1>. HIDE DEF new
<1>5. \A t \in S : /\ o.test_states[t] = "Pending" /\ t \in Test /\ t \in TestsOf(d)
                   /\ \E p \in InspectedParents(d, TT, t) : p \notin Passed(o)
  BY SkippedPending, SkippedLacks DEF RecordedJudged
<1>. HIDE DEF S
<1>6. Passed(new) = Passed(o)
  BY <1>4, <1>5, Zenon DEF Passed
<1>7. Closed(d, TT, new) /\ o.exec_start_state # "Skip"
  BY <1>6, Zenon DEF Closed, RecordedJudged
<1>8. SkipsLack(d, TT, o, new)
  BY <1>4, <1>5, <1>6, Zenon DEF SkipsLack
<1>9. InspectedParents(d, TT, at) \subseteq Passed(new)
  <2>1. InspectedParents(d, TT, at) \subseteq Passed(o)
    BY <1>3, Zenon DEF AllDependenciesSucceeded, Passed
  <2>. QED
    BY <1>6, <2>1, Zenon
<1>10. ASSUME NEW k \in 1..(next - 1) PROVE new.test_states[d.test_sequence[k]] # "Pending"
  <2>1. k \in 1..TestCount(d) /\ d.test_sequence[k] \in Test /\ k < next
    BY <1>2, <1>3 DEF Ordered
  <2>2. CASE k <= LastStepLeft(o)
    <3>1. o.test_states[d.test_sequence[k]] # "Pending"
      BY <1>2, <2>2 DEF RecordedJudged, JudgedUpTo
    <3>. QED
      BY <1>4, <2>1, <3>1, Zenon
  <2>3. CASE ~(k <= LastStepLeft(o))
    <3>1. k \in StepsTried(d, o)
      <4>1. ~FailuresReached(d, o)
        BY <1>2, <1>3, <2>1 DEF StepsTried
      <4>. QED
        BY <1>2, <2>1, <2>3, <4>1 DEF StepsTried
    <3>2. k \notin StepsOkay(d, TT, o, late)
      BY <1>2, <1>3, <2>1
    <3>3. o.test_states[d.test_sequence[k]] = "Pending"
      BY <1>2, <2>1, <2>3 DEF RecordedInv, PendingFrom
    <3>4. MayRun(d, o, k, late) /\ ~StepOkay(d, TT, o, k, late)
      <4>1. k < late
        BY <1>3, <2>1
      <4>. QED
        BY <1>3, <3>1, <3>2, <3>3, <4>1, Zenon DEF MayRun, StepsOkay
    <3>5. d.test_sequence[k] \in S
      BY <2>1, <3>1, <3>4, Zenon DEF S, SkippedBefore
    <3>. QED
      BY <1>4, <2>1, <3>5, Zenon
  <2>. QED
    BY <2>2, <2>3, Zenon
<1>11. RequirementsInv(d, TT, new)
  BY <1>3, <1>4, <1>7, <1>9, <1>10 DEF RequirementsInv, JudgedUpTo, OverPhase
<1>. QED
  BY <1>8, <1>11, Zenon DEF new, base, S

\* No test is left: every one has its verdict, or the run was cut short.
LEMMA PastTestsJudges ==
    ASSUME NEW d, NEW TT, Ordered(d, TT), NEW o \in ScenarioObject, NEW late \in LateSteps(d, o),
           StepsOkay(d, TT, o, late) = {}, RecordedInv(d, o), RecordedJudged(d, TT, o),
           LeavesForTests(d, o), NEW phase \in OverPhase
    PROVE  LET new == Over(d, TT, o, late, phase)
           IN  RequirementsInv(d, TT, new) /\ SkipsLack(d, TT, o, new)
<1>. DEFINE S == SkippedBefore(d, TT, o, late, TestCount(d) + 1)
            base == Skipping(o, S)
            over == [base EXCEPT !.timed_out = @ \/ \E k \in StepsTried(d, o) : k >= late]
            new == Over(d, TT, o, late, phase)
<1>0. new = [over EXCEPT !.state = phase]
  BY Zenon DEF Over
<1>1. /\ base \in ScenarioObject /\ base.exec_start_state = o.exec_start_state
      /\ \A t \in Test : base.test_states[t] = IF t \in S THEN "Skip" ELSE o.test_states[t]
  BY SkippingFields
<1>2. LastStepLeft(o) \in Nat /\ TestCount(d) \in Nat /\ late \in 1..(TestCount(d) + 1)
  BY Zenon DEF LastStepLeft, ScenarioObject, Ordered, LateSteps
<1>. HIDE DEF base
<1>3. /\ new.state = phase /\ new.exec_start_state = o.exec_start_state
      /\ new.test_states = base.test_states
  BY <1>0, <1>1, Zenon DEF ScenarioObject
<1>. HIDE DEF new
<1>4. \A t \in Test : new.test_states[t] = IF t \in S THEN "Skip" ELSE o.test_states[t]
  BY <1>1, <1>3, Zenon
<1>5. \A t \in S : /\ o.test_states[t] = "Pending" /\ t \in Test /\ t \in TestsOf(d)
                   /\ \E p \in InspectedParents(d, TT, t) : p \notin Passed(o)
  BY SkippedPending, SkippedLacks DEF RecordedJudged
<1>. HIDE DEF S
<1>6. Passed(new) = Passed(o)
  BY <1>4, <1>5, Zenon DEF Passed
<1>7. Closed(d, TT, new) /\ o.exec_start_state # "Skip"
  BY <1>6, Zenon DEF Closed, RecordedJudged
<1>8. SkipsLack(d, TT, o, new)
  BY <1>4, <1>5, <1>6, Zenon DEF SkipsLack
<1>9. ASSUME ~MayStop(d), o.exec_start_state # "Fail", NEW k \in 1..TestCount(d)
      PROVE  new.test_states[d.test_sequence[k]] # "Pending"
  <2>1. d.test_sequence[k] \in Test /\ k < late /\ ~FailuresReached(d, o)
    BY <1>2, <1>9 DEF Ordered, MayStop, LateSteps, FailuresReached
  <2>2. CASE k <= LastStepLeft(o)
    <3>1. o.test_states[d.test_sequence[k]] # "Pending"
      BY <1>2, <2>2 DEF RecordedJudged, JudgedUpTo
    <3>. QED
      BY <1>4, <2>1, <3>1, Zenon
  <2>3. CASE ~(k <= LastStepLeft(o))
    <3>1. k \in StepsTried(d, o) /\ k < TestCount(d) + 1
      BY <1>2, <2>1, <2>3 DEF StepsTried
    <3>2. o.test_states[d.test_sequence[k]] = "Pending"
      BY <1>2, <2>1, <2>3 DEF RecordedInv, PendingFrom
    <3>3. MayRun(d, o, k, late) /\ ~StepOkay(d, TT, o, k, late)
      BY <1>9, <2>1, <3>1, <3>2, Zenon DEF MayRun, StepsOkay
    <3>4. d.test_sequence[k] \in S
      BY <2>1, <3>1, <3>3, Zenon DEF S, SkippedBefore
    <3>. QED
      BY <1>4, <2>1, <3>4, Zenon
  <2>. QED
    BY <2>2, <2>3, Zenon
<1>10. CutOrJudged(d, new)
  BY <1>3, <1>9, Zenon DEF CutOrJudged, JudgedUpTo
<1>11. RequirementsInv(d, TT, new)
  BY <1>3, <1>7, <1>10, Zenon DEF RequirementsInv, OverPhase
<1>. QED
  BY <1>8, <1>11, Zenon DEF new

-----------------------------------------------------------------------------
(***************************************************************************)
(* Verdicts and requirements, in every state.                              *)
(***************************************************************************)
\* What an advance makes of a scenario's object: `new', from the recorded one o.
JudgedStep(d, TT, o, new) ==
    /\ RequirementsInv(d, TT, new)
    /\ SkipsLack(d, TT, o, new)
    /\ o.state \in OverPhase => new.test_states = o.test_states

\* The phase alone does not matter for what was judged.
LEMMA JudgedSame ==
    ASSUME NEW d, NEW TT, NEW o, NEW new, new.test_states = o.test_states,
           new.exec_start_state = o.exec_start_state
    PROVE  /\ Passed(new) = Passed(o)
           /\ Closed(d, TT, o) => Closed(d, TT, new)
           /\ CutOrJudged(d, o) => CutOrJudged(d, new)
           /\ SkipsLack(d, TT, o, new)
<1>1. Passed(new) = Passed(o)
  BY Zenon DEF Passed
<1>2. SkipsLack(d, TT, o, new)
  BY Zenon DEF SkipsLack
<1>. QED
  BY <1>1, <1>2, Zenon DEF Closed, CutOrJudged, JudgedUpTo

\* An advance that kills the main thread.
AdvancePanics == Panic("index") \/ Panic("duration")

\* advance() leaves a scenario's verdicts closed under requirements.
LEMMA AdvanceJudges ==
    ASSUME TypeOK, StepInRange, VerdictInv, JudgedInv, HandleAdvanceScenario
    PROVE  /\ library' = library
           /\ \/ AdvancePanics
              \/ \E new : /\ scenario' = [scenario EXCEPT ![current] = new]
                          /\ JudgedStep(Desc(current), T, Recorded, new)
<1>. DEFINE o == Recorded
            d == Desc(current)
            old == scenario[current]
<1>1. /\ current \in Scenario /\ Head(queue).result \in Result /\ old \in ScenarioObject
  <2>1. Handling("AdvanceScenario") /\ current # None
    BY Zenon DEF HandleAdvanceScenario
  <2>. QED
    BY <2>1, AdvanceTypes, HeadTypes, MessageFields, Zenon DEF Handling, TypeOK
<1>2. Ordered(d, T) /\ ObjectInv(d, old) /\ RequirementsInv(d, T, old)
  BY <1>1, LibraryOrdered, Zenon DEF VerdictInv, JudgedInv
<1>3. /\ o \in ScenarioObject /\ o.state = old.state
      /\ old.state \notin {"Running", "PreStart"} => o = old
  <2>1. o = RecordResult(d, old, Head(queue).result)
    BY Zenon DEF Recorded
  <2>. HIDE DEF o, d, old
  <2>2. o \in ScenarioObject /\ o.state = old.state
    BY <1>1, <2>1, RecordType, Zenon
  <2>3. ASSUME old.state \notin {"Running", "PreStart"} PROVE o = old
    BY <1>1, <2>1, <2>3, Zenon DEF RecordResult, ScenarioObject
  <2>. QED
    BY <2>2, <2>3, Zenon
<1>4. RecordedInv(d, o)
  BY <1>1, <1>2, RecordKeeps, Zenon DEF Recorded
<1>5. RecordedJudged(d, T, o)
  BY <1>1, <1>2, RecordJudges, Zenon DEF Recorded
<1>6. TestCount(d) \in Nat
  BY <1>2, Zenon DEF Ordered
<1>7. library' = library
  BY Zenon DEF HandleAdvanceScenario, AdvanceToExecStart, AdvanceToTest, AdvancePastTests,
     AdvanceWithoutTests, AdvanceToEnd, Finish, RunSupportCommand, Handled, Panic
<1>. HIDE DEF o, d, old
<1>8. CASE AdvanceToExecStart(o)
  <2>. DEFINE new == [o EXCEPT !.state = "PreStart"]
  <2>1. o.state = "Idle" /\ scenario' = [scenario EXCEPT ![current] = new]
    BY <1>8, Zenon DEF AdvanceToExecStart
  <2>2. /\ new.state = "PreStart" /\ new.exec_start_state = o.exec_start_state
        /\ new.test_states = o.test_states
    BY <1>3, Zenon DEF ScenarioObject
  <2>. HIDE DEF new
  <2>3. SkipsLack(d, T, o, new) /\ Closed(d, T, new)
    BY <1>5, <2>2, JudgedSame, Zenon DEF RecordedJudged
  <2>4. RequirementsInv(d, T, new)
    BY <1>5, <2>1, <2>2, <2>3 DEF RequirementsInv, RecordedJudged, OverPhase
  <2>. QED
    BY <1>7, <2>1, <2>2, <2>3, <2>4, Zenon DEF d, o, JudgedStep
<1>9. CASE AdvanceWithoutTests(o)
  BY <1>7, <1>9, Zenon DEF AdvanceWithoutTests, AdvancePanics
<1>10. CASE AdvanceToEnd(o)
  <2>. DEFINE new == [o EXCEPT !.state = "ScenarioFinished"]
  <2>1. o.state \in OverPhase /\ scenario' = [scenario EXCEPT ![current] = new]
    BY <1>10, Zenon DEF AdvanceToEnd, Finish, OverPhase
  <2>2. /\ new.state = "ScenarioFinished" /\ new.exec_start_state = o.exec_start_state
        /\ new.test_states = o.test_states
    BY <1>3, Zenon DEF ScenarioObject
  <2>. HIDE DEF new
  <2>3. SkipsLack(d, T, o, new) /\ Closed(d, T, new) /\ CutOrJudged(d, new)
    BY <1>5, <2>1, <2>2, JudgedSame, Zenon DEF RecordedJudged
  <2>4. RequirementsInv(d, T, new)
    BY <1>5, <2>1, <2>2, <2>3, Zenon DEF RequirementsInv, RecordedJudged
  <2>. QED
    BY <1>7, <2>1, <2>2, <2>3, <2>4, Zenon DEF d, o, JudgedStep
<1>11. ASSUME NEW late \in LateSteps(d, o), AdvancePastTests(o, late)
       PROVE  \E new : /\ scenario' = [scenario EXCEPT ![current] = new]
                       /\ JudgedStep(d, T, o, new)
  <2>1. LeavesForTests(d, o) /\ StepsOkay(d, T, o, late) = {} /\ o.state \notin OverPhase
    BY <1>6, <1>11, Zenon DEF AdvancePastTests, LeavesForTests, OverPhase, d
  <2>2. \A phase \in OverPhase : JudgedStep(d, T, o, Over(d, T, o, late, phase))
    BY <1>2, <1>3, <1>4, <1>5, <2>1, PastTestsJudges DEF JudgedStep
  <2>3. PostPhase(d, o) \in OverPhase /\ "ScenarioFinished" \in OverPhase
    BY Zenon DEF PostPhase, OverPhase
  <2>4. \/ scenario' = [scenario EXCEPT ![current] = Over(d, T, o, late, PostPhase(d, o))]
        \/ scenario' = [scenario EXCEPT ![current] = Over(d, T, o, late, "ScenarioFinished")]
    BY <1>11, Zenon DEF AdvancePastTests, Finish, d, Over
  <2>. QED
    BY <2>2, <2>3, <2>4, Zenon
<1>12. ASSUME NEW late \in LateSteps(d, o), NEW next \in 1..TestCount(d),
              AdvanceToTest(o, late, next)
       PROVE  \/ AdvancePanics
              \/ \E new : /\ scenario' = [scenario EXCEPT ![current] = new]
                          /\ JudgedStep(d, T, o, new)
  <2>. DEFINE new == [Skipping(o, SkippedBefore(d, T, o, late, next)) EXCEPT
                        !.state = "Running", !.step = next]
  <2>1. /\ LeavesForTests(d, o) /\ next \in StepsOkay(d, T, o, late) /\ late \in Int
        /\ \A k \in StepsOkay(d, T, o, late) : next <= k
        /\ o.state \notin OverPhase
    BY <1>6, <1>12 DEF AdvanceToTest, LateSteps, LeavesForTests, OverPhase, d
  <2>2. JudgedStep(d, T, o, new)
    BY <1>2, <1>3, <1>4, <1>5, <2>1, ToTestJudges, Zenon DEF JudgedStep
  <2>3. AdvancePanics \/ scenario' = [scenario EXCEPT ![current] = new]
    BY <1>12, Zenon DEF AdvanceToTest, AdvancePanics, d
  <2>. HIDE DEF new
  <2>. QED
    BY <2>2, <2>3, Zenon
<1>. QED
  BY <1>7, <1>8, <1>9, <1>10, <1>11, <1>12 DEF HandleAdvanceScenario, o, d

\* A scenario that was activated anew has no verdicts.
LEMMA FreshJudged ==
    ASSUME NEW d, NEW TT
    PROVE  RequirementsInv(d, TT, FreshScenario)
<1>1. /\ FreshScenario.state = "Idle" /\ FreshScenario.exec_start_state = "Pending"
      /\ \A t \in Test : FreshScenario.test_states[t] = "Pending"
  BY Zenon DEF FreshScenario
<1>2. Passed(FreshScenario) = {}
  BY <1>1, Zenon DEF Passed
<1>. QED
  BY <1>1, <1>2, Zenon DEF RequirementsInv, Closed, OverPhase

\* Every step keeps the verdicts closed under requirements.
LEMMA JudgedKept ==
    ASSUME TypeOK, StepInRange, VerdictInv, JudgedInv, [Next]_vars
    PROVE  JudgedInv'
<1>1. CASE Elsewhere
  <2>1. library' = library /\ \A s \in Scenario : scenario'[s] \in {scenario[s], FreshScenario}
    BY <1>1, ScenarioElsewhere, Zenon
  <2>2. T' = T /\ \A s \in Scenario : Desc(s)' = Desc(s)
    BY <2>1, Zenon DEF Desc, T
  <2>. QED
    BY <2>1, <2>2, FreshJudged, Zenon DEF JudgedInv
<1>2. CASE HandleAdvanceScenario
  <2>1. /\ library' = library
        /\ \/ scenario' = scenario
           \/ \E new : /\ scenario' = [scenario EXCEPT ![current] = new]
                       /\ JudgedStep(Desc(current), T, Recorded, new)
    BY <1>2, AdvanceJudges, Zenon DEF AdvancePanics, Panic
  <2>2. T' = T /\ \A s \in Scenario : Desc(s)' = Desc(s)
    BY <2>1, Zenon DEF Desc, T
  <2>3. \A s \in Scenario : RequirementsInv(Desc(s), T, scenario'[s])
    <3>1. CASE scenario' = scenario
      BY <3>1, Zenon DEF JudgedInv
    <3>2. ASSUME NEW new, scenario' = [scenario EXCEPT ![current] = new],
                 JudgedStep(Desc(current), T, Recorded, new), NEW s \in Scenario
          PROVE  RequirementsInv(Desc(s), T, scenario'[s])
      <4>1. scenario'[s] = IF s = current THEN new ELSE scenario[s]
        BY <3>2, Zenon DEF TypeOK
      <4>. QED
        BY <3>2, <4>1, Zenon DEF JudgedInv, JudgedStep
    <3>. QED
      BY <2>1, <3>1, <3>2, Zenon
  <2>. QED
    BY <2>2, <2>3, Zenon DEF JudgedInv
<1>3. CASE AdvanceNothing \/ UNCHANGED vars
  <2>1. library' = library /\ scenario' = scenario
    BY <1>3, Zenon DEF AdvanceNothing, Handled, vars, managerVars
  <2>2. T' = T /\ \A s \in Scenario : Desc(s)' = Desc(s)
    BY <2>1, Zenon DEF Desc, T
  <2>. QED
    BY <2>1, <2>2, Zenon DEF JudgedInv
<1>. QED
  BY <1>1, <1>2, <1>3, NextSplit

\* Whatever clients ask for: a test that passed has passed what it requires, the test at
\* the step may run, every step before it is judged, and a run that is over is complete
\* or was cut short (all_dependencies_succeeded and find_next_state,
\* scenario.rs:712-840).
THEOREM RequirementsComeFirst == Spec => []JudgedInv
<1>1. Init => JudgedInv
  BY FreshJudged DEF Init, JudgedInv
<1>2. TypeOK /\ StepInRange /\ VerdictInv /\ JudgedInv /\ [Next]_vars => JudgedInv'
  BY JudgedKept, Zenon
<1>. QED
  BY <1>1, <1>2, TypeCorrect, VerdictInvariant, PTL DEF Spec

-----------------------------------------------------------------------------
(***************************************************************************)
(* Every step of a lone scenario is one of the promise, or is not seen.    *)
(***************************************************************************)
\* What the scenario's file says does not change.
LEMMA ContractStays ==
    ASSUME UNCHANGED <<library, current>>
    PROVE  ContractSeen' = ContractSeen
BY Zenon DEF ContractSeen, Desc, T

\* The parts of the contract.
LEMMA ContractParts ==
    /\ ContractSeen.tests = TestsOf(Desc(current))
    /\ \A t \in Test : ContractSeen.needs[t] = InspectedParents(Desc(current), T, t)
    /\ ContractSeen.may_stop = MayStop(Desc(current))
BY Zenon DEF ContractSeen, MayStop

\* A step that clients cannot see.
LEMMA UnseenStutters ==
    ASSUME Unseen
    PROVE  UNCHANGED Promise!vars
<1>1. ContractSeen' = ContractSeen
  BY ContractStays, Zenon DEF Unseen
<1>. QED
  BY <1>1, Zenon DEF Unseen, Promise!vars

\* A client's start begins a run, or breaks the program.
LEMMA StartIsPromised ==
    ASSUME Lone, Known, TypeOK', LoneBasics, DriverInv, EndInv, StartSelected, Named \notin active
    PROVE  Promise!Start \/ Promise!Break
<1>1. /\ UNCHANGED <<library, current, finish>> /\ Object' = FreshScenario
      /\ \/ PhaseSeen = "idle" /\ PhaseSeen' = "running"
         \/ PhaseSeen = "finishing" /\ PhaseSeen' = "broken"
  BY RunStarted, Zenon
<1>2. ContractSeen' = ContractSeen
  BY <1>1, ContractStays, Zenon
<1>3. /\ (scenario[current].exec_start_state)' = "Pending"
      /\ (scenario[current].test_states)' = [t \in Test |-> "Pending"]
  BY <1>1 DEF Object, FreshScenario
<1>4. [t \in Test |-> "Pending"] \in [Test -> {"Pending", "Pass", "Fail", "Skip"}]
  BY Zenon
<1>5. CASE PhaseSeen = "idle" /\ PhaseSeen' = "running"
  BY <1>1, <1>2, <1>3, <1>5, Zenon DEF Promise!Start, Promise!NoVerdict
<1>6. CASE PhaseSeen = "finishing" /\ PhaseSeen' = "broken"
  BY <1>1, <1>2, <1>3, <1>4, <1>6 DEF Promise!Break
<1>. QED
  BY <1>1, <1>5, <1>6, Zenon

\* The promise counts as the standard module does.
LEMMA PromiseCounts ==
    ASSUME NEW S
    PROVE  Promise!Cardinality(S) = Cardinality(S)
BY Zenon DEF Promise!Cardinality, Cardinality

\* The announcement carries the code of the verdicts.
LEMMA EndIsPromised ==
    ASSUME Lone, Known, FailuresAreVerdicts, TypeOK', LoneBasics, DriverInv, EndInv,
           HandleScenarioFinished
    PROVE  Promise!Announce \/ UNCHANGED Promise!vars
<1>1. /\ UNCHANGED <<library, current, scenario>>
      /\ \/ finish' = finish /\ PhaseSeen' = PhaseSeen
         \/ /\ PhaseSeen = "finishing" /\ PhaseSeen' = "idle"
            /\ finish' = FinishCode(Object)
  BY EndAnnounced, Zenon
<1>2. ContractSeen' = ContractSeen
  BY <1>1, ContractStays, Zenon
<1>3. CASE finish' = finish /\ PhaseSeen' = PhaseSeen
  BY <1>1, <1>3, UnseenStutters, Zenon DEF Unseen
<1>4. CASE PhaseSeen = "finishing" /\ PhaseSeen' = "idle" /\ finish' = FinishCode(Object)
  <2>1. current \in Scenario /\ Object.failures \in Nat
    BY Zenon DEF LoneBasics, Known, TypeOK, Object, ScenarioObject
  <2>2. Object.failures = Promise!Failures
    <3>1. Object.failures =
             Cardinality({t \in TestsOf(Desc(current)) : Object.test_states[t] = "Fail"})
             + (IF Object.exec_start_state = "Fail" THEN 1 ELSE 0)
      BY <2>1, Zenon DEF FailuresAreVerdicts, Object
    <3>2. Promise!Failures =
             Cardinality({t \in ContractSeen.tests : scenario[current].test_states[t] = "Fail"})
             + (IF scenario[current].exec_start_state = "Fail" THEN 1 ELSE 0)
      BY PromiseCounts, Zenon DEF Promise!Failures
    <3>3. ContractSeen.tests = TestsOf(Desc(current))
      BY ContractParts, Zenon
    <3>. QED
      BY <3>1, <3>2, <3>3, Zenon DEF Object
  <2>3. FinishCode(Object) = IF Promise!Failures = 0 THEN 200 ELSE 500 + Promise!Failures
    <3>1. \A n \in Nat : n > 0 <=> n # 0
      OBVIOUS
    <3>. QED
      BY <2>1, <2>2, <3>1 DEF FinishCode
  <2>4. finish' = IF Promise!Failures = 0 THEN 200 ELSE 500 + Promise!Failures
    BY <1>4, <2>3, Zenon
  <2>. QED
    BY <1>1, <1>2, <1>4, <2>4 DEF Promise!Announce
<1>. QED
  BY <1>1, <1>3, <1>4, Zenon

\* A test's requirements are tests.
LEMMA InspectedTypes ==
    ASSUME TypeOK, NEW d
    PROVE  \A t \in Test : InspectedParents(d, T, t) \subseteq Test
<1>. SUFFICES ASSUME NEW t \in Test PROVE InspectedParents(d, T, t) \subseteq Test
  BY Zenon
<1>1. T[t] \in TestDescription
  BY LibraryTypes, Zenon
<1>2. T[t].requires \in Seq(Test)
  BY <1>1, Zenon DEF TestDescription
<1>. DEFINE requires == T[t].requires
<1>. HIDE DEF requires
<1>3. \A k \in 1..Len(requires) : requires[k] \in Test
  BY <1>2, ElementOfSeq, Zenon DEF requires
<1>. QED
  BY <1>3, Zenon DEF InspectedParents, requires

\* A run that cannot go on breaks the program.
LEMMA PanicIsPromised ==
    ASSUME Lone, Known, LoneBasics, DriverInv, JudgedInv, EndInv, HandleAdvanceScenario, AdvancePanics
    PROVE  EndInv' /\ Promise!Break
<1>0. Handling("AdvanceScenario") /\ Head(queue).what = "AdvanceScenario"
  BY Zenon DEF HandleAdvanceScenario, Handling
<1>1. /\ TypeOK /\ Alive /\ out = <<>> /\ queue # <<>> /\ current \in Scenario /\ current \in active
  BY <1>0, AdvanceFrom, Zenon
<1>2. UNCHANGED <<library, current, scenario, finish>> /\ ~Alive'
  BY Zenon DEF AdvancePanics, Panic, managerVars, viewVars, Alive
<1>3. ContractSeen' = ContractSeen
  BY <1>2, ContractStays, Zenon
<1>4. PhaseSeen = "running"
  <2>1. NotEnding(Pending, current)
    BY <1>0, <1>1, MovingNotEnding, Zenon
  <2>2. PhaseOf(Alive, Pending, current, active) = "running"
    BY <1>1, <2>1, Zenon DEF PhaseOf, NotEnding
  <2>. QED
    BY <2>2, PhaseForms, Zenon
<1>5. PhaseSeen' = "broken"
  BY <1>2, Zenon DEF PhaseSeen
<1>6. /\ (scenario[current].exec_start_state)' \in {"Pending", "Pass", "Fail"}
      /\ (scenario[current].test_states)' \in [Test -> {"Pending", "Pass", "Fail", "Skip"}]
  <2>1. scenario[current] \in ScenarioObject /\ scenario[current].exec_start_state # "Skip"
    BY <1>1, Zenon DEF TypeOK, JudgedInv, RequirementsInv
  <2>2. /\ scenario[current].exec_start_state \in TestState
        /\ scenario[current].test_states \in [Test -> TestState]
    BY <2>1, Zenon DEF ScenarioObject
  <2>. QED
    BY <1>2, <2>1, <2>2, Zenon DEF TestState
<1>7. EndInv'
  BY <1>2, Zenon DEF EndInv
<1>. QED
  BY <1>2, <1>3, <1>4, <1>5, <1>6, <1>7, Zenon DEF Promise!Break

\* How an advance changes the verdicts of object o into those of new: it records the
\* command before the tests, or one test whose requirements passed, and skips S.
AdvanceSeen(d, TT, o, new, S) ==
    \/ /\ o.exec_start_state = "Pending" /\ \A t \in Test : o.test_states[t] = "Pending"
       /\ \A u \in Test : new.test_states[u] = IF u \in S THEN "Skip" ELSE o.test_states[u]
    \/ /\ o.exec_start_state # "Fail" /\ new.exec_start_state = o.exec_start_state
       /\ \E t \in TestsOf(d) \ S, result \in {"Pass", "Fail"} :
             /\ o.test_states[t] = "Pending"
             /\ \A p \in InspectedParents(d, TT, t) : o.test_states[p] = "Pass"
             /\ \A u \in Test : new.test_states[u] =
                   IF u = t THEN result ELSE IF u \in S THEN "Skip" ELSE o.test_states[u]
    \/ /\ new.exec_start_state = o.exec_start_state /\ S = {}
       /\ \A u \in Test : new.test_states[u] = o.test_states[u]

\* An advance records one result at most, and what it skips lacks a requirement.
LEMMA AdvanceIsSeen ==
    ASSUME Lone, Known, LoneBasics, DriverInv, JudgedInv, HandleAdvanceScenario,
           NEW S, NEW new, AdvancedTo(S, new), JudgedStep(Desc(current), T, Recorded, new)
    PROVE  /\ AdvanceSeen(Desc(current), T, Object, new, S) /\ S \subseteq TestsOf(Desc(current))
           /\ \A u \in S : /\ Object.test_states[u] = "Pending"
                           /\ \E p \in InspectedParents(Desc(current), T, u) :
                                 new.test_states[p] # "Pass"
<1>. DEFINE d == Desc(current)
            o == Object
            r == Recorded
<1>0. Handling("AdvanceScenario")
  BY Zenon DEF HandleAdvanceScenario
<1>1. /\ TypeOK /\ queue # <<>> /\ current \in Scenario /\ current # None
      /\ r.state = o.state /\ r.state # "ScenarioFinished"
  BY <1>0, AdvanceFrom, Zenon
<1>2. /\ S \subseteq Test /\ (\A t \in S : r.test_states[t] = "Pending") /\ new \in ScenarioObject
      /\ \A t \in Test : new.test_states[t] = IF t \in S THEN "Skip" ELSE r.test_states[t]
      /\ new.exec_start_state = r.exec_start_state
  BY Zenon DEF AdvancedTo, SkipsAndKeeps
<1>3. Head(queue).result \in Result /\ o \in ScenarioObject
  BY <1>0, <1>1, HeadTypes, MessageFields, Zenon DEF Handling, TypeOK, Object
<1>4. \A t \in Test : r.test_states[t] = IF o.state = "Running" /\ t = TestAt
                                         THEN Verdict(Head(queue).result) ELSE o.test_states[t]
  BY <1>0, <1>1, RecordedStates, Zenon
<1>5. o.state # "PreStart" => r.exec_start_state = o.exec_start_state
  <2>. DEFINE result == Head(queue).result
  <2>1. r = RecordResult(d, o, result) /\ result \in Result
    BY <1>3, Zenon DEF Recorded, Object
  <2>. HIDE DEF r, d, o, result
  <2>2. RecordResult(d, o, result).exec_start_state =
           IF o.state = "PreStart" THEN Verdict(result) ELSE o.exec_start_state
    BY <1>3, <2>1, Zenon DEF RecordResult, ScenarioObject
  <2>. QED
    BY <2>1, <2>2, Zenon
<1>6. RequirementsInv(d, T, o) /\ ObjectInv(d, o)
  BY <1>1, Zenon DEF JudgedInv, Known, VerdictInv, Object
<1>7. Verdict(Head(queue).result) \in {"Pass", "Fail"}
  BY Zenon DEF Verdict
<1>8. \A u \in S : o.test_states[u] = "Pending"
  BY <1>2, <1>4, <1>7, Zenon
<1>9. \A t \in Test : InspectedParents(d, T, t) \subseteq Test
  BY <1>1, InspectedTypes, Zenon
<1>10. ASSUME NEW u \in S
       PROVE  u \in TestsOf(d) /\ \E p \in InspectedParents(d, T, u) : new.test_states[p] # "Pass"
  <2>1. u \in Test /\ r.test_states[u] = "Pending" /\ new.test_states[u] = "Skip"
    BY <1>2, Zenon
  <2>2. u \in TestsOf(d) /\ \E p \in InspectedParents(d, T, u) : p \notin Passed(new)
    BY <2>1, Zenon DEF JudgedStep, SkipsLack
  <2>. QED
    BY <1>9, <2>1, <2>2, Zenon DEF Passed
<1>11. AdvanceSeen(d, T, o, new, S)
  <2>1. CASE o.state \in {"Idle", "PreStart"}
    <3>1. o.exec_start_state = "Pending" /\ \A t \in Test : o.test_states[t] = "Pending"
      BY <1>6, <2>1, Zenon DEF RequirementsInv, ObjectInv
    <3>2. \A u \in Test : new.test_states[u] = IF u \in S THEN "Skip" ELSE o.test_states[u]
      BY <1>2, <1>4, <2>1, Zenon
    <3>. QED
      BY <3>1, <3>2, Zenon DEF AdvanceSeen
  <2>2. CASE o.state = "Running"
    <3>1. /\ o.exec_start_state # "Fail" /\ InspectedParents(d, T, TestAt) \subseteq Passed(o)
      BY <1>6, <2>2, Zenon DEF RequirementsInv, TestAt, Object
    <3>2. TestAt \in TestsOf(d) /\ TestAt \in Test /\ o.test_states[TestAt] = "Pending"
      BY <1>1, <2>2, TestAtFacts, TestAtPending, Zenon DEF TestsOf, TestAt, Object
    <3>3. TestAt \notin S
      BY <1>2, <1>4, <1>7, <2>2, <3>2, Zenon
    <3>4. \A u \in Test : new.test_states[u] =
             IF u = TestAt THEN Verdict(Head(queue).result)
             ELSE IF u \in S THEN "Skip" ELSE o.test_states[u]
      BY <1>2, <1>4, <2>2, <3>3, Zenon
    <3>5. \A p \in InspectedParents(d, T, TestAt) : o.test_states[p] = "Pass"
      BY <3>1, Zenon DEF Passed
    <3>6. new.exec_start_state = o.exec_start_state
      BY <1>2, <1>5, <2>2, Zenon
    <3>. HIDE DEF d, o
    <3>. QED
      BY <1>7, <3>1, <3>2, <3>3, <3>4, <3>5, <3>6, Zenon DEF AdvanceSeen
  <2>3. CASE o.state \in {"PostSuccess", "PostFailure"}
    <3>1. new.test_states = r.test_states
      BY <1>1, <2>3, Zenon DEF JudgedStep, OverPhase
    <3>2. S = {}
      <4>1. ASSUME NEW u \in S PROVE FALSE
        <5>1. u \in Test /\ r.test_states[u] = "Pending" /\ new.test_states[u] = "Skip"
          BY <1>2, Zenon
        <5>. QED
          BY <3>1, <5>1, Zenon
      <4>. QED
        BY <4>1, Zenon
    <3>3. \A u \in Test : new.test_states[u] = o.test_states[u]
      BY <1>4, <2>3, <3>1, Zenon
    <3>. QED
      BY <1>2, <1>5, <2>3, <3>2, <3>3, Zenon DEF AdvanceSeen
  <2>. QED
    BY <1>1, <1>3, <2>1, <2>2, <2>3, Zenon DEF ScenarioObject, Phase
<1>. QED
  BY <1>8, <1>10, <1>11, Zenon

\* A run moves on as promised, until it breaks.
LEMMA AdvanceIsPromised ==
    ASSUME Lone, Known, TypeOK', LoneBasics, DriverInv, JudgedInv, EndInv, HandleAdvanceScenario
    PROVE  EndInv' /\ (Promise!Advance \/ Promise!Break)
<1>1. CASE AdvancePanics
  BY <1>1, PanicIsPromised, Zenon
<1>2. CASE ~AdvancePanics
  <2>1. PICK S, new : AdvancedTo(S, new)
    BY <1>2, AdvanceOutcome, Zenon DEF AdvancePanics
  <2>. DEFINE d == Desc(current)
              o == Object
  <2>2. /\ EndInv' /\ UNCHANGED <<library, current, finish>> /\ Object' = new
        /\ PhaseSeen = "running"
        /\ \/ PhaseSeen' = "running"
           \/ PhaseSeen' = "finishing" /\ new.state = "ScenarioFinished"
    BY <2>1, RunAdvanced, Zenon
  <2>3. current \in Scenario /\ scenario \in [Scenario -> ScenarioObject]
    BY Zenon DEF LoneBasics, Known, TypeOK
  <2>4. JudgedStep(d, T, Recorded, new)
    <3>1. PICK n : scenario' = [scenario EXCEPT ![current] = n] /\ JudgedStep(d, T, Recorded, n)
      BY <1>2, AdvanceJudges, Zenon DEF Known
    <3>2. n = new
      BY <2>2, <2>3, <3>1, Zenon DEF Object
    <3>. QED
      BY <3>1, <3>2, Zenon
  <2>5. /\ AdvanceSeen(d, T, o, new, S) /\ S \subseteq TestsOf(d)
        /\ \A u \in S : /\ o.test_states[u] = "Pending"
                        /\ \E p \in InspectedParents(d, T, u) : new.test_states[p] # "Pass"
    BY <2>1, <2>4, AdvanceIsSeen
  <2>6. ContractSeen' = ContractSeen
    BY <2>2, ContractStays, Zenon
  <2>7. /\ ContractSeen.tests = TestsOf(d) /\ ContractSeen.may_stop = MayStop(d)
        /\ \A t \in Test : ContractSeen.needs[t] = InspectedParents(d, T, t)
    BY ContractParts, Zenon
  <2>8. /\ (scenario[current].exec_start_state)' = new.exec_start_state
        /\ (scenario[current].test_states)' = new.test_states
        /\ o = scenario[current]
    BY <2>2, Zenon DEF Object
  <2>9. /\ new \in ScenarioObject /\ new.exec_start_state \in {"Pending", "Pass", "Fail"}
    <3>1. new \in ScenarioObject /\ new.exec_start_state # "Skip"
      BY <2>1, <2>4, Zenon DEF AdvancedTo, SkipsAndKeeps, JudgedStep, RequirementsInv
    <3>. QED
      BY <3>1, Zenon DEF ScenarioObject, TestState
  <2>10. TestsOf(d) \subseteq Test
    BY <2>3, LibraryTypes, Zenon DEF Known
  <2>11. new.test_states \in [Test -> TestState]
    BY <2>9, Zenon DEF ScenarioObject
  <2>12. Promise!Skippable(S)
    BY <2>5, <2>7, <2>8, <2>10 DEF Promise!Skippable
  <2>13. new.state = "ScenarioFinished" => Promise!Complete
    <3>. SUFFICES ASSUME new.state = "ScenarioFinished" PROVE Promise!Complete
      BY Zenon
    <3>1. CutOrJudged(d, new)
      BY <2>4, Zenon DEF JudgedStep, RequirementsInv, OverPhase
    <3>2. JudgedUpTo(d, new, TestCount(d)) => \A t \in TestsOf(d) : new.test_states[t] # "Pending"
      BY Zenon DEF JudgedUpTo, TestsOf
    <3>. QED
      BY <2>7, <2>8, <3>1, <3>2, Zenon DEF CutOrJudged, Promise!Complete
  <2>14. \/ /\ scenario[current].exec_start_state = "Pending"
            /\ scenario[current].test_states = Promise!NoVerdict
            /\ (scenario[current].exec_start_state)' \in {"Pending", "Pass", "Fail"}
            /\ Promise!SkipsOnly(S)
         \/ /\ scenario[current].exec_start_state # "Fail"
            /\ \E t \in ContractSeen.tests \ S, result \in {"Pass", "Fail"} :
                  Promise!Judges(t, result, S)
            /\ UNCHANGED (scenario[current].exec_start_state)
         \/ Promise!SkipsOnly({}) /\ UNCHANGED (scenario[current].exec_start_state)
    <3>1. scenario[current].test_states \in [Test -> TestState]
      BY <2>3, Zenon DEF ScenarioObject
    <3>2. CASE /\ o.exec_start_state = "Pending" /\ \A t \in Test : o.test_states[t] = "Pending"
               /\ \A u \in Test : new.test_states[u] = IF u \in S THEN "Skip" ELSE o.test_states[u]
      <4>1. scenario[current].test_states = Promise!NoVerdict
        BY <2>8, <3>1, <3>2, Zenon DEF Promise!NoVerdict
      <4>2. Promise!SkipsOnly(S)
        BY <2>8, <2>11, <3>2, Zenon DEF Promise!SkipsOnly
      <4>. QED
        BY <2>8, <2>9, <3>2, <4>1, <4>2, Zenon
    <3>3. ASSUME o.exec_start_state # "Fail", new.exec_start_state = o.exec_start_state,
                 NEW t \in TestsOf(d) \ S, NEW result \in {"Pass", "Fail"},
                 o.test_states[t] = "Pending",
                 \A p \in InspectedParents(d, T, t) : o.test_states[p] = "Pass",
                 \A u \in Test : new.test_states[u] =
                   IF u = t THEN result ELSE IF u \in S THEN "Skip" ELSE o.test_states[u]
          PROVE  Promise!Judges(t, result, S)
      <4>1. new.test_states = [u \in Test |-> IF u = t THEN result
                                  ELSE IF u \in S THEN "Skip" ELSE o.test_states[u]]
        BY <2>11, <3>3, Zenon
      <4>2. \A p \in ContractSeen.needs[t] : o.test_states[p] = "Pass"
        BY <2>7, <2>10, <3>3, Zenon
      <4>. QED
        BY <2>8, <3>3, <4>1, <4>2, Zenon DEF Promise!Judges
    <3>4. CASE /\ new.exec_start_state = o.exec_start_state /\ S = {}
               /\ \A u \in Test : new.test_states[u] = o.test_states[u]
      <4>1. Promise!SkipsOnly({})
        BY <2>8, <2>11, <3>4, Zenon DEF Promise!SkipsOnly
      <4>. QED
        BY <2>8, <3>4, <4>1, Zenon
    <3>. QED
      BY <2>5, <2>7, <2>8, <3>2, <3>3, <3>4, Zenon DEF AdvanceSeen
  <2>15. Promise!Advance
    BY <2>2, <2>5, <2>6, <2>7, <2>12, <2>13, <2>14, Zenon DEF Promise!Advance
  <2>. QED
    BY <2>2, <2>15, Zenon
<1>. QED
  BY <1>1, <1>2, Zenon

\* Every step keeps the end of a run in its place, and is one of the promise.
LEMMA PromisedSteps ==
    ASSUME Lone, Known, FailuresAreVerdicts, TypeOK', LoneBasics, DriverInv, JudgedInv, EndInv,
           [Next]_vars
    PROVE  EndInv' /\ [Promise!Next]_(Promise!vars)
<1>1. ASSUME EndInv' /\ Unseen PROVE EndInv' /\ [Promise!Next]_(Promise!vars)
  BY <1>1, UnseenStutters, Zenon
<1>2. CASE UNCHANGED vars
  <2>1. UNCHANGED <<library, current, scenario, finish, active, threads, support, queue, out, panicked>>
    BY <1>2, Zenon DEF vars, managerVars, testVars, viewVars
  <2>2. Alive' = Alive /\ Pending' = Pending /\ Working' = Working /\ Object' = Object
    BY <2>1, Zenon DEF Alive, Pending, Working, Object
  <2>3. PhaseSeen' = PhaseSeen
    BY <2>1, <2>2, PhaseForms, Zenon
  <2>4. Unseen
    BY <2>1, <2>3, Zenon DEF Unseen
  <2>5. EndInv'
    BY <2>1, <2>2, Zenon DEF EndInv
  <2>. QED
    BY <1>1, <2>4, <2>5, Zenon
<1>3. CASE Next
  <2>1. LoneNext
    BY <1>3, LoneSteps, Zenon
  <2>2. CASE (\E r \in Requests : Request(r)) \/ Send
    BY <1>1, <2>2, SendingUnseen, Zenon
  <2>3. CASE TestThreads
    <3>1. \/ \E th \in threads : SimpleAdvances(th) \/ DaemonReady(th) \/ DaemonNotReady(th)
          \/ \E th \in threads, r \in Result :
                SimpleExits(th, r) \/ DaemonGivesUp(th) \/ DaemonExits(th, r)
      BY <2>3, Zenon DEF TestThreads, Result
    <3>2. CASE \E th \in threads : SimpleAdvances(th) \/ DaemonReady(th) \/ DaemonNotReady(th)
      BY <1>1, <3>2, ResultUnseen, Zenon
    <3>3. CASE \E th \in threads, r \in Result :
                  SimpleExits(th, r) \/ DaemonGivesUp(th) \/ DaemonExits(th, r)
      BY <1>1, <3>3, ExitUnseen, Zenon
    <3>. QED
      BY <3>1, <3>2, <3>3, Zenon
  <2>4. CASE \E r \in Result : SupportExits(current, r)
    BY <1>1, <2>4, ResultUnseen, Zenon
  <2>5. CASE HandleStartTest
    BY <1>1, <2>5, StartTestUnseen, Zenon
  <2>6. CASE HandleStopTest
    BY <1>1, <2>6, StoppingTestUnseen, StoppingScenarioUnseen, Zenon
  <2>7. CASE HandleTestStarted \/ HandleTestFinished \/ HandleSkip \/ StartRefused
    BY <1>1, <2>7, TellingUnseen, Zenon
  <2>8. CASE HandleScenarioFinished
    <3>1. EndInv' /\ (Promise!Announce \/ UNCHANGED Promise!vars)
      BY <2>8, EndAnnounced, EndIsPromised, Zenon
    <3>. QED
      BY <3>1, Zenon DEF Promise!Next
  <2>9. CASE StartSelected
    <3>1. CASE Named \in active
      BY <1>1, <2>9, <3>1, TellingUnseen, Zenon
    <3>2. CASE Named \notin active
      <4>1. EndInv' /\ (Promise!Start \/ Promise!Break)
        BY <2>9, <3>2, RunStarted, StartIsPromised, Zenon
      <4>. QED
        BY <4>1, Zenon DEF Promise!Next
    <3>. QED
      BY <3>1, <3>2, Zenon
  <2>10. CASE HandleAdvanceScenario
    <3>1. EndInv' /\ (Promise!Advance \/ Promise!Break)
      BY <2>10, AdvanceIsPromised, Zenon
    <3>. QED
      BY <3>1, Zenon DEF Promise!Next
  <2>. QED
    BY <2>1, <2>2, <2>3, <2>4, <2>5, <2>6, <2>7, <2>8, <2>9, <2>10 DEF LoneNext
<1>. QED
  BY <1>2, <1>3, Zenon

\* A scenario that was not started yet: nothing is on its way, and nothing is judged.
LEMMA PromisedInit ==
    ASSUME Init
    PROVE  EndInv /\ Promise!Init
<1>1. TypeOK
  BY TypeInit, Zenon
<1>2. /\ current \in Scenario /\ queue = <<>> /\ out = <<>> /\ active = {} /\ finish = 0 /\ Alive
      /\ scenario[current] = FreshScenario
  BY Zenon DEF Init, Alive
<1>3. Len(Pending) = 0
  BY <1>2, ConcatEmptySeq, EmptySeq, Zenon DEF Pending
<1>4. \A j : j \notin 1..0
  OBVIOUS
<1>5. ~EndIn(Pending) /\ ~StopIn(Pending, current)
  BY <1>3, <1>4, Zenon DEF EndIn, StopIn
<1>6. EndInv
  BY <1>5, Zenon DEF EndInv, EndState, NotEnding
<1>7. PhaseSeen = "idle"
  <2>1. PhaseOf(Alive, Pending, current, active) = "idle"
    BY <1>2, <1>5, Zenon DEF PhaseOf
  <2>. QED
    BY <2>1, PhaseForms, Zenon
<1>8. ContractSeen \in Promise!Contract
  <2>1. Desc(current) \in ScenarioDescription /\ TestsOf(Desc(current)) \subseteq Test
    BY <1>1, <1>2, LibraryTypes, Zenon
  <2>2. MayStop(Desc(current)) \in BOOLEAN
    BY <2>1, Zenon DEF ScenarioDescription, MayStop
  <2>3. [t \in Test |-> InspectedParents(Desc(current), T, t)] \in [Test -> SUBSET Test]
    BY <1>1, InspectedTypes, Zenon
  <2>. QED
    BY <2>1, <2>2, <2>3, Zenon DEF ContractSeen, Promise!Contract, MayStop
<1>9. /\ scenario[current].exec_start_state = "Pending"
      /\ scenario[current].test_states = Promise!NoVerdict
  BY <1>2 DEF FreshScenario, Promise!NoVerdict
<1>. QED
  BY <1>2, <1>6, <1>7, <1>8, <1>9, Zenon DEF Promise!Init

-----------------------------------------------------------------------------
(***************************************************************************)
(* The failures counted.                                                   *)
(***************************************************************************)
INSTANCE FiniteSetTheorems

Failed(d, o) == {t \in TestsOf(d) : o.test_states[t] = "Fail"}

Counted(d, o) ==
    o.failures = Cardinality(Failed(d, o)) + (IF o.exec_start_state = "Fail" THEN 1 ELSE 0)

CountInv == \A s \in Scenario : Counted(Desc(s), scenario[s])

\* A scenario has finitely many tests.
LEMMA FailedFinite ==
    ASSUME NEW d, NEW o, TestCount(d) \in Nat
    PROVE  IsFiniteSet(Failed(d, o)) /\ Cardinality(Failed(d, o)) \in Nat
<1>1. IsFiniteSet(1..TestCount(d))
  BY FS_Interval
<1>2. IsFiniteSet(TestsOf(d))
  <2>. DEFINE f == [k \in 1..TestCount(d) |-> d.test_sequence[k]]
  <2>1. f \in Surjection(1..TestCount(d), TestsOf(d))
    BY Zenon DEF Surjection, TestsOf
  <2>. QED
    BY <1>1, <2>1, FS_Surjection, Zenon
<1>3. Failed(d, o) \subseteq TestsOf(d)
  BY Zenon DEF Failed
<1>. QED
  BY <1>2, <1>3, FS_Subset, FS_CardinalityType

\* A result is recorded where there was no verdict, and counted if it is a failure.
LEMMA RecordCounts ==
    ASSUME NEW d, NEW TT, Ordered(d, TT), NEW o \in ScenarioObject, NEW r \in Result,
           ObjectInv(d, o), Counted(d, o)
    PROVE  Counted(d, RecordResult(d, o, r))
<1>. DEFINE new == RecordResult(d, o, r)
            at == d.test_sequence[o.step]
<1>1. /\ new.failures = IF o.state \in {"Running", "PreStart"} /\ r # 0
                        THEN o.failures + 1 ELSE o.failures
      /\ new.exec_start_state = IF o.state = "PreStart" THEN Verdict(r)
                                ELSE o.exec_start_state
      /\ \A t \in Test : new.test_states[t] =
            IF o.state = "Running" /\ t = at THEN Verdict(r) ELSE o.test_states[t]
  BY RecordFields
<1>2. o.failures \in Nat /\ o.step \in Nat /\ TestCount(d) \in Nat
  BY Zenon DEF ScenarioObject, Ordered
<1>3. TestsOf(d) \subseteq Test /\ Cardinality(Failed(d, o)) \in Nat
  BY <1>2, FailedFinite, Zenon DEF TestsOf, Ordered
<1>. HIDE DEF new
<1>4. CASE o.state = "Running" /\ r # 0
  <2>1. at \in TestsOf(d) /\ at \in Test /\ o.test_states[at] = "Pending"
    BY <1>2, <1>4 DEF ObjectInv, PendingFrom, Ordered, TestsOf
  <2>2. Failed(d, new) = Failed(d, o) \cup {at} /\ at \notin Failed(d, o)
    BY <1>1, <1>3, <1>4, <2>1, Zenon DEF Failed, Verdict
  <2>3. Cardinality(Failed(d, new)) = Cardinality(Failed(d, o)) + 1
    BY <1>2, <2>2, FailedFinite, FS_AddElement, Zenon
  <2>4. new.failures = o.failures + 1 /\ new.exec_start_state = o.exec_start_state
    BY <1>1, <1>4, Zenon
  <2>. QED
    BY <1>2, <1>3, <2>3, <2>4 DEF Counted, new
<1>5. CASE o.state # "Running" \/ r = 0
  <2>1. Failed(d, new) = Failed(d, o)
    <3>1. \A t \in TestsOf(d) : new.test_states[t] = "Fail" <=> o.test_states[t] = "Fail"
      <4>1. CASE o.state # "Running"
        BY <1>1, <1>3, <4>1, Zenon
      <4>2. CASE o.state = "Running" /\ r = 0
        <5>1. o.test_states[at] = "Pending" /\ Verdict(r) = "Pass"
          BY <1>2, <4>2 DEF ObjectInv, PendingFrom, Verdict
        <5>. QED
          BY <1>1, <1>3, <4>2, <5>1
      <4>. QED
        BY <1>5, <4>1, <4>2, Zenon
    <3>. QED
      BY <3>1, Zenon DEF Failed
  <2>2. CASE o.state = "PreStart"
    <3>1. o.exec_start_state = "Pending" /\ o.failures = Cardinality(Failed(d, o))
      BY <1>3, <2>2 DEF ObjectInv, Counted
    <3>. QED
      BY <1>1, <1>2, <2>1, <2>2, <3>1, Zenon DEF Counted, Verdict, new
  <2>3. CASE o.state # "PreStart"
    BY <1>1, <1>5, <2>1, <2>3, Zenon DEF Counted, new
  <2>. QED
    BY <2>2, <2>3, Zenon
<1>. QED
  BY <1>4, <1>5, Zenon

\* A scenario that was just loaded or activated has no failures.
LEMMA FreshCounted ==
    ASSUME NEW d, TestsOf(d) \subseteq Test
    PROVE  Counted(d, FreshScenario)
<1>1. Failed(d, FreshScenario) = {}
  BY Zenon DEF FreshScenario, Failed
<1>2. Cardinality(Failed(d, FreshScenario)) = 0
  BY <1>1, FS_EmptySet, Zenon
<1>. QED
  BY <1>2 DEF Counted, FreshScenario

\* Every step counts the failures it records.
LEMMA CountStep ==
    ASSUME TypeOK, StepInRange, VerdictInv, CountInv, [Next]_vars
    PROVE  CountInv'
<1>1. /\ library' = library
      /\ \A s \in Scenario : \/ scenario'[s] = FreshScenario
                             \/ GainsFailure(s)
  BY VerdictStep, Zenon
<1>. SUFFICES ASSUME NEW s \in Scenario PROVE Counted(Desc(s), scenario'[s])
  BY <1>1, Zenon DEF CountInv, Desc
<1>2. Ordered(Desc(s), T) /\ ObjectInv(Desc(s), scenario[s]) /\ Counted(Desc(s), scenario[s])
  BY LibraryOrdered, Zenon DEF VerdictInv, CountInv
<1>3. scenario[s] \in ScenarioObject /\ TestsOf(Desc(s)) \subseteq Test
  BY <1>2 DEF TypeOK, Ordered, TestsOf
<1>4. CASE scenario'[s] = FreshScenario
  BY <1>3, <1>4, FreshCounted, Zenon
<1>5. CASE scenario'[s] = scenario[s]
  BY <1>2, <1>5, Zenon
<1>6. ASSUME NEW r \in Result, SameFailures(RecordResult(Desc(s), scenario[s], r), scenario'[s])
      PROVE  Counted(Desc(s), scenario'[s])
  <2>. DEFINE new == RecordResult(Desc(s), scenario[s], r)
  <2>1. Counted(Desc(s), new)
    BY <1>2, <1>3, RecordCounts, Zenon
  <2>. HIDE DEF new
  <2>2. Failed(Desc(s), scenario'[s]) = Failed(Desc(s), new)
    BY <1>3, <1>6, Zenon DEF SameFailures, Failed, new
  <2>. QED
    BY <1>6, <2>1, <2>2, Zenon DEF SameFailures, Counted, new
<1>. QED
  BY <1>1, <1>4, <1>5, <1>6, Zenon DEF GainsFailure

\* The count of failures agrees with the verdicts, in every state of every run.
LEMMA CountInvariant == Spec => []CountInv
<1>1. Init => CountInv
  <2>. SUFFICES ASSUME Init PROVE CountInv
    BY Zenon
  <2>1. TypeOK
    BY TypeInit, Zenon
  <2>2. \A s \in Scenario : scenario[s] = FreshScenario /\ TestsOf(Desc(s)) \subseteq Test
    BY <2>1, LibraryTypes DEF Init
  <2>. QED
    BY <2>2, FreshCounted, Zenon DEF CountInv
<1>2. TypeOK /\ StepInRange /\ VerdictInv /\ CountInv /\ [Next]_vars => CountInv'
  BY CountStep, Zenon
<1>. QED
  BY <1>1, <1>2, TypeCorrect, VerdictInvariant, PTL DEF Spec

\* The failures that a scenario counts (scenario.rs:580, 595) are the tests it marked
\* failed and a failed ExecStart, in every state of every run.
THEOREM CountIsTheVerdicts == Spec => []FailuresAreVerdicts
<1>1. CountInv => FailuresAreVerdicts
  BY Zenon DEF CountInv, Counted, Failed, FailuresAreVerdicts
<1>. QED
  BY <1>1, CountInvariant, PTL

-----------------------------------------------------------------------------
\* One scenario is loaded, and clients only start it, as often as they like: however the
\* threads of its tests, its commands and the main thread (Scenario::activate, advance,
\* finish_scenario, scenario.rs:514-643, 874-892; UnitManager::manager_request) interleave,
\* runs follow one another as ScenarioPromise says, unless the program dies.  A run begins without verdicts and
\* when none is under way, tests are judged one at a time after what they require has
\* passed, only a test that lacks a requirement is skipped, a run that is not cut short
\* judges every test, and its end is announced once, with the code of its verdicts.  That
\* every run comes to its end (the fairness of KeepsPromise) is not part of it.
THEOREM LoneScenarioKeepsPromise ==
    ASSUME Lone
    PROVE  Spec => Promise!Spec
<1>1. Init => EndInv /\ Promise!Init
  BY PromisedInit, Zenon
<1>2. /\ Known /\ FailuresAreVerdicts /\ TypeOK' /\ LoneBasics /\ DriverInv /\ JudgedInv
      /\ EndInv /\ [Next]_vars
      => EndInv' /\ [Promise!Next]_(Promise!vars)
  BY PromisedSteps, Zenon
<1>3. Spec => [](LoneBasics /\ DriverInv)
  BY DriverInvariant, Zenon
<1>. QED
  BY <1>1, <1>2, <1>3, KnownInvariant, CountIsTheVerdicts, TypeCorrect, RequirementsComeFirst, PTL
  DEF Spec, Promise!Spec
=============================================================================
