---------------------------- MODULE ScenarioSteps ----------------------------
(***************************************************************************)
(* The decisions of ScenarioOrder once more, as the recursions of          *)
(* units/scenario.rs: find_next_state, which calls itself on every state   *)
(* that is_state_okay rejects, and all_dependencies_succeeded, which walks *)
(* the requirements.  A scenario object is advanced on its own, with any   *)
(* result at any time, and at every state it reaches the recursions are    *)
(* compared with the closed forms that ScenarioRun and the proofs use.     *)
(***************************************************************************)
EXTENDS ScenarioOrder

CONSTANT Descriptions    \* pairs of a scenario's description and its tests'

VARIABLES description, tests, object

vars == <<description, tests, object>>

Init ==
    /\ \E pair \in Descriptions : description = pair[1] /\ tests = pair[2]
    /\ object = FreshScenario

-----------------------------------------------------------------------------
(* The loop of all_dependencies_succeeded over the parents not yet looked   *)
(* at, and its call on each parent that passed.                             *)
RECURSIVE ParentsSucceeded(_, _)
ParentsSucceeded(o, parents) ==
    \/ parents = <<>>
    \/ Head(parents) \in description.assumptions
    \/ /\ o.test_states[Head(parents)] = "Pass"
       /\ ParentsSucceeded(o, tests[Head(parents)].requires)
       /\ ParentsSucceeded(o, Tail(parents))

all_dependencies_succeeded(o, t) == ParentsSucceeded(o, tests[t].requires)

(* A state is a phase and, in Running, the step.                            *)
Running(k) == [phase |-> "Running", step |-> k]
Plain(phase) == [phase |-> phase, step |-> 0]

Count == TestCount(description)

(* Seeded mistake: the failure count is compared with >.                    *)
AfterStepLate(o, k) ==
    IF k < Count
    THEN IF description.stop_after_failure_count # None
            /\ o.failures > description.stop_after_failure_count
         THEN Plain("PostFailure") ELSE Running(k + 1)
    ELSE IF o.failures > 0 THEN Plain("PostFailure") ELSE Plain("PostSuccess")

AfterStep(o, k) ==
    IF k < Count
    THEN IF FailuresReached(description, o) THEN Plain("PostFailure") ELSE Running(k + 1)
    ELSE IF o.failures > 0 THEN Plain("PostFailure") ELSE Plain("PostSuccess")

(* The match of find_next_state.                                            *)
StateAfter(o, s) ==
    CASE s.phase = "Idle" -> Plain("PreStart")
      [] s.phase = "PreStart" -> Running(1)
      [] s.phase = "Running" -> AfterStep(o, s.step)
      [] OTHER -> Plain("ScenarioFinished")

(* Seeded mistake: the requirements of a test are not looked at.            *)
LacksDependencyUnchecked(o, k, late) == FALSE

(* is_state_okay finds that the test lacks a dependency, and marks it.      *)
LacksDependency(o, k, late) ==
    MayRun(description, o, k, late)
    /\ ~all_dependencies_succeeded(o, description.test_sequence[k])

is_state_okay(o, s, late) ==
    IF s.phase = "Running"
    THEN MayRun(description, o, s.step, late) /\ ~LacksDependency(o, s.step, late)
    ELSE s.phase = "ScenarioFinished" \/ HasCommand(description, s.phase)

Marked(o, s, late) ==
    IF s.phase = "Running" /\ LacksDependency(o, s.step, late)
    THEN [o EXCEPT !.test_states[description.test_sequence[s.step]] = "Skip"] ELSE o

(* The clock is read at every step: that of step `late' is the first to     *)
(* find the scenario's Timeout over.                                        *)
RECURSIVE find_next_state(_, _, _)
find_next_state(o, from, late) ==
    LET s == StateAfter(o, from)
    IN IF is_state_okay(o, s, late)
       THEN [o EXCEPT !.state = s.phase, !.step = IF s.phase = "Running" THEN s.step ELSE @]
       ELSE find_next_state(
               [Marked(o, s, late) EXCEPT
                   !.timed_out = @ \/ (s.phase = "Running" /\ s.step >= late)], s, late)

StateOf(o) == IF o.state = "Running" THEN Running(o.step) ELSE Plain(o.state)

Recorded(result) == RecordResult(description, object, result)

(* Scenario::advance, with a result, for a scenario that has tests.         *)
Advance(result, late) ==
    LET o == Recorded(result)
    IN /\ late \in LateSteps(description, o)
       /\ object' = find_next_state(o, StateOf(o), late)
       /\ UNCHANGED <<description, tests>>

Next == \E result \in Result, late \in 1..(Count + 1) : Advance(result, late)

Spec == Init /\ [][Next]_vars

-----------------------------------------------------------------------------
(* The state that the closed forms of ScenarioOrder lead to.                *)
AcceptedStep(o, late) ==
    LET okay == StepsOkay(description, tests, o, late)
    IN {k \in okay : \A other \in okay : k <= other}

ClosedForm(o, late) ==
    IF o.state = "Idle" /\ description.exec_start THEN [o EXCEPT !.state = "PreStart"]
    ELSE IF ~LeavesForTests(description, o) THEN [o EXCEPT !.state = "ScenarioFinished"]
    ELSE LET next == AcceptedStep(o, late)
             bound == IF next = {} THEN Count + 1 ELSE CHOOSE k \in next : TRUE
             kept == Skipping(o, SkippedBefore(description, tests, o, late, bound))
             phase == PostPhase(description, o)
         IN IF next # {} THEN [kept EXCEPT !.state = "Running", !.step = bound]
            ELSE [kept EXCEPT
                    !.timed_out = @ \/ \E k \in StepsTried(description, o) : k >= late,
                    !.state = IF HasCommand(description, phase) THEN phase
                              ELSE "ScenarioFinished"]

(* The recursion of find_next_state, whatever the result and whenever the   *)
(* time runs out, goes to the state that the closed form says, and skips    *)
(* the tests that it says.                                                  *)
FindNextStateAgrees ==
    \A result \in Result : LET o == Recorded(result) IN
       \A late \in LateSteps(description, o) :
          find_next_state(o, StateOf(o), late) = ClosedForm(o, late)

(* No order of results makes the scenario leave a test out: when it has     *)
(* finished, every test has a verdict, unless ExecStart failed, the time    *)
(* ran out, or StopAfterFailureCount stopped it; and a test that passed or  *)
(* failed had all its requirements pass, up to the first assumed one.       *)
EveryTestHasVerdict ==
    /\ object.state = "ScenarioFinished" =>
          \/ object.exec_start_state = "Fail" \/ object.timed_out
          \/ FailuresReached(description, object)
          \/ \A t \in TestsOf(description) : object.test_states[t] # "Pending"
    /\ \A t \in TestsOf(description) : object.test_states[t] \in {"Pass", "Fail"} =>
          \A p \in InspectedParents(description, tests, t) : object.test_states[p] = "Pass"
=============================================================================
