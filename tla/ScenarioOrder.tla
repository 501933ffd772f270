---------------------------- MODULE ScenarioOrder ----------------------------
(***************************************************************************)
(* The decisions a scenario takes each time it advances                    *)
(* (units/scenario.rs): which result is recorded, which test is next,      *)
(* which tests are skipped on the way, which stop command is due.          *)
(*                                                                         *)
(* A scenario object o is the mutable part of struct Scenario; d is its    *)
(* ScenarioDescription after the tests have been put in order, and T the   *)
(* descriptions of the tests.  Step k stands for Running(k - 1).           *)
(*                                                                         *)
(* Nothing here is recursive: find_next_state, which calls itself on every *)
(* rejected state, is the choice of the least acceptable step, and         *)
(* all_dependencies_succeeded, which walks the required parents, is the    *)
(* existence of a set of passed tests closed under that walk.              *)
(***************************************************************************)
EXTENDS Integers, Sequences, FiniteSets

CONSTANTS Test,  \* the names of tests
          None   \* an absent Option

\* The phases of a scenario; ScenarioState::Running(i) is "Running" and a step.
Phase == {"Idle", "PreStart", "Running", "PostSuccess", "PostFailure", "ScenarioFinished"}

\* TestState::Running is declared in the code but never assigned.
TestState == {"Pending", "Pass", "Skip", "Fail"}

\* Exit codes: 0, and 1 for every nonzero one (the code's own -1, -2, -3 too).
Result == {0, 1}

\* A test: the names it requires in the order written, Type=daemon, whether it
\* has a Timeout, and whether one of its Jigs is loaded (or it lists none).
TestDescription ==
    [requires : Seq(Test), daemon : BOOLEAN, timeout : BOOLEAN, compatible : BOOLEAN]

\* A scenario: its tests in the order get_test_order found, the assumed ones
\* left out, and which of the optional fields are present.
ScenarioDescription ==
    [test_sequence : Seq(Test), assumptions : SUBSET Test,
     exec_start : BOOLEAN, exec_stop_success : BOOLEAN, exec_stop_failure : BOOLEAN,
     stop_after_failure_count : Nat \cup {None}, timeout : BOOLEAN]

\* struct Scenario.  timed_out: the clock has been seen past the Timeout since
\* start_time; the clock never goes back.
ScenarioObject ==
    [state : Phase, step : Nat, failures : Nat, exec_start_state : TestState,
     test_states : [Test -> TestState], timed_out : BOOLEAN]

\* The object after new() and after the resets of activate().
FreshScenario ==
    [state |-> "Idle", step |-> 0, failures |-> 0, exec_start_state |-> "Pending",
     test_states |-> [t \in Test |-> "Pending"], timed_out |-> FALSE]

TestCount(d) == Len(d.test_sequence)

TestsOf(d) == {d.test_sequence[k] : k \in 1..TestCount(d)}

\* is_running.
IsRunning(o) == o.state \notin {"Idle", "ScenarioFinished"}

(***************************************************************************)
(* What the dependency resolver guarantees of an order: no test twice, and *)
(* every requirement is assumed or comes earlier.                          *)
(***************************************************************************)
IsTestOrder(d, T) ==
    /\ \A i, j \in 1..TestCount(d) :
          d.test_sequence[i] = d.test_sequence[j] => i = j
    /\ \A i \in 1..TestCount(d) :
          \A k \in 1..Len(T[d.test_sequence[i]].requires) :
             LET parent == T[d.test_sequence[i]].requires[k]
             IN  \/ parent \in d.assumptions
                 \/ \E j \in 1..(i - 1) : d.test_sequence[j] = parent
-----------------------------------------------------------------------------
(***************************************************************************)
(* Recording the result that an AdvanceScenario carries: in Running it is  *)
(* the verdict of the test at the current step, in PreStart the verdict of *)
(* the ExecStart command, elsewhere it is dropped.                         *)
(***************************************************************************)
Verdict(result) == IF result = 0 THEN "Pass" ELSE "Fail"

\* Seeded mistake: the result of a stop command is recorded for the last test.
RecordAlways(d, o, result) ==
    [o EXCEPT
       !.test_states = IF o.state # "Idle" /\ o.step > 0
                       THEN [@ EXCEPT ![d.test_sequence[o.step]] = Verdict(result)]
                       ELSE @]

RecordResult(d, o, result) ==
    [o EXCEPT
       !.failures = IF o.state \in {"Running", "PreStart"} /\ result # 0 THEN @ + 1 ELSE @,
       !.exec_start_state = IF o.state = "PreStart" THEN Verdict(result) ELSE @,
       !.test_states = IF o.state = "Running"
                       THEN [@ EXCEPT ![d.test_sequence[o.step]] = Verdict(result)]
                       ELSE @]
-----------------------------------------------------------------------------
(***************************************************************************)
(* all_dependencies_succeeded.  The loop over the required parents returns *)
(* true at the first assumed one, so only the parents before it are looked *)
(* at; each of those must have passed, and the same is asked of it in turn.*)
(***************************************************************************)
InspectedParents(d, T, t) ==
    {T[t].requires[k] : k \in {k \in 1..Len(T[t].requires) :
                                  \A j \in 1..k : T[t].requires[j] \notin d.assumptions}}

AllDependenciesSucceeded(d, T, o, t) ==
    \E Passed \in SUBSET Test :
       /\ InspectedParents(d, T, t) \subseteq Passed
       /\ \A u \in Passed : /\ o.test_states[u] = "Pass"
                            /\ InspectedParents(d, T, u) \subseteq Passed

(***************************************************************************)
(* is_state_okay for a step, and for the commands.  The clock is read anew *)
(* for every step that is tried: `late' is the first step whose check      *)
(* finds the scenario's Timeout passed.                                    *)
(***************************************************************************)
LateSteps(d, o) ==
    {late \in 1..(TestCount(d) + 1) : /\ o.timed_out => late = 1
                                      /\ ~d.timeout => late = TestCount(d) + 1}

MayRun(d, o, k, late) ==
    /\ k < late
    /\ o.exec_start_state # "Fail"
    /\ o.test_states[d.test_sequence[k]] = "Pending"

StepOkay(d, T, o, k, late) ==
    /\ MayRun(d, o, k, late)
    /\ AllDependenciesSucceeded(d, T, o, d.test_sequence[k])

(***************************************************************************)
(* find_next_state.  The steps tried are those after the current one; the  *)
(* failure count is consulted when a step is left, so it never keeps the   *)
(* first one from being tried.                                             *)
(***************************************************************************)
FailuresReached(d, o) ==
    /\ d.stop_after_failure_count # None
    /\ o.failures >= d.stop_after_failure_count

LeavesForTests(d, o) ==
    \/ o.state \in {"PreStart", "Running"}
    \/ o.state = "Idle" /\ ~d.exec_start

LastStepLeft(o) == IF o.state = "Running" THEN o.step ELSE 0

\* Seeded mistake: the step after the one that was left is passed over.
StepsTriedButOne(d, o) ==
    {k \in (LastStepLeft(o) + 2)..TestCount(d) : FailuresReached(d, o) => k = 1}

StepsTried(d, o) ==
    {k \in (LastStepLeft(o) + 1)..TestCount(d) : FailuresReached(d, o) => k = 1}

StepsOkay(d, T, o, late) == {k \in StepsTried(d, o) : StepOkay(d, T, o, k, late)}

\* The tests found to lack a dependency before step `next' was accepted.
SkippedBefore(d, T, o, late, next) ==
    {d.test_sequence[k] : k \in {k \in StepsTried(d, o) :
        k < next /\ MayRun(d, o, k, late) /\ ~StepOkay(d, T, o, k, late)}}

Skipping(o, skipped) ==
    [o EXCEPT !.test_states = [t \in Test |-> IF t \in skipped THEN "Skip" ELSE @[t]]]

\* The last step was left with tests remaining because of StopAfterFailureCount.
StoppedEarly(d, o) ==
    FailuresReached(d, o) /\ (IF o.state = "Running" THEN o.step ELSE 1) < TestCount(d)

PostPhase(d, o) ==
    IF o.failures > 0 \/ StoppedEarly(d, o) THEN "PostFailure" ELSE "PostSuccess"

HasCommand(d, phase) ==
    \/ phase = "PreStart" /\ d.exec_start
    \/ phase = "PostSuccess" /\ d.exec_stop_success
    \/ phase = "PostFailure" /\ d.exec_stop_failure

\* Seeded mistake: the failures are not counted in the code.
FinishCodeFlat(o) == IF o.failures > 0 THEN 500 ELSE 200

\* The code of finish_scenario: 200, or 500 plus the number of failures.
FinishCode(o) == IF o.failures > 0 THEN 500 + o.failures ELSE 200
=============================================================================
