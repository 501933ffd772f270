---------------------------- MODULE MCScenarioRun ----------------------------
(***************************************************************************)
(* Instances of ScenarioRun for TLC: small libraries of tests and          *)
(* scenarios, and the requests of each run.                                *)
(***************************************************************************)
EXTENDS ScenarioRefinement

CONSTANTS t1, t2, x, a, b

\* A description for every test, from the ones that differ from a plain test.
Tests(requires, daemons, timeouts) ==
    [t \in Test |-> [requires |-> IF t \in DOMAIN requires THEN requires[t] ELSE <<>>,
                     daemon |-> t \in daemons, timeout |-> t \in timeouts, compatible |-> TRUE]]

Runs(sequence, assumptions, commands, count, timeout) ==
    [test_sequence |-> sequence, assumptions |-> assumptions,
     exec_start |-> "start" \in commands, exec_stop_success |-> "success" \in commands,
     exec_stop_failure |-> "failure" \in commands,
     stop_after_failure_count |-> count, timeout |-> timeout]

One(tests, run) == [test |-> tests, scenario |-> [s \in Scenario |-> run]]

InARow == <<t1, t2, x>>

\* t2 requires t1, and x requires t2 or t1; or t2 requires t1 and x, which is assumed to
\* have passed and written last or first.
Chain == [t \in {t2, x} |-> IF t = t2 THEN <<t1>> ELSE <<t2>>]
Fork == [t \in {t2, x} |-> <<t1>>]
Assumed == [t \in {t2} |-> <<t1, x>>]
AssumedFirst == [t \in {t2} |-> <<x, t1>>]

SingleLibraries ==
    {One(Tests(Chain, {}, {}), Runs(InARow, {}, {"start", "failure"}, None, FALSE)),
     One(Tests(Fork, {t1}, {}), Runs(InARow, {}, {"success"}, None, FALSE)),
     One(Tests(Fork, {t2}, {}), Runs(InARow, {}, {"start", "success", "failure"}, 1, FALSE)),
     One(Tests(Chain, {}, {}), Runs(InARow, {}, {}, 2, TRUE)),
     One(Tests(Fork, {}, {t2}), Runs(InARow, {}, {"start"}, None, TRUE)),
     One(Tests(Assumed, {}, {}), Runs(<<t1, t2>>, {x}, {"failure"}, 0, FALSE)),
     One(Tests(AssumedFirst, {}, {}), Runs(<<t1, t2>>, {x}, {}, None, FALSE))}

\* Two scenarios that share a test; the tests of the second may be none at all, or one
\* that fits no loaded jig.
Pair(daemons, other) ==
    [test |-> [Tests([t \in {t2} |-> <<t1>>], daemons, {}) EXCEPT ![x].compatible = FALSE],
     scenario |-> [s \in Scenario |-> IF s = a THEN Runs(<<t1, t2>>, {}, {"success"}, None, FALSE)
                                              ELSE Runs(other, {}, {}, None, FALSE)]]

PairLibraries == {Pair({}, <<>>), Pair({}, <<x>>), Pair({t1}, <<t1>>)}

AnyRequest ==
    {StartScenario(None), StartScenario(b), StartScenario(t1), SelectScenario(b),
     Rescan(a, TRUE), Rescan(a, FALSE), Rescan(b, FALSE)}

StartOnly == {StartScenario(None)}

-----------------------------------------------------------------------------
(***************************************************************************)
(* One library for each disagreement with the documents.                   *)
(***************************************************************************)
OneTest == {One(Tests(<<>>, {}, {}), Runs(<<t1>>, {}, {}, None, FALSE))}
TimedScenario == {One(Tests(<<>>, {}, {}), Runs(<<t1, t2>>, {}, {}, None, TRUE))}
=============================================================================
